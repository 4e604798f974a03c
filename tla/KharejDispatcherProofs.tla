---------------------- MODULE KharejDispatcherProofs ----------------------
(***************************************************************************)
(* What holds of the dispatcher for any set of jobs, any number of         *)
(* deliveries and tasks, and with or without link failures.                *)
(***************************************************************************)
EXTENDS KharejDispatcher, TLAPS

USE DEF link, TooLong, LivePCs, HandlerCodes, RefusalCodes, RunCodes, FailureCodes

-----------------------------------------------------------------------------
(* What the helpers of the actions preserve.                               *)

\* A handler that is set to well-formed values leaves the handlers typed.
LEMMA SetHandlerTyped ==
  ASSUME HandlersTyped, NEW d \in Deliveries, NEW j \in Jobs,
         NEW pc \in HandlerPCs, NEW code \in FailureCodes \cup {"none", "cancel"},
         pc = "rejecting" => code \in HandlerCodes,
         SetHandler(d, pc, j, code)
  PROVE  HandlersTyped'
BY DEF HandlersTyped, HandlerType, SetHandler

LEMMA BeginRejectTyped ==
  ASSUME HandlersTyped, NEW d \in Deliveries, NEW j \in Jobs,
         NEW code \in HandlerCodes, BeginReject(d, j, code)
  PROVE  HandlersTyped'
BY SetHandlerTyped DEF BeginReject, HandlerPCs

\* Cancelling a task leaves it typed and neither ends it nor moves it.
LEMMA CancelledTyped ==
  ASSUME NEW coro \in RunType
  PROVE  /\ Cancelled(coro) \in RunType
         /\ Cancelled(coro).pc = coro.pc
         /\ Cancelled(coro).job = coro.job
         /\ Cancelled(coro).code = coro.code
BY DEF Cancelled, RunType

\* A task that moves to another await, or ends, stays typed.
LEMMA MoveRunTyped ==
  ASSUME RunsTyped, NEW r \in Runs, run[r].pc # "unused",
         NEW pc \in RunPCs, NEW code \in FailureCodes \cup {"none", TooLong},
         pc = "failing" => code \in RunCodes \cup {"cancelled"},
         MoveRun(r, pc, code)
  PROVE  RunsTyped'
BY DEF RunsTyped, RunType, MoveRun

LEMMA EndRunTyped ==
  ASSUME TypeOK, NEW r \in Runs, run[r].pc # "unused",
         NEW code \in FailureCodes \cup {"none", TooLong}, EndRun(r, code)
  PROVE  RunsTyped' /\ registry' \in [Jobs -> Runs \cup {Null}]
<1>1. RunsTyped'
  BY MoveRunTyped DEF TypeOK, EndRun, RunPCs
<1>2. QED
  BY <1>1 DEF TypeOK, EndRun

\* The same where the task ends with the code it has.
LEMMA EndAsItIsTyped ==
  ASSUME TypeOK, NEW r \in Runs, run[r].pc # "unused", EndRun(r, run[r].code)
  PROVE  RunsTyped' /\ registry' \in [Jobs -> Runs \cup {Null}]
<1>1. run[r].code \in FailureCodes \cup {"none", TooLong}
  BY DEF TypeOK, RunsTyped, RunType
<1>2. QED
  BY <1>1, EndRunTyped

LEMMA BeginFailTyped ==
  ASSUME TypeOK, NEW r \in Runs, run[r].pc # "unused",
         NEW code \in RunCodes \cup {"cancelled"}, BeginFail(r, code)
  PROVE  RunsTyped' /\ registry' \in [Jobs -> Runs \cup {Null}]
<1>1. CASE connected
  BY <1>1, MoveRunTyped DEF TypeOK, BeginFail, RunPCs
<1>2. CASE ~connected
  BY <1>2, EndAsItIsTyped DEF BeginFail
<1>3. QED
  BY <1>1, <1>2

\* A report that reaches Rubika, or may have reached it, is appended.
LEMMA TransmitTyped ==
  ASSUME sent \in [Jobs -> Seq(Reports)], NEW j \in Jobs, NEW report \in Reports,
         MayTransmit(j, report)
  PROVE  sent' \in [Jobs -> Seq(Reports)]
BY DEF MayTransmit, Transmit

LEMMA ReportsTyped ==
  /\ Accepted \in Reports
  /\ Completed \in Reports
  /\ \A code \in FailureCodes : Failed(code) \in Reports
BY DEF Reports

-----------------------------------------------------------------------------
(* Type correctness.                                                       *)

LEMMA ArrivalTyped ==
  ASSUME TypeOK, NEW d \in Deliveries, NEW j \in Jobs, Arrival(d, j)
  PROVE  TypeOK'
<1>1. ASSUME NEW code \in RefusalCodes, CreateRefused(d, j, code) PROVE TypeOK'
  BY <1>1, BeginRejectTyped DEF TypeOK, CreateRefused, RunsTyped
<1>2. CASE CreateAllowed(d, j)
  BY <1>2, SetHandlerTyped DEF TypeOK, CreateAllowed, RunsTyped, HandlerPCs
<1>3. CASE CancelNoop(d, j)
  BY <1>3, SetHandlerTyped DEF TypeOK, CancelNoop, RunsTyped, HandlerPCs
<1>4. CASE CancelTask(d, j)
  <2>1. HandlersTyped'
    BY <1>4, SetHandlerTyped DEF TypeOK, CancelTask, HandlerPCs
  <2>2. RunsTyped'
    <3>1. registry[j] \in Runs
      BY <1>4 DEF TypeOK, CancelTask
    <3>2. run[registry[j]] \in RunType
      BY <3>1 DEF TypeOK, RunsTyped
    <3>3. QED
      BY <1>4, <3>1, <3>2, CancelledTyped DEF TypeOK, CancelTask, RunsTyped
  <2>3. QED
    BY <1>4, <2>1, <2>2 DEF TypeOK, CancelTask
<1>5. QED
  BY <1>1, <1>2, <1>3, <1>4 DEF Arrival

LEMMA HandlerStepTyped ==
  ASSUME TypeOK, NEW d \in Deliveries, HandlerStep(d)
  PROVE  TypeOK'
<1>1. handler[d].job \in Jobs /\ handler[d].code \in FailureCodes \cup {"none", "cancel"}
  BY DEF TypeOK, HandlersTyped, HandlerType, HandlerStep, CreateUnsupported,
     CreateDuplicate, CreateSpawns, AcceptFails, RejectSent, RejectFails
<1>2. handler[d].pc = "rejecting" => handler[d].code \in HandlerCodes
  BY DEF TypeOK, HandlersTyped
<1>3. CASE CreateUnsupported(d)
  BY <1>1, <1>3, BeginRejectTyped, TransmitTyped, ReportsTyped
     DEF TypeOK, CreateUnsupported, RunsTyped, MayTransmit
<1>4. CASE CreateDuplicate(d)
  BY <1>1, <1>4, BeginRejectTyped, TransmitTyped, ReportsTyped
     DEF TypeOK, CreateDuplicate, RunsTyped, MayTransmit
<1>5. ASSUME NEW r \in Runs, CreateSpawns(d, r) PROVE TypeOK'
  <2>1. HandlersTyped'
    BY <1>1, <1>5, SetHandlerTyped DEF TypeOK, CreateSpawns, HandlerPCs
  <2>2. RunsTyped'
    BY <1>1, <1>5 DEF TypeOK, CreateSpawns, NewRun, RunsTyped, RunType, RunPCs
  <2>3. sent' \in [Jobs -> Seq(Reports)]
    BY <1>1, <1>5, TransmitTyped, ReportsTyped DEF TypeOK, CreateSpawns, MayTransmit
  <2>4. QED
    BY <1>1, <1>5, <2>1, <2>2, <2>3 DEF TypeOK, CreateSpawns
<1>6. CASE AcceptFails(d)
  BY <1>1, <1>6, SetHandlerTyped, TransmitTyped, ReportsTyped
     DEF TypeOK, AcceptFails, RunsTyped, HandlerPCs
<1>7. CASE RejectSent(d) \/ RejectFails(d)
  <2>1. handler[d].code \in HandlerCodes
    BY <1>2, <1>7 DEF RejectSent, RejectFails
  <2>2. MayTransmit(handler[d].job, Failed(handler[d].code))
    BY <1>7 DEF RejectSent, RejectFails, MayTransmit
  <2>3. sent' \in [Jobs -> Seq(Reports)]
    BY <1>1, <2>1, <2>2, TransmitTyped, ReportsTyped DEF TypeOK
  <2>4. HandlersTyped'
    BY <1>1, <1>7, SetHandlerTyped DEF TypeOK, RejectSent, RejectFails, HandlerPCs
  <2>5. QED
    BY <1>7, <2>3, <2>4 DEF TypeOK, RejectSent, RejectFails, RunsTyped
<1>8. QED
  BY <1>3, <1>4, <1>5, <1>6, <1>7 DEF HandlerStep

LEMMA RunStepTyped ==
  ASSUME TypeOK, NEW r \in Runs, RunStep(r)
  PROVE  TypeOK'
<1>1. run[r].pc # "unused" /\ run[r].job \in Jobs
  BY DEF TypeOK, RunsTyped, RunStep, RunStarts, RunStillborn, DownloadReturns,
     CompletedTooLong, DownloadFails, FailedTooLong, DownloadCancelled, CompletedSent, CompletedSendFails,
     CompletedCancelled, FailedSent, FailedSendLost
<1>2. CASE RunStarts(r) \/ RunStillborn(r)
  <2>1. RunsTyped'
    BY <1>1, <1>2, MoveRunTyped DEF TypeOK, RunStarts, RunStillborn, RunPCs
  <2>2. QED
    BY <1>2, <2>1 DEF TypeOK, RunStarts, RunStillborn, HandlersTyped
<1>3. CASE DownloadReturns(r)
  <2>1. RunsTyped' /\ registry' \in [Jobs -> Runs \cup {Null}]
    <3>1. CASE connected
      BY <1>1, <1>3, <3>1, MoveRunTyped DEF TypeOK, DownloadReturns, RunPCs
    <3>2. CASE ~connected
      BY <1>1, <1>3, <3>2, EndAsItIsTyped DEF DownloadReturns
    <3>3. QED
      BY <3>1, <3>2
  <2>2. QED
    BY <1>3, <2>1 DEF TypeOK, DownloadReturns, HandlersTyped
<1>4. ASSUME NEW code \in RunCodes, DownloadFails(r, code) PROVE TypeOK'
  BY <1>1, <1>4, BeginFailTyped DEF TypeOK, DownloadFails, HandlersTyped
<1>5. CASE DownloadCancelled(r)
  BY <1>1, <1>5, BeginFailTyped DEF TypeOK, DownloadCancelled, HandlersTyped
<1>6. CASE CompletedSent(r)
  <2>1. RunsTyped' /\ registry' \in [Jobs -> Runs \cup {Null}]
    BY <1>1, <1>6, EndAsItIsTyped DEF CompletedSent
  <2>2. sent' \in [Jobs -> Seq(Reports)]
    BY <1>1, <1>6, TransmitTyped, ReportsTyped DEF TypeOK, CompletedSent, MayTransmit
  <2>3. QED
    BY <1>6, <2>1, <2>2 DEF TypeOK, CompletedSent, HandlersTyped
<1>7. CASE CompletedSendFails(r) \/ CompletedCancelled(r)
  <2>1. RunsTyped' /\ registry' \in [Jobs -> Runs \cup {Null}]
    BY <1>1, <1>7, BeginFailTyped DEF CompletedSendFails, CompletedCancelled
  <2>2. sent' \in [Jobs -> Seq(Reports)]
    BY <1>1, <1>7, TransmitTyped, ReportsTyped DEF TypeOK, CompletedSendFails, CompletedCancelled
  <2>3. QED
    BY <1>7, <2>1, <2>2 DEF TypeOK, CompletedSendFails, CompletedCancelled, HandlersTyped
<1>8. CASE FailedSent(r) \/ FailedSendLost(r)
  <2>1. RunsTyped' /\ registry' \in [Jobs -> Runs \cup {Null}]
    BY <1>1, <1>8, EndAsItIsTyped DEF FailedSent, FailedSendLost
  <2>2. Failed(run[r].code) \in Reports
    BY <1>8, ReportsTyped DEF TypeOK, RunsTyped, FailedSent, FailedSendLost
  <2>3. sent' \in [Jobs -> Seq(Reports)]
    BY <1>1, <1>8, <2>2, TransmitTyped DEF TypeOK, FailedSent, FailedSendLost, MayTransmit
  <2>4. QED
    BY <1>8, <2>1, <2>3 DEF TypeOK, FailedSent, FailedSendLost, HandlersTyped
<1>9. CASE CompletedTooLong(r)
  BY <1>1, <1>9, BeginFailTyped DEF TypeOK, CompletedTooLong, HandlersTyped
<1>10. CASE FailedTooLong(r)
  BY <1>1, <1>10, EndRunTyped DEF TypeOK, FailedTooLong, HandlersTyped
<1>11. QED
  BY <1>2, <1>3, <1>4, <1>5, <1>6, <1>7, <1>8, <1>9, <1>10 DEF RunStep

LEMMA MainStepTyped ==
  ASSUME TypeOK, StopSignal \/ MainStep
  PROVE  TypeOK'
<1>1. \A r \in Runs : run[r] \in RunType
  BY DEF TypeOK, RunsTyped
<1>2. CASE StopSignal
  BY <1>2 DEF StopSignal, TypeOK, MainPCs, Registered, HandlersTyped, RunsTyped
<1>3. CASE DrainFinished \/ GatherFinished \/ CloseTransport \/ Exit
  BY <1>3 DEF DrainFinished, GatherFinished, CloseTransport, Exit, TypeOK, MainPCs, HandlersTyped, RunsTyped
<1>4. CASE DrainTimesOut
  <2>1. RunsTyped'
    BY <1>1, <1>4, CancelledTyped DEF DrainTimesOut, TypeOK, RunsTyped
  <2>2. QED
    BY <1>4, <2>1 DEF DrainTimesOut, TypeOK, MainPCs, HandlersTyped
<1>5. CASE CancelRest
  <2>1. RunsTyped'
    BY <1>1, <1>5, CancelledTyped DEF CancelRest, TypeOK, RunsTyped
  <2>2. HandlersTyped'
    BY <1>5 DEF CancelRest, TypeOK, HandlersTyped, HandlerType, HandlerPCs
  <2>3. QED
    BY <1>5, <2>1, <2>2 DEF CancelRest, TypeOK, MainPCs
<1>6. QED
  BY <1>2, <1>3, <1>4, <1>5 DEF MainStep

LEMMA NextTyped == TypeOK /\ [Next]_vars => TypeOK'
<1> SUFFICES ASSUME TypeOK, [Next]_vars PROVE TypeOK'
  OBVIOUS
<1>1. CASE Disconnect \/ Reconnect \/ UNCHANGED vars
  BY <1>1 DEF Disconnect, Reconnect, vars, TypeOK, HandlersTyped, RunsTyped
<1>2. QED
  BY <1>1, ArrivalTyped, HandlerStepTyped, RunStepTyped, MainStepTyped DEF Next

\* Every reachable state of the dispatcher is well typed.
THEOREM TypeCorrect == Spec => []TypeOK
<1>1. Init => TypeOK
  BY DEF Init, TypeOK, HandlersTyped, RunsTyped, HandlerType, RunType, HandlerPCs, RunPCs, MainPCs
<1>2. QED
  BY <1>1, NextTyped, PTL DEF Spec

-----------------------------------------------------------------------------
(* The registry.                                                           *)

\* Steps that change no task's place and no job of a task.
LEMMA SamePlacesKeepRegistry ==
  ASSUME RegistryAccurate, UNCHANGED registry,
         \A r \in Runs : run'[r].pc = run[r].pc /\ run'[r].job = run[r].job,
         registry \in [Jobs -> Runs \cup {Null}]
  PROVE  RegistryAccurate'
BY NullNotARun DEF RegistryAccurate, LiveRun

\* A live task that moves on, without ending, stays registered.
LEMMA MoveKeepsRegistry ==
  ASSUME TypeOK, RegistryAccurate, NEW r \in Runs, LiveRun(r), NEW pc, NEW code,
         pc \in {"running", "completing", "failing", "stillborn"},
         MoveRun(r, pc, code), UNCHANGED registry
  PROVE  RegistryAccurate'
<1>1. \A s \in Runs : s # r => run'[s] = run[s]
  BY DEF TypeOK, RunsTyped, MoveRun
<1>2. run'[r].pc = pc /\ run'[r].job = run[r].job
  BY DEF TypeOK, RunsTyped, MoveRun
<1>3. QED
  <2>1. run[r].job \in Jobs /\ registry[run[r].job] = r
    BY DEF TypeOK, RunsTyped, RegistryAccurate, LiveRun
  <2>2. ASSUME NEW s \in Runs, LiveRun(s)' \/ run'[s].pc = "stillborn"
        PROVE  registry'[run'[s].job] = s
    BY <1>1, <1>2, <2>1, <2>2 DEF RegistryAccurate, LiveRun
  <2>3. ASSUME NEW j \in Jobs, registry'[j] # Null
        PROVE  /\ run'[registry'[j]].job = j
               /\ run'[registry'[j]].pc \in LivePCs \cup {"stillborn"}
    BY <1>1, <1>2, <2>1, <2>3 DEF TypeOK, RegistryAccurate, LiveRun
  <2>4. QED
    BY <2>2, <2>3 DEF RegistryAccurate, LiveRun

\* A live task that ends removes its own entry and no other.
LEMMA EndKeepsRegistry ==
  ASSUME TypeOK, RegistryAccurate, NEW r \in Runs, LiveRun(r), NEW code,
         EndRun(r, code)
  PROVE  RegistryAccurate'
<1>1. \A s \in Runs : s # r => run'[s] = run[s]
  BY DEF TypeOK, RunsTyped, EndRun, MoveRun
<1>2. run'[r].pc = "ended"
  BY DEF TypeOK, RunsTyped, EndRun, MoveRun
<1>3. run[r].job \in Jobs /\ registry[run[r].job] = r
  BY DEF TypeOK, RunsTyped, RegistryAccurate, LiveRun
<1>4. /\ registry'[run[r].job] = Null
      /\ \A j \in Jobs : j # run[r].job => registry'[j] = registry[j]
  BY <1>3 DEF TypeOK, EndRun
<1>5. ASSUME NEW s \in Runs, LiveRun(s)' \/ run'[s].pc = "stillborn"
      PROVE  registry'[run'[s].job] = s
  <2>1. s # r /\ run'[s] = run[s]
    BY <1>1, <1>2, <1>5 DEF LiveRun
  <2>2. run[s].job \in Jobs /\ registry[run[s].job] = s
    BY <1>5, <2>1 DEF TypeOK, RunsTyped, RegistryAccurate, LiveRun
  <2>3. QED
    BY <1>3, <1>4, <2>1, <2>2
<1>6. ASSUME NEW j \in Jobs, registry'[j] # Null
      PROVE  /\ run'[registry'[j]].job = j
             /\ run'[registry'[j]].pc \in LivePCs \cup {"stillborn"}
  <2>1. j # run[r].job /\ registry'[j] = registry[j]
    BY <1>4, <1>6
  <2>2. registry[j] \in Runs /\ registry[j] # r
    BY <1>3, <1>6, <2>1 DEF TypeOK, RegistryAccurate
  <2>3. QED
    BY <1>1, <1>6, <2>1, <2>2 DEF RegistryAccurate, LiveRun
<1>7. QED
  BY <1>5, <1>6 DEF RegistryAccurate, LiveRun

\* A new task gets the free entry of its job.
LEMMA SpawnKeepsRegistry ==
  ASSUME TypeOK, RegistryAccurate, NEW d \in Deliveries, NEW r \in Runs,
         CreateSpawns(d, r)
  PROVE  RegistryAccurate'
<1> DEFINE j == handler[d].job
<1>1. j \in Jobs /\ registry[j] = Null /\ run[r].pc = "unused"
  BY DEF TypeOK, HandlersTyped, CreateSpawns
<1>2. /\ \A s \in Runs : s # r => run'[s] = run[s]
      /\ run'[r].pc = "created" /\ run'[r].job = j
      /\ registry' = [registry EXCEPT ![j] = r]
  BY DEF TypeOK, RunsTyped, CreateSpawns, NewRun
<1>3. ASSUME NEW s \in Runs, LiveRun(s)' \/ run'[s].pc = "stillborn"
      PROVE  registry'[run'[s].job] = s
  BY <1>1, <1>2, <1>3, NullNotARun DEF TypeOK, RunsTyped, RegistryAccurate, LiveRun
<1>4. ASSUME NEW k \in Jobs, registry'[k] # Null
      PROVE  /\ run'[registry'[k]].job = k
             /\ run'[registry'[k]].pc \in LivePCs \cup {"stillborn"}
  <2>1. CASE k = j
    BY <1>1, <1>2, <2>1 DEF TypeOK
  <2>2. CASE k # j
    <3>1. registry'[k] = registry[k] /\ registry[k] \in Runs
      BY <1>1, <1>2, <1>4, <2>2 DEF TypeOK
    <3>2. registry[k] # r
      BY <1>1, <1>4, <3>1 DEF RegistryAccurate, LiveRun
    <3>3. QED
      BY <1>2, <1>4, <3>1, <3>2 DEF RegistryAccurate, LiveRun
  <2>3. QED
    BY <2>1, <2>2
<1>5. QED
  BY <1>3, <1>4 DEF RegistryAccurate, LiveRun

LEMMA RunStepKeepsRegistry ==
  ASSUME TypeOK, RegistryAccurate, NEW r \in Runs, RunStep(r)
  PROVE  RegistryAccurate'
<1>1. LiveRun(r)
  BY DEF LiveRun, RunStep, RunStarts, RunStillborn, DownloadReturns,
     CompletedTooLong, DownloadFails, FailedTooLong, DownloadCancelled, CompletedSent, CompletedSendFails,
     CompletedCancelled, FailedSent, FailedSendLost
<1>2. CASE RunStarts(r) \/ RunStillborn(r)
  BY <1>1, <1>2, MoveKeepsRegistry DEF RunStarts, RunStillborn
<1>3. ASSUME NEW code, BeginFail(r, code) PROVE RegistryAccurate'
  BY <1>1, <1>3, MoveKeepsRegistry, EndKeepsRegistry DEF BeginFail
<1>4. CASE DownloadReturns(r)
  BY <1>1, <1>4, MoveKeepsRegistry, EndKeepsRegistry DEF DownloadReturns
<1>5. CASE CompletedSent(r) \/ FailedSent(r) \/ FailedSendLost(r)
  BY <1>1, <1>5, EndKeepsRegistry DEF CompletedSent, FailedSent, FailedSendLost
<1>6. CASE FailedTooLong(r)
  BY <1>1, <1>6, EndKeepsRegistry DEF FailedTooLong
<1>7. QED
  BY <1>2, <1>3, <1>4, <1>5, <1>6 DEF RunStep, CompletedTooLong, DownloadFails,
     DownloadCancelled, CompletedSendFails, CompletedCancelled

\* Every step but those of a task and the creation of one leaves all tasks in
\* their places: at most it requests cancellations.
LEMMA OtherStepsKeepPlaces ==
  ASSUME TypeOK, [Next]_vars,
         ~ \E r \in Runs : RunStep(r),
         ~ \E d \in Deliveries, r \in Runs : CreateSpawns(d, r)
  PROVE  /\ UNCHANGED registry
         /\ \A r \in Runs : run'[r].pc = run[r].pc /\ run'[r].job = run[r].job
<1>1. \A r \in Runs : /\ Cancelled(run[r]).pc = run[r].pc
                      /\ Cancelled(run[r]).job = run[r].job
  BY CancelledTyped DEF TypeOK, RunsTyped
<1>2. ASSUME NEW d \in Deliveries, NEW j \in Jobs, CancelTask(d, j)
      PROVE  /\ UNCHANGED registry
             /\ \A r \in Runs : run'[r].pc = run[r].pc /\ run'[r].job = run[r].job
  <2>1. run' = [run EXCEPT ![registry[j]] = Cancelled(run[registry[j]])]
    BY <1>2 DEF CancelTask
  <2>2. QED
    BY <1>1, <1>2, <2>1 DEF TypeOK, RunsTyped, CancelTask
<1>3. ASSUME NEW d \in Deliveries, NEW j \in Jobs, Arrival(d, j), ~CancelTask(d, j)
      PROVE  UNCHANGED <<run, registry>>
  BY <1>3 DEF Arrival, CreateRefused, CreateAllowed, CancelNoop
<1>4. ASSUME NEW d \in Deliveries, HandlerStep(d)
      PROVE  UNCHANGED <<run, registry>>
  BY <1>4 DEF HandlerStep, CreateUnsupported, CreateDuplicate, AcceptFails, RejectSent, RejectFails
<1>5. CASE DrainTimesOut
  BY <1>1, <1>5 DEF DrainTimesOut
<1>6. CASE CancelRest
  BY <1>1, <1>6 DEF CancelRest
<1>7. CASE Disconnect \/ Reconnect \/ StopSignal \/ DrainFinished \/ GatherFinished
             \/ CloseTransport \/ Exit \/ UNCHANGED vars
  BY <1>7 DEF Disconnect, Reconnect, StopSignal, DrainFinished, GatherFinished,
     CloseTransport, Exit, vars
<1>8. QED
  BY <1>2, <1>3, <1>4, <1>5, <1>6, <1>7 DEF Next, MainStep

LEMMA NextKeepsRegistry == TypeOK /\ RegistryAccurate /\ [Next]_vars => RegistryAccurate'
BY RunStepKeepsRegistry, SpawnKeepsRegistry, OtherStepsKeepPlaces, SamePlacesKeepRegistry
   DEF TypeOK

\* The registry of running tasks is exact at all times, for any number of
\* duplicate deliveries and cancellations.
THEOREM RegistryCorrect == Spec => []RegistryAccurate
<1>1. Init => RegistryAccurate
  BY DEF Init, RegistryAccurate, LiveRun
<1>2. QED
  BY <1>1, NextKeepsRegistry, TypeCorrect, PTL DEF Spec

\* No job is ever executed by two tasks at once.
THEOREM SingleRun == Spec => []OneRunPerJob
<1>1. RegistryAccurate => OneRunPerJob
  BY DEF RegistryAccurate, OneRunPerJob
<1>2. QED
  BY <1>1, RegistryCorrect, PTL

-----------------------------------------------------------------------------
(* Entries are removed by their own task only.                             *)

\* Only the end of a live task empties an entry, and it is the task's own.
LEMMA EndRemovesOwnEntry ==
  ASSUME TypeOK, RegistryAccurate, NEW r \in Runs, LiveRun(r),
         NEW code, EndRun(r, code), NEW j \in Jobs, registry[j] # Null, registry'[j] # registry[j]
  PROVE  registry'[j] = Null /\ registry[j] = r /\ run'[r].pc = "ended"
<1>1. run[r].job \in Jobs /\ registry[run[r].job] = r
  BY DEF TypeOK, RunsTyped, RegistryAccurate, LiveRun
<1>2. registry' = [registry EXCEPT ![run[r].job] = Null] /\ run'[r].pc = "ended"
  BY DEF TypeOK, RunsTyped, EndRun, MoveRun
<1>3. QED
  BY <1>1, <1>2 DEF TypeOK

\* A registry entry is never replaced, and never removed while its task lives.
THEOREM EntriesAreOwned == Spec => EntryOutlivesRun
<1> DEFINE Step == \A j \in Jobs : registry[j] # Null /\ registry'[j] # registry[j] =>
                     /\ registry'[j] = Null
                     /\ LiveRun(registry[j])
                     /\ run'[registry[j]].pc = "ended"
<1>1. TypeOK /\ RegistryAccurate /\ [Next]_vars => [Step]_vars
  <2> SUFFICES ASSUME TypeOK, RegistryAccurate, [Next]_vars, NEW j \in Jobs,
                      registry[j] # Null, registry'[j] # registry[j]
               PROVE  /\ registry'[j] = Null
                      /\ LiveRun(registry[j])
                      /\ run'[registry[j]].pc = "ended"
    OBVIOUS
  <2>1. ASSUME NEW d \in Deliveries, NEW r \in Runs, CreateSpawns(d, r) PROVE FALSE
    BY <2>1 DEF CreateSpawns, TypeOK
  <2>2. PICK r \in Runs : RunStep(r)
    BY <2>1, OtherStepsKeepPlaces
  <2>3. LiveRun(r) /\ \E code : EndRun(r, code)
    BY <2>2 DEF LiveRun, RunStep, RunStarts, RunStillborn, DownloadReturns,
       CompletedTooLong, DownloadFails, FailedTooLong, DownloadCancelled, CompletedSent, CompletedSendFails,
       CompletedCancelled, FailedSent, FailedSendLost, BeginFail
  <2>4. QED
    BY <2>3, EndRemovesOwnEntry
<1>2. QED
  BY <1>1, TypeCorrect, RegistryCorrect, PTL DEF Spec, EntryOutlivesRun

-----------------------------------------------------------------------------
(* What Iran hears, and in which order.                                    *)

\* The inductive strengthening of AcceptedBeforeOutcome: from the moment a
\* task exists, job.accepted has been sent for its job.
HistoryInv ==
  /\ AcceptedBeforeOutcome
  /\ \A r \in Runs : run[r].pc # "unused" => Positions(run[r].job, {Accepted}) # {}

\* Appending a report keeps the positions of all earlier ones.
LEMMA TransmitAppends ==
  ASSUME sent \in [Jobs -> Seq(Reports)], NEW j \in Jobs, NEW report \in Reports,
         Transmit(j, report)
  PROVE  /\ \A k \in Jobs : k # j => sent'[k] = sent[k]
         /\ Len(sent[j]) \in Nat
         /\ DOMAIN sent[j] = 1 .. Len(sent[j])
         /\ DOMAIN sent'[j] = 1 .. (Len(sent[j]) + 1)
         /\ \A i \in 1 .. Len(sent[j]) : sent'[j][i] = sent[j][i]
         /\ sent'[j][Len(sent[j]) + 1] = report
<1>1. sent[j] \in Seq(Reports) /\ sent' = [sent EXCEPT ![j] = Append(sent[j], report)]
  BY DEF Transmit
<1>2. QED
  BY <1>1

\* Once accepted, always accepted.
LEMMA TransmitKeepsAccepted ==
  ASSUME sent \in [Jobs -> Seq(Reports)], NEW j \in Jobs, NEW report \in Reports,
         MayTransmit(j, report), NEW k \in Jobs, Positions(k, {Accepted}) # {}
  PROVE  \E i \in DOMAIN sent'[k] : sent'[k][i] = Accepted
<1>1. CASE UNCHANGED sent
  BY <1>1 DEF Positions
<1>2. CASE Transmit(j, report)
  <2>1. PICK i \in DOMAIN sent[k] : sent[k][i] = Accepted
    BY DEF Positions
  <2>2. i \in DOMAIN sent'[k] /\ sent'[k][i] = Accepted
    <3>1. CASE k # j
      BY <1>2, <2>1, <3>1, TransmitAppends
    <3>2. CASE k = j
      <4>1. i \in 1 .. Len(sent[j]) /\ Len(sent[j]) \in Nat
        BY <1>2, <2>1, <3>2, TransmitAppends
      <4>2. i \in 1 .. (Len(sent[j]) + 1)
        BY <4>1
      <4>3. QED
        BY <1>2, <2>1, <3>2, <4>1, <4>2, TransmitAppends
    <3>3. QED
      BY <3>1, <3>2
  <2>3. QED
    BY <2>2
<1>3. QED
  BY <1>1, <1>2 DEF MayTransmit

\* An outcome may be appended where job.accepted is already in the log.
LEMMA TransmitKeepsOrder ==
  ASSUME sent \in [Jobs -> Seq(Reports)], NEW j \in Jobs, NEW report \in Reports,
         MayTransmit(j, report), AcceptedBeforeOutcome,
         report \in Outcomes => Positions(j, {Accepted}) # {}
  PROVE  AcceptedBeforeOutcome'
<1>1. CASE UNCHANGED sent
  BY <1>1 DEF AcceptedBeforeOutcome, Positions
<1>2. CASE Transmit(j, report)
  <2> SUFFICES ASSUME NEW k \in Jobs, NEW i \in DOMAIN sent'[k], sent'[k][i] \in Outcomes
               PROVE  \E n \in DOMAIN sent'[k] : sent'[k][n] = Accepted /\ n < i
    BY DEF AcceptedBeforeOutcome, Positions, Accepted, Outcomes, Completed, Failed
  <2>1. CASE i \in DOMAIN sent[k] /\ sent'[k][i] = sent[k][i]
    <3>1. PICK n \in DOMAIN sent[k] : sent[k][n] = Accepted /\ n < i
      BY <2>1 DEF AcceptedBeforeOutcome, Positions
    <3>2. n \in DOMAIN sent'[k] /\ sent'[k][n] = sent[k][n]
      BY <1>2, <3>1, TransmitAppends
    <3>3. QED
      BY <3>1, <3>2
  <2>2. CASE k = j /\ i = Len(sent[j]) + 1 /\ report \in Outcomes
    <3>1. PICK n \in DOMAIN sent[j] : sent[j][n] = Accepted
      BY <2>2 DEF Positions
    <3>2. n \in DOMAIN sent'[j] /\ sent'[j][n] = Accepted /\ n < i
      BY <1>2, <2>2, <3>1, TransmitAppends
    <3>3. QED
      BY <2>2, <3>2
  <2>3. QED
    BY <1>2, <2>1, <2>2, TransmitAppends
<1>3. QED
  BY <1>1, <1>2 DEF MayTransmit

\* A report by the task of a job, or a report that is no outcome.
LEMMA ReportKeepsHistory ==
  ASSUME TypeOK, HistoryInv, NEW j \in Jobs, NEW report \in Reports,
         MayTransmit(j, report),
         report \in Outcomes => Positions(j, {Accepted}) # {},
         \A r \in Runs : run'[r].pc # "unused" => run[r].pc # "unused" /\ run'[r].job = run[r].job
  PROVE  HistoryInv'
<1>1. AcceptedBeforeOutcome'
  BY TransmitKeepsOrder DEF TypeOK, HistoryInv
<1>2. ASSUME NEW r \in Runs, run'[r].pc # "unused"
      PROVE  \E i \in DOMAIN sent'[run'[r].job] : sent'[run'[r].job][i] = Accepted
  <2>1. run[r].job \in Jobs /\ run'[r].job = run[r].job /\ Positions(run[r].job, {Accepted}) # {}
    BY <1>2 DEF TypeOK, RunsTyped, HistoryInv
  <2>2. \E i \in DOMAIN sent'[run[r].job] : sent'[run[r].job][i] = Accepted
    BY <2>1, TransmitKeepsAccepted DEF TypeOK
  <2>3. QED
    BY <2>1, <2>2
<1>3. QED
  BY <1>1, <1>2 DEF HistoryInv, Positions, Accepted

\* Steps that send nothing and create no task.
LEMMA QuietKeepsHistory ==
  ASSUME HistoryInv, UNCHANGED sent,
         \A r \in Runs : run'[r].pc # "unused" => run[r].pc # "unused" /\ run'[r].job = run[r].job
  PROVE  HistoryInv'
BY DEF HistoryInv, AcceptedBeforeOutcome, Positions

LEMMA MoveRunKeepsJobs ==
  ASSUME TypeOK, NEW r \in Runs, run[r].pc # "unused", NEW pc, NEW code, MoveRun(r, pc, code)
  PROVE  \A s \in Runs : run'[s].pc # "unused" => run[s].pc # "unused" /\ run'[s].job = run[s].job
BY DEF TypeOK, RunsTyped, MoveRun

LEMMA RunStepKeepsHistory ==
  ASSUME TypeOK, HistoryInv, NEW r \in Runs, RunStep(r)
  PROVE  HistoryInv'
<1>1. run[r].pc # "unused" /\ run[r].job \in Jobs
  BY DEF TypeOK, RunsTyped, RunStep, RunStarts, RunStillborn, DownloadReturns,
     CompletedTooLong, DownloadFails, FailedTooLong, DownloadCancelled, CompletedSent, CompletedSendFails,
     CompletedCancelled, FailedSent, FailedSendLost
<1>2. Positions(run[r].job, {Accepted}) # {}
  BY <1>1 DEF HistoryInv
<1>3. \A s \in Runs : run'[s].pc # "unused" => run[s].pc # "unused" /\ run'[s].job = run[s].job
  BY <1>1, MoveRunKeepsJobs
     DEF RunStep, RunStarts, RunStillborn, DownloadReturns,
     CompletedTooLong, DownloadFails, FailedTooLong, DownloadCancelled, CompletedSent, CompletedSendFails,
     CompletedCancelled, FailedSent, FailedSendLost, BeginFail, EndRun
<1>4. CASE RunStarts(r) \/ RunStillborn(r) \/ DownloadReturns(r) \/ DownloadCancelled(r)
             \/ CompletedTooLong(r) \/ FailedTooLong(r)
             \/ \E code \in RunCodes : DownloadFails(r, code)
  BY <1>3, <1>4, QuietKeepsHistory
     DEF RunStarts, RunStillborn, DownloadReturns, DownloadCancelled, DownloadFails,
         CompletedTooLong, FailedTooLong
<1>5. CASE CompletedSent(r) \/ CompletedSendFails(r) \/ CompletedCancelled(r)
  <2>1. MayTransmit(run[r].job, Completed)
    BY <1>5 DEF CompletedSent, CompletedSendFails, CompletedCancelled, MayTransmit
  <2>2. QED
    BY <1>1, <1>2, <1>3, <2>1, ReportKeepsHistory, ReportsTyped
<1>6. CASE FailedSent(r) \/ FailedSendLost(r)
  <2>1. MayTransmit(run[r].job, Failed(run[r].code))
    BY <1>6 DEF FailedSent, FailedSendLost, MayTransmit
  <2>2. run[r].code \in FailureCodes
    BY <1>6 DEF TypeOK, RunsTyped, FailedSent, FailedSendLost
  <2>3. Failed(run[r].code) \in Reports
    BY <2>2, ReportsTyped
  <2>4. QED
    BY <1>1, <1>2, <1>3, <2>1, <2>3, ReportKeepsHistory
<1>7. QED
  BY <1>4, <1>5, <1>6 DEF RunStep

\* A task is created in the very step that job.accepted goes out.
LEMMA SpawnKeepsHistory ==
  ASSUME TypeOK, HistoryInv, NEW d \in Deliveries, NEW r \in Runs, CreateSpawns(d, r)
  PROVE  HistoryInv'
<1> DEFINE j == handler[d].job
<1>1. j \in Jobs /\ Transmit(j, Accepted) /\ Accepted \in Reports /\ Accepted \notin Outcomes
  BY ReportsTyped DEF TypeOK, HandlersTyped, CreateSpawns, Outcomes, Accepted, Completed, Failed
<1>2. AcceptedBeforeOutcome'
  BY <1>1, TransmitKeepsOrder DEF TypeOK, HistoryInv, MayTransmit
<1>3. run'[r].job = j /\ \A s \in Runs : s # r => run'[s] = run[s]
  BY DEF TypeOK, RunsTyped, CreateSpawns, NewRun
<1>4. ASSUME NEW s \in Runs, run'[s].pc # "unused"
      PROVE  \E i \in DOMAIN sent'[run'[s].job] : sent'[run'[s].job][i] = Accepted
  <2>1. CASE s = r
    <3>1. Len(sent[j]) + 1 \in DOMAIN sent'[j] /\ sent'[j][Len(sent[j]) + 1] = Accepted
      BY <1>1, TransmitAppends DEF TypeOK
    <3>2. QED
      BY <1>3, <2>1, <3>1
  <2>2. CASE s # r
    <3>1. run[s].job \in Jobs /\ Positions(run[s].job, {Accepted}) # {}
      BY <1>3, <1>4, <2>2 DEF TypeOK, RunsTyped, HistoryInv
    <3>2. MayTransmit(j, Accepted)
      BY <1>1 DEF MayTransmit
    <3>3. \E i \in DOMAIN sent'[run[s].job] : sent'[run[s].job][i] = Accepted
      BY <1>1, <3>1, <3>2, TransmitKeepsAccepted DEF TypeOK
    <3>4. QED
      BY <1>3, <2>2, <3>3
  <2>3. QED
    BY <2>1, <2>2
<1>5. QED
  BY <1>2, <1>4 DEF HistoryInv, Positions, Accepted

\* A handler reports acceptances and refusals, which are no outcomes.
LEMMA HandlerStepKeepsHistory ==
  ASSUME TypeOK, HistoryInv, NEW d \in Deliveries, HandlerStep(d)
  PROVE  HistoryInv'
<1> DEFINE j == handler[d].job
<1>1. j \in Jobs
  BY DEF TypeOK, HandlersTyped, HandlerStep, CreateUnsupported,
     CreateDuplicate, CreateSpawns, AcceptFails, RejectSent, RejectFails
<1>2. CASE \E r \in Runs : CreateSpawns(d, r)
  BY <1>2, SpawnKeepsHistory
<1>3. CASE CreateUnsupported(d) \/ CreateDuplicate(d) \/ AcceptFails(d)
  <2>1. MayTransmit(j, Accepted) /\ UNCHANGED run
    BY <1>3 DEF CreateUnsupported, CreateDuplicate, AcceptFails, MayTransmit
  <2>2. Accepted \in Reports /\ Accepted \notin Outcomes
    BY ReportsTyped DEF Outcomes, Accepted, Completed, Failed
  <2>3. QED
    BY <1>1, <2>1, <2>2, ReportKeepsHistory
<1>4. CASE RejectSent(d) \/ RejectFails(d)
  <2>1. MayTransmit(j, Failed(handler[d].code)) /\ UNCHANGED run
    BY <1>4 DEF RejectSent, RejectFails, MayTransmit
  <2>2. handler[d].code \in HandlerCodes
    BY <1>4 DEF TypeOK, HandlersTyped, RejectSent, RejectFails
  <2>3. Failed(handler[d].code) \in Reports
    BY <2>2, ReportsTyped
  <2>4. Failed(handler[d].code) \notin Outcomes
    BY <2>2 DEF Outcomes, Completed, Failed
  <2>5. QED
    BY <1>1, <2>1, <2>3, <2>4, ReportKeepsHistory
<1>5. QED
  BY <1>2, <1>3, <1>4 DEF HandlerStep

LEMMA NextKeepsHistory == TypeOK /\ HistoryInv /\ [Next]_vars => HistoryInv'
<1> SUFFICES ASSUME TypeOK, HistoryInv, [Next]_vars PROVE HistoryInv'
  OBVIOUS
<1>1. CASE (\E r \in Runs : RunStep(r)) \/ \E d \in Deliveries : HandlerStep(d)
  BY <1>1, RunStepKeepsHistory, HandlerStepKeepsHistory
<1>2. CASE ~ ((\E r \in Runs : RunStep(r)) \/ \E d \in Deliveries : HandlerStep(d))
  <2>1. \A r \in Runs : run'[r].pc = run[r].pc /\ run'[r].job = run[r].job
    BY <1>2, OtherStepsKeepPlaces DEF HandlerStep
  <2>2. UNCHANGED sent
    BY <1>2 DEF Next, Arrival, CreateRefused, CreateAllowed, CancelNoop, CancelTask,
       Disconnect, Reconnect, StopSignal, MainStep, DrainFinished, DrainTimesOut,
       GatherFinished, CloseTransport, CancelRest, Exit, vars
  <2>3. QED
    BY <2>1, <2>2, QuietKeepsHistory
<1>3. QED
  BY <1>1, <1>2

\* Iran hears job.accepted before the outcome of any task of the job.
THEOREM OutcomesFollowAcceptance == Spec => []AcceptedBeforeOutcome
<1>1. Init => HistoryInv
  BY DEF Init, HistoryInv, AcceptedBeforeOutcome, Positions
<1>2. HistoryInv => AcceptedBeforeOutcome
  BY DEF HistoryInv
<1>3. QED
  BY <1>1, <1>2, NextKeepsHistory, TypeCorrect, PTL DEF Spec

-----------------------------------------------------------------------------
(* Tasks that end without a word.                                          *)

\* The inductive strengthening of UncancelledRunsReport.  The worker gives up
\* its connection before it makes sends fail, whoever is cancelled was asked to
\* stop, and a task that sends job.completed has come to no failure.
SteadyInv ==
  /\ Disconnected => ~connected
  /\ \A r \in Runs : run[r].cancel => run[r].asked
  /\ \A r \in Runs : run[r].pc = "completing" => run[r].code = "none"

LEMMA TransmitIsHeard ==
  ASSUME sent \in [Jobs -> Seq(Reports)], NEW j \in Jobs, NEW report \in Reports,
         Transmit(j, report)
  PROVE  HeardIn(sent'[j], report)
<1>1. Len(sent[j]) + 1 \in DOMAIN sent'[j] /\ sent'[j][Len(sent[j]) + 1] = report
  BY TransmitAppends
<1>2. QED
  BY <1>1 DEF HeardIn

\* What a step does to the task it is about, and that it leaves the others.
LEMMA RunStepMovesOne ==
  ASSUME TypeOK, NEW r \in Runs, RunStep(r)
  PROVE  /\ \A s \in Runs : s # r => run'[s] = run[s]
         /\ ~run'[r].cancel
         /\ run'[r].pc = "completing" => run'[r].code = "none"
         /\ UNCHANGED <<link, main>>
<1>1. PICK pc, code : /\ MoveRun(r, pc, code) /\ UNCHANGED <<link, main>>
                      /\ pc = "completing" => code = "none"
  BY DEF RunStep, RunStarts, RunStillborn, DownloadReturns,
     CompletedTooLong, DownloadFails, FailedTooLong, DownloadCancelled, CompletedSent,
     CompletedSendFails, CompletedCancelled, FailedSent, FailedSendLost, BeginFail, EndRun
<1>2. QED
  BY <1>1 DEF TypeOK, RunsTyped, MoveRun

\* Every other step creates a task or at most asks tasks to stop.
LEMMA OtherStepsAsk ==
  ASSUME TypeOK, [Next]_vars, ~ \E r \in Runs : RunStep(r), NEW r \in Runs
  PROVE  \/ run'[r] = run[r]
         \/ run'[r] = Cancelled(run[r])
         \/ \E j \in Jobs : run'[r] = NewRun(j)
<1>1. ASSUME NEW d \in Deliveries, NEW j \in Jobs, Arrival(d, j)
      PROVE  run'[r] = run[r] \/ run'[r] = Cancelled(run[r])
  BY <1>1 DEF Arrival, CreateRefused, CreateAllowed, CancelNoop, CancelTask, TypeOK, RunsTyped
<1>2. ASSUME NEW d \in Deliveries, HandlerStep(d)
      PROVE  run'[r] = run[r] \/ \E j \in Jobs : run'[r] = NewRun(j)
  <2>1. CASE \E s \in Runs : CreateSpawns(d, s)
    BY <2>1 DEF CreateSpawns, TypeOK, RunsTyped, HandlersTyped
  <2>2. CASE ~ \E s \in Runs : CreateSpawns(d, s)
    BY <1>2, <2>2 DEF HandlerStep, CreateUnsupported, CreateDuplicate, AcceptFails,
       RejectSent, RejectFails
  <2>3. QED
    BY <2>1, <2>2
<1>3. CASE DrainTimesOut \/ CancelRest
  BY <1>3 DEF DrainTimesOut, CancelRest
<1>4. CASE \/ Disconnect \/ Reconnect \/ StopSignal \/ DrainFinished \/ GatherFinished
           \/ CloseTransport \/ Exit \/ UNCHANGED vars
  BY <1>4 DEF Disconnect, Reconnect, StopSignal, DrainFinished, GatherFinished,
     CloseTransport, Exit, vars
<1>5. QED
  BY <1>1, <1>2, <1>3, <1>4 DEF Next, MainStep

LEMMA NextKeepsSteady == TypeOK /\ SteadyInv /\ [Next]_vars => SteadyInv'
<1> SUFFICES ASSUME TypeOK, SteadyInv, [Next]_vars PROVE SteadyInv'
  OBVIOUS
<1>1. Disconnected' => ~connected'
  <2>1. CASE \E r \in Runs : RunStep(r)
    BY <2>1, RunStepMovesOne DEF SteadyInv, Disconnected
  <2>2. CASE ~ \E r \in Runs : RunStep(r)
    BY <2>2 DEF SteadyInv, Disconnected, Next, Arrival, CreateRefused, CreateAllowed,
       CancelNoop, CancelTask, HandlerStep, CreateUnsupported, CreateDuplicate,
       CreateSpawns, AcceptFails, RejectSent, RejectFails, Disconnect, Reconnect,
       StopSignal, MainStep, DrainFinished, DrainTimesOut, GatherFinished,
       CloseTransport, CancelRest, Exit, vars
  <2>3. QED
    BY <2>1, <2>2
<1>2. ASSUME NEW r \in Runs
      PROVE  /\ run'[r].cancel => run'[r].asked
             /\ run'[r].pc = "completing" => run'[r].code = "none"
  <2>1. CASE \E s \in Runs : RunStep(s)
    BY <2>1, RunStepMovesOne DEF SteadyInv
  <2>2. CASE ~ \E s \in Runs : RunStep(s)
    <3>1. CASE run'[r] = run[r]
      BY <3>1 DEF SteadyInv
    <3>2. CASE run'[r] = Cancelled(run[r])
      BY <3>2 DEF SteadyInv, Cancelled, TypeOK, RunsTyped, RunType
    <3>3. CASE \E j \in Jobs : run'[r] = NewRun(j)
      BY <3>3 DEF NewRun
    <3>4. QED
      BY <2>2, <3>1, <3>2, <3>3, OtherStepsAsk
  <2>3. QED
    BY <2>1, <2>2
<1>3. QED
  BY <1>1, <1>2 DEF SteadyInv

\* Which steps end a task, and what has been sent by then.
LEMMA EndsTold ==
  ASSUME TypeOK, SteadyInv, NEW r \in Runs, RunStep(r),
         run[r].pc # "ended", run'[r].pc = "ended", ~run[r].asked, connected
  PROVE  \/ Told(sent'[run[r].job], run'[r])
         \/ run'[r].code = TooLong
         \/ faulty /\ run[r].pc = "failing"
<1>1. run[r].job \in Jobs
  BY DEF TypeOK, RunsTyped, RunStep, RunStarts, RunStillborn, DownloadReturns,
     CompletedTooLong, DownloadFails, FailedTooLong, DownloadCancelled, CompletedSent,
     CompletedSendFails, CompletedCancelled, FailedSent, FailedSendLost
<1>2. \A pc, code : MoveRun(r, pc, code) => run'[r].pc = pc /\ run'[r].code = code
  BY DEF MoveRun, TypeOK, RunsTyped
<1>3. \/ CompletedSent(r) \/ FailedSent(r) \/ FailedSendLost(r) \/ FailedTooLong(r)
  <2>1. ASSUME NEW code, BeginFail(r, code) PROVE FALSE
    BY <1>2, <2>1 DEF BeginFail
  <2>2. ~(RunStarts(r) \/ RunStillborn(r) \/ DownloadReturns(r))
    <3>1. ~MoveRun(r, "running", "none") /\ ~MoveRun(r, "stillborn", "none")
          /\ ~MoveRun(r, "completing", "none")
      BY <1>2
    <3>2. QED
      BY <3>1 DEF RunStarts, RunStillborn, DownloadReturns
  <2>3. QED
    BY <2>1, <2>2 DEF RunStep, CompletedTooLong, DownloadFails, DownloadCancelled,
       CompletedSendFails, CompletedCancelled
<1>4. CASE CompletedSent(r)
  <2>1. run[r].code = "none" /\ run'[r].code = "none"
    BY <1>2, <1>4 DEF SteadyInv, CompletedSent, EndRun
  <2>2. HeardIn(sent'[run[r].job], Completed)
    BY <1>1, <1>4, TransmitIsHeard, ReportsTyped DEF TypeOK, CompletedSent
  <2>3. QED
    BY <2>1, <2>2 DEF Told
<1>5. CASE FailedSent(r)
  <2>1. Failed(run[r].code) \in Reports
    BY <1>5, ReportsTyped DEF TypeOK, RunsTyped, FailedSent
  <2>2. HeardIn(sent'[run[r].job], Failed(run[r].code))
    BY <1>1, <1>5, <2>1, TransmitIsHeard DEF FailedSent, TypeOK
  <2>3. run'[r].code = run[r].code
    BY <1>2, <1>5 DEF FailedSent, EndRun
  <2>4. QED
    BY <2>2, <2>3 DEF Told
<1>6. CASE FailedSendLost(r)
  BY <1>6 DEF FailedSendLost, SendsMayFail, SteadyInv
<1>7. CASE FailedTooLong(r)
  BY <1>2, <1>7 DEF FailedTooLong, EndRun
<1>8. QED
  BY <1>3, <1>4, <1>5, <1>6, <1>7

\* A task that nobody asked to stop, and that ends while the link is up, has
\* sent the outcome it came to, unless its job.failed was too long for a
\* message or itself failed on a link that may fail.
THEOREM RunsReport == Spec => UncancelledRunsReport
<1> DEFINE Step ==
      \A r \in Runs :
        run[r].pc # "ended" /\ run'[r].pc = "ended" /\ ~run[r].asked /\ connected =>
          \/ Told(sent'[run[r].job], run'[r])
          \/ run'[r].code = TooLong
          \/ faulty /\ run[r].pc = "failing"
<1>1. TypeOK /\ SteadyInv /\ [Next]_vars => [Step]_vars
  <2> SUFFICES ASSUME TypeOK, SteadyInv, [Next]_vars, NEW r \in Runs,
                      run[r].pc # "ended", run'[r].pc = "ended", ~run[r].asked, connected
               PROVE  \/ Told(sent'[run[r].job], run'[r])
                      \/ run'[r].code = TooLong
                      \/ faulty /\ run[r].pc = "failing"
    OBVIOUS
  <2>1. CASE RunStep(r)
    BY <2>1, EndsTold
  <2>2. CASE ~RunStep(r)
    <3>1. CASE \E s \in Runs : RunStep(s)
      BY <2>2, <3>1, RunStepMovesOne
    <3>2. CASE ~ \E s \in Runs : RunStep(s)
      <4>1. run'[r].pc # "ended" \/ run'[r].pc = run[r].pc
        <5>1. run[r] \in RunType
          BY DEF TypeOK, RunsTyped
        <5>2. CASE run'[r] = Cancelled(run[r])
          BY <5>1, <5>2, CancelledTyped
        <5>3. CASE \E j \in Jobs : run'[r] = NewRun(j)
          BY <5>3 DEF NewRun
        <5>4. QED
          BY <3>2, <5>2, <5>3, OtherStepsAsk
      <4>2. QED
        BY <4>1
    <3>3. QED
      BY <3>1, <3>2
  <2>3. QED
    BY <2>1, <2>2
<1>2. Init => SteadyInv
  BY DEF Init, SteadyInv, Disconnected
<1>3. QED
  BY <1>1, <1>2, NextKeepsSteady, TypeCorrect, PTL DEF Spec, UncancelledRunsReport
=============================================================================
