----------------------------- MODULE EventStream -----------------------------
(***************************************************************************)
(* Server-sent events of one job (iran/event_bus.py, GET /jobs/{id}/events  *)
(* in iran/api/jobs.py): the browsers' streams, the bus between them and    *)
(* the handlers of iran/main.py, and the status of the job's row as far as  *)
(* a stream that begins looks at it.                                        *)
(*                                                                         *)
(* A stream reads the row, answers, and only then, when the response is     *)
(* being sent, subscribes; a handler commits the row and only then          *)
(* publishes.  The keep-alives of a stream change nothing.                  *)
(***************************************************************************)
EXTENDS Naturals, Sequences, FiniteSets

CONSTANTS
  Streams,   \* requests of GET /jobs/{id}/events for the job
  MaxEvents, \* bound on the events published
  None

VARIABLES
  row,         \* the job's status: "queued", "open" (dispatched), or how it ended
  committed,   \* events of handlers that have committed and not yet published
  events,      \* history: what was published, in order
  stream,      \* stream[s]: where the request s is
  subscribers, \* the streams whose queue is in _subscribers
  shut         \* the site shuts down

vars == <<row, committed, events, stream, subscribers, shut>>

\* The statuses at which a stream only says how the job ended.
Terminal == {"completed", "failed", "cancelled", "deleted"}

\* The events after which a stream closes.
Closing == {"completed", "failed", "deleted"}

New == [pc |-> "new", first |-> None, queue |-> <<>>, sent |-> <<>>, joined |-> 0]

Init ==
  /\ row \in {"queued", "open"}
  /\ committed = {}
  /\ events = <<>>
  /\ stream = [s \in Streams |-> New]
  /\ subscribers = {}
  /\ shut = FALSE

----------------------------------------------------------------------------
(* The rows and the bus                                                    *)

\* publish puts the event in the queue of every subscriber.
Publish(e) ==
  /\ events' = Append(events, e)
  /\ stream' = [s \in Streams |->
                  IF s \in subscribers THEN [stream[s] EXCEPT !.queue = Append(@, e)]
                  ELSE stream[s]]

Room == Len(events) + Cardinality(committed) < MaxEvents

\* A queued job is sent to the worker: nobody is told.
Promote ==
  /\ row = "queued"
  /\ row' = "open"
  /\ UNCHANGED <<committed, events, stream, subscribers, shut>>

\* on_job_accepted and on_job_progress commit the row, whatever it was.
Running ==
  /\ row # "queued" /\ Room
  /\ row' = "open"
  /\ committed' = committed \cup {"progress"}
  /\ UNCHANGED <<events, stream, subscribers, shut>>

\* on_job_completed and on_job_failed.
Ends(e) ==
  /\ row # "queued" /\ Room
  /\ row' = e
  /\ committed' = committed \cup {e}
  /\ UNCHANGED <<events, stream, subscribers, shut>>

\* An hour after a completion the files and then the row's status go; the event
\* is published even where the status has changed meanwhile.
DeleteAfterTtl ==
  /\ \E i \in DOMAIN events : events[i] = "completed"
  /\ Room
  /\ row' = IF row = "completed" THEN "deleted" ELSE row
  /\ committed' = committed \cup {"deleted"}
  /\ UNCHANGED <<events, stream, subscribers, shut>>

Published(e) ==
  /\ e \in committed
  /\ committed' = committed \ {e}
  /\ Publish(e)
  /\ UNCHANGED <<row, subscribers, shut>>

\* cancel_job changes the row and publishes nothing.  It looked at the status
\* before its send, so that the job may have ended since.
Cancel ==
  /\ row # "cancelled"
  /\ row' = "cancelled"
  /\ UNCHANGED <<committed, events, stream, subscribers, shut>>

----------------------------------------------------------------------------
(* The streams                                                             *)

\* The event that a stream of an ended job consists of.
FirstEvent ==
  IF row \notin Terminal THEN None ELSE IF row = "cancelled" THEN "failed" ELSE row

Request(s) ==
  /\ stream[s].pc = "new"
  /\ stream' = [stream EXCEPT ![s].pc = "answering", ![s].first = FirstEvent]
  /\ UNCHANGED <<row, committed, events, subscribers, shut>>

\* The job had ended: one event, and the stream closes.
SendEnd(s) ==
  /\ stream[s].pc = "answering" /\ stream[s].first # None
  /\ stream' = [stream EXCEPT ![s].pc = "closed", ![s].sent = <<stream[s].first>>]
  /\ UNCHANGED <<row, committed, events, subscribers, shut>>

Subscribe(s) ==
  /\ stream[s].pc = "answering" /\ stream[s].first = None
  /\ stream' = [stream EXCEPT ![s].pc = "live", ![s].joined = Len(events)]
  /\ subscribers' = subscribers \cup {s}
  /\ UNCHANGED <<row, committed, events, shut>>

\* Mutant: drops the job's whole entry with the first queue removed.
UnsubscribeAll(s) == subscribers' = {}

\* unsubscribe: the job's entry goes with the last of its queues.
Unsubscribe(s) == subscribers' = subscribers \ {s}

\* One turn of the loop of _stream.
Send(s) ==
  /\ stream[s].pc = "live" /\ stream[s].queue # <<>>
  /\ LET e    == Head(stream[s].queue)
         next == [stream[s] EXCEPT !.queue = Tail(@), !.sent = Append(@, e)]
     IN \/ /\ e = "progress"
           /\ stream' = [stream EXCEPT ![s] = next]
           /\ UNCHANGED subscribers
        \/ /\ e = "closed"
           /\ stream' = [stream EXCEPT ![s].pc = "closed"]
           /\ Unsubscribe(s)
        \/ /\ e \in Closing
           /\ stream' = [stream EXCEPT ![s] = [next EXCEPT !.pc = "closed"]]
           /\ Unsubscribe(s)
  /\ UNCHANGED <<row, committed, events, shut>>

\* The browser leaves, and the generator is closed.
Leave(s) ==
  /\ stream[s].pc \in {"answering", "live"}
  /\ stream' = [stream EXCEPT ![s].pc = "closed"]
  /\ Unsubscribe(s)
  /\ UNCHANGED <<row, committed, events, shut>>

\* EventBus.close: the sentinel for every queue, and the table is cleared.
Close ==
  /\ ~shut /\ shut' = TRUE
  /\ stream' = [s \in Streams |->
                  IF s \in subscribers THEN [stream[s] EXCEPT !.queue = Append(@, "closed")]
                  ELSE stream[s]]
  /\ subscribers' = {}
  /\ UNCHANGED <<row, committed, events>>

Next ==
  \/ Promote \/ Running \/ DeleteAfterTtl \/ Cancel \/ Close
  \/ \E e \in {"completed", "failed"} : Ends(e)
  \/ \E e \in {"progress"} \cup Closing : Published(e)
  \/ \E s \in Streams : Request(s) \/ SendEnd(s) \/ Subscribe(s) \/ Send(s) \/ Leave(s)

Spec == Init /\ [][Next]_vars

----------------------------------------------------------------------------
(* Properties                                                              *)

\* What the variables hold.
TypeOK ==
  /\ row \in {"queued", "open"} \cup Terminal
  /\ committed \subseteq {"progress"} \cup Closing
  /\ events \in Seq({"progress"} \cup Closing)
  /\ \A s \in Streams :
       /\ stream[s].pc \in {"new", "answering", "live", "closed"}
       /\ stream[s].first \in Closing \cup {None}
  /\ subscribers \subseteq Streams
  /\ shut \in BOOLEAN

\* Until the site shuts down, a live stream has sent, or still has queued,
\* everything published since it subscribed, in order, although other streams
\* of the job close and leave meanwhile (event_bus.py:69-106).
ListenersMissNothing ==
  \A s \in Streams :
    stream[s].pc = "live" /\ ~shut =>
      stream[s].sent \o stream[s].queue
        = SubSeq(events, stream[s].joined + 1, Len(events))

----------------------------------------------------------------------------
(* What the documents of the repository say, and the code does not do.     *)

\* The stream closes after the job has ended (jobs.py:767, "Close stream after
\* terminal events").  A job cancelled while it is queued, and one whose event
\* is published between the reading of the row and the subscription, leave a
\* stream that sends keep-alives for ever.
EndedJobsCloseStreams ==
  \A s \in Streams :
    stream[s].pc = "live" /\ stream[s].queue = <<>> /\ committed = {} => row \notin Terminal
=============================================================================
