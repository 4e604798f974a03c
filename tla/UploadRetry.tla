---------------------------- MODULE UploadRetry ----------------------------
(***************************************************************************)
(* Uploads of the bot that failed and are tried again every hour            *)
(* (rubetunes/upload_retry.py), and the last steps of the handlers of       *)
(* rub.py that send a file and queue it when the send fails.                *)
(*                                                                         *)
(* All of it runs on one event loop; an action is what happens between two  *)
(* awaits.  The queue and its copy on disk are sets, since the order of the *)
(* entries decides nothing.  A send raises or it does not: one that raises  *)
(* may have arrived all the same, which nothing here can tell.  A message   *)
(* to the user may arrive or not, and from the tick it is swallowed.        *)
(***************************************************************************)
EXTENDS Naturals, FiniteSets

CONSTANTS
  Uploads,
  MaxAttempts,   \* UPLOAD_RETRY_MAX_ATTEMPTS
  MaxCrashes,    \* bound on the crashes of the bot
  MaxDiskFaults, \* bound on the writes of the queue file and the removals of
                 \* uploads that fail
  None

VARIABLES
  phase,      \* phase[u]: where the handler of u is
  told,       \* told[u]: the kinds of messages its user got
  end,        \* history: end[u], how the retries of u ended last
  pending,    \* _queue
  attempts,   \* the "attempts" of the entries, shared by _queue and the snapshot
  kept,       \* the uploads whose file lies in UPLOAD_RETRY_DIR
  saved,      \* upload_retry_queue.json: the attempts of its entries, 0 for none
  tick,       \* where the retry tick is
  exposed,    \* history: entries that the disk did not take, or took without a file
  left,       \* history: uploads whose file was left in UPLOAD_RETRY_DIR, by a crash
              \* between the move and the save, or an unlink that failed
  crashes, diskFaults

handlerVars == <<phase, told, end>>
queueVars   == <<pending, attempts, kept, saved, exposed, left, diskFaults>>
vars == <<handlerVars, queueVars, tick, crashes>>

Kinds == {"track", "single", "part", "soundcloud", "bandcamp", "musicdl", "video"}
Asleep == [pc |-> "asleep", entry |-> None, todo |-> {}, gone |-> {}]

Init ==
  /\ phase = [u \in Uploads |-> "none"]
  /\ told = [u \in Uploads |-> {}]
  /\ end = [u \in Uploads |-> "none"]
  /\ pending = {} /\ kept = {} /\ exposed = {} /\ left = {}
  /\ attempts = [u \in Uploads |-> 0]
  /\ saved = [u \in Uploads |-> 0]
  /\ tick = Asleep
  /\ crashes = 0 /\ diskFaults = 0

\* The message may not arrive.
Tell(u, what) == told' \in {told, [told EXCEPT ![u] = @ \cup {what}]}

End(u, how) == end' = [end EXCEPT ![u] = how]

----------------------------------------------------------------------------
(* The queue                                                               *)

Faults(n) == diskFaults + n <= MaxDiskFaults /\ diskFaults' = diskFaults + n

\* _save_queue writes what the queue holds now, or logs that it could not.
Save(fault) ==
  IF fault = 0
  THEN /\ saved' = [u \in Uploads |-> IF u \in pending' THEN attempts'[u] ELSE 0]
       /\ exposed' = exposed \ (pending' \cap kept')
  ELSE /\ UNCHANGED saved
       /\ exposed' = exposed \cup pending'

\* unlink(missing_ok=True), whose failure is swallowed.
Unlink(u, fault) ==
  IF fault = 0 THEN kept' = kept \ {u} /\ left' = left \ {u}
               ELSE UNCHANGED kept /\ left' = left \cup (kept \cap {u})

\* A bug for a mutant: the queue file is left to the next tick.
EnqueueInMemory(u) ==
  /\ pending' = pending \cup {u}
  /\ attempts' = [attempts EXCEPT ![u] = 1]
  /\ kept' = kept \cup {u}
  /\ UNCHANGED <<saved, exposed, left, diskFaults>>

\* enqueue_failed_upload.  The file is moved, or copied when that fails; when
\* that fails too the entry names a file that is not there.
Enqueue(u) ==
  /\ pending' = pending \cup {u}
  /\ attempts' = [attempts EXCEPT ![u] = 1]
  /\ \/ /\ kept' = kept \cup {u}
        /\ \E fault \in {0, 1} : Faults(fault) /\ Save(fault)
     \/ /\ UNCHANGED <<kept, diskFaults>>
        /\ saved' = [v \in Uploads |-> IF v \in pending' THEN attempts'[v] ELSE 0]
        /\ exposed' = exposed \cup {u}
  /\ UNCHANGED left

\* A bug for a mutant: the entry goes and its file stays.
CancelEntryOnly(u) ==
  /\ u \in pending
  /\ pending' = pending \ {u}
  /\ UNCHANGED <<kept, left, attempts>>
  /\ \E fault \in {0, 1} : Faults(fault) /\ Save(fault)
  /\ End(u, "cancelled")
  /\ UNCHANGED <<phase, told, tick, crashes>>

\* cancel_entry, by "!uploads cancel".
CancelEntry(u) ==
  /\ u \in pending
  /\ pending' = pending \ {u}
  /\ UNCHANGED attempts
  /\ \E stuck, fault \in {0, 1} : Faults(stuck + fault) /\ Unlink(u, stuck) /\ Save(fault)
  /\ End(u, "cancelled")
  /\ UNCHANGED <<phase, told, tick, crashes>>

----------------------------------------------------------------------------
(* The handlers                                                            *)

\* A handler has its file and sends it; a batch sends its parts in order.
Begin(u) ==
  /\ phase[u] = "none"
  /\ \E kind \in Kinds \ {"part"} : phase' = [phase EXCEPT ![u] = kind]
  /\ UNCHANGED <<told, end, queueVars, tick, crashes>>

BeginBatch ==
  /\ \A u \in Uploads : phase[u] = "none"
  /\ \E first \in Uploads :
       phase' = [u \in Uploads |-> IF u = first THEN "part" ELSE "next"]
  /\ UNCHANGED <<told, end, queueVars, tick, crashes>>

\* A part of a batch is done; the part after it, if there is one, is next.
Advance(u) ==
  phase' = IF \E v \in Uploads : phase[v] = "next"
           THEN [[phase EXCEPT ![u] = "done"] EXCEPT
                   ![CHOOSE v \in Uploads : phase[v] = "next"] = "part"]
           ELSE [phase EXCEPT ![u] = "done"]

\* The handler ends with an error; the parts that follow are not sent.
Stop(u) ==
  phase' = [v \in Uploads |-> IF v = u \/ phase[v] = "next" THEN "done" ELSE phase[v]]

Sent(u, kinds) ==
  /\ phase[u] \in kinds
  /\ Advance(u)
  /\ UNCHANGED <<told, end, queueVars, tick, crashes>>

FileSent(u) == Sent(u, Kinds \ {"part"})
PartSent(u) == Sent(u, {"part"})

SendFails(u, kinds) ==
  /\ phase[u] \in kinds
  /\ Enqueue(u)
  /\ phase' = [phase EXCEPT ![u] = "promising"]
  /\ UNCHANGED <<told, end, tick, crashes>>

TrackFails(u)      == SendFails(u, {"track"})
SingleFails(u)     == SendFails(u, {"single"})
VideoFails(u)      == SendFails(u, {"video"})
SoundcloudFails(u) == SendFails(u, {"soundcloud"})
BandcampFails(u)   == SendFails(u, {"bandcamp"})
MusicdlFails(u)    == SendFails(u, {"musicdl"})
PartFails(u)       == SendFails(u, {"part"})

\* A status message before the send raises, or the send does and the retry
\* directory cannot be made: the upload is not queued.
HandlerRaises(u) ==
  /\ phase[u] \in Kinds
  /\ Stop(u)
  /\ UNCHANGED <<told, end, queueVars, tick, crashes>>

\* "Will retry automatically every hour."
Promise(u) ==
  /\ phase[u] = "promising"
  /\ told' = [told EXCEPT ![u] = @ \cup {"promised"}]
  /\ Advance(u)
  /\ UNCHANGED <<end, queueVars, tick, crashes>>

\* The promise raises; it may have arrived.
PromiseRaises(u) ==
  /\ phase[u] = "promising"
  /\ Tell(u, "promised")
  /\ Stop(u)
  /\ UNCHANGED <<end, queueVars, tick, crashes>>

----------------------------------------------------------------------------
(* The retry tick                                                          *)

Wake ==
  /\ tick.pc = "asleep"
  /\ pending # {}
  /\ tick' = [Asleep EXCEPT !.pc = "next", !.todo = pending]
  /\ UNCHANGED <<handlerVars, queueVars, crashes>>

\* _attempt_entry: an entry without its file counts as a success.
Attempt(u) ==
  /\ tick.pc = "next"
  /\ u \in tick.todo
  /\ tick' = [tick EXCEPT !.pc = IF u \in kept THEN "sending" ELSE "praising",
                          !.entry = u, !.todo = @ \ {u}]
  /\ IF u \in kept THEN UNCHANGED told ELSE Tell(u, "succeeded")
  /\ UNCHANGED <<phase, end, queueVars, crashes>>

RetryWorks ==
  /\ tick.pc = "sending"
  /\ End(tick.entry, "sent")
  /\ Tell(tick.entry, "succeeded")
  /\ tick' = [tick EXCEPT !.pc = "praising"]
  /\ UNCHANGED <<phase, queueVars, crashes>>

\* A bug for a mutant: the failed attempts are not counted.
RetryFailsUncounted ==
  /\ tick.pc = "sending"
  /\ tick' = [tick EXCEPT !.pc = "next", !.entry = None]
  /\ UNCHANGED <<handlerVars, queueVars, crashes>>

\* The count is kept in memory; only a later save writes it.
RetryFails ==
  /\ tick.pc = "sending"
  /\ attempts' = [attempts EXCEPT ![tick.entry] = @ + 1]
  /\ IF attempts[tick.entry] + 1 > MaxAttempts
     THEN /\ End(tick.entry, "given_up")
          /\ Tell(tick.entry, "gave_up")
          /\ tick' = [tick EXCEPT !.pc = "mourning"]
     ELSE /\ UNCHANGED <<told, end>>
          /\ tick' = [tick EXCEPT !.pc = "next", !.entry = None]
  /\ UNCHANGED <<phase, pending, kept, saved, exposed, left, diskFaults, crashes>>

\* The message is out, or was not; the file is removed.
CleanUp ==
  /\ tick.pc \in {"praising", "mourning"}
  /\ \E stuck \in {0, 1} : Faults(stuck) /\ Unlink(tick.entry, stuck)
  /\ tick' = [tick EXCEPT !.pc = "next", !.entry = None, !.gone = @ \cup {tick.entry}]
  /\ UNCHANGED <<handlerVars, pending, attempts, saved, exposed, crashes>>

TickEnds ==
  /\ tick.pc = "next"
  /\ tick.todo = {}
  /\ pending' = pending \ tick.gone
  /\ UNCHANGED <<attempts, kept, left>>
  /\ IF tick.gone = {} THEN UNCHANGED <<saved, exposed, diskFaults>>
     ELSE \E fault \in {0, 1} : Faults(fault) /\ Save(fault)
  /\ tick' = Asleep
  /\ UNCHANGED <<handlerVars, crashes>>

----------------------------------------------------------------------------
(* A crash, and load_on_startup                                            *)

\* Entries whose file is gone are dropped; the handlers are gone with the
\* process.
Restart ==
  /\ crashes < MaxCrashes
  /\ crashes' = crashes + 1
  /\ pending' = {u \in Uploads : saved[u] > 0 /\ u \in kept'}
  /\ attempts' = saved
  /\ phase' = [u \in Uploads |-> IF phase[u] = "none" THEN "none" ELSE "done"]
  /\ tick' = Asleep
  /\ UNCHANGED <<told, saved, exposed, diskFaults>>

Crash ==
  /\ UNCHANGED <<kept, left, end>>
  /\ Restart

\* The file has been moved and the queue not yet saved.
CrashEnqueuing(u) ==
  /\ phase[u] \in Kinds
  /\ kept' = kept \cup {u}
  /\ left' = left \cup {u}
  /\ UNCHANGED end
  /\ Restart

\* The file has been removed and the queue not yet saved.
CrashCancelling(u) ==
  /\ u \in pending
  /\ kept' = kept \ {u}
  /\ left' = left \ {u}
  /\ End(u, "cancelled")
  /\ Restart

----------------------------------------------------------------------------
Handler(u) ==
  \/ FileSent(u) \/ TrackFails(u) \/ SingleFails(u) \/ VideoFails(u) \/ SoundcloudFails(u)
  \/ BandcampFails(u) \/ MusicdlFails(u) \/ PartSent(u) \/ PartFails(u)
  \/ HandlerRaises(u) \/ Promise(u) \/ PromiseRaises(u)

Ticking == RetryWorks \/ RetryFails \/ CleanUp \/ TickEnds \/ \E u \in Uploads : Attempt(u)

Next ==
  \/ BeginBatch
  \/ \E u \in Uploads : Begin(u) \/ Handler(u) \/ CancelEntry(u)
  \/ Wake
  \/ Ticking
  \/ Crash
  \/ \E u \in Uploads : CrashEnqueuing(u) \/ CrashCancelling(u)

Spec == Init /\ [][Next]_vars

\* The loop wakes every hour, and a send ends, with an error if need be.
FairSpec ==
  Spec /\ WF_vars(Wake) /\ WF_vars(Ticking) /\ \A u \in Uploads : WF_vars(Handler(u))

----------------------------------------------------------------------------
(* Properties                                                              *)

\* Until its document was sent, its last attempt has failed or it was cancelled,
\* an upload whose user was promised a retry is queued with its file, in memory
\* and on disk, so that a crash does not lose it: unless the disk failed
\* (upload_retry.py:143-168, 229-291).
PromisesSurvive ==
  \A u \in Uploads \ exposed :
    "promised" \in told[u] /\ end[u] = "none" => u \in pending \cap kept /\ saved[u] > 0

\* A file stays in the retry directory without an entry that will remove it only
\* where a crash fell between the move and the save, or an unlink failed, and
\* each of these leaves no more than one (upload_retry.py:143-168, 231, 262, 330).
RetryFilesAreAccounted ==
  /\ kept \ exposed \subseteq pending \cup left
  /\ Cardinality(left) <= crashes + diskFaults

\* An entry leaves the queue: it is sent, cancelled, or given up after
\* UPLOAD_RETRY_MAX_ATTEMPTS, however the sends end (upload_retry.py:246-269).
RetriesEnd == \A u \in Uploads : u \in pending ~> u \notin pending

\* A user is told that the delayed upload succeeded only when the document was
\* sent (upload_retry.py:221, "Notify user of success").
SuccessMeansSent == \A u \in Uploads : "succeeded" \in told[u] => end[u] = "sent"
=============================================================================
