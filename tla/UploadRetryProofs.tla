------------------------- MODULE UploadRetryProofs -------------------------
(***************************************************************************)
(* Proofs about UploadRetry, for all uploads, attempts, crashes and faults  *)
(* of the disk.                                                             *)
(*                                                                         *)
(* Both theorems rest on an upload being queued once only: what is queued,  *)
(* or has its file in the retry directory, or is in the hands of the tick,  *)
(* is out of its handler's hands (Handed), so no handler brings back what   *)
(* the tick is about to forget.                                             *)
(***************************************************************************)
EXTENDS UploadRetry, FiniteSetTheorems, TLAPS

Behind   == {"promising", "done"}
Phases   == Kinds \cup Behind \cup {"none", "next"}
Messages == {"promised", "succeeded", "gave_up"}
Endings  == {"none", "sent", "given_up", "cancelled"}
Holding  == {"sending", "praising", "mourning"}
Ticks == [pc : {"asleep", "next"} \cup Holding, entry : Uploads \cup {None},
          todo : SUBSET Uploads, gone : SUBSET Uploads]
USE DEF Kinds, Behind, Phases, Messages, Endings, Holding

\* What the variables hold.
TypeOK ==
  /\ phase \in [Uploads -> Phases]
  /\ told \in [Uploads -> SUBSET Messages]
  /\ end \in [Uploads -> Endings]
  /\ pending \subseteq Uploads /\ kept \subseteq Uploads
  /\ exposed \subseteq Uploads /\ left \subseteq Uploads
  /\ attempts \in [Uploads -> Nat] /\ saved \in [Uploads -> Nat]
  /\ tick \in Ticks
  /\ tick.pc \in Holding => tick.entry \in Uploads

\* What the queue, the retry directory and the tick know has left its handler.
Handed ==
  /\ \A u \in pending \cup kept \cup tick.todo \cup tick.gone : phase[u] \in Behind
  /\ tick.pc \in Holding => phase[tick.entry] \in Behind

\* An entry has been tried, in memory and, unless the disk failed, in the file.
Counted ==
  /\ \A u \in pending : attempts[u] > 0
  /\ \A u \in pending \ exposed : saved[u] > 0

\* Every file has an entry, or was left behind.
Accounted == kept \ exposed \subseteq pending \cup left

\* u has come to an end, or has lost its file.
Past(u) == end[u] # "none" \/ u \notin kept

\* What the tick is about to forget is past, and its file is gone or left behind.
Over ==
  /\ tick.gone \cap kept \subseteq left
  /\ \A u \in tick.gone : Past(u)
  /\ tick.pc \in {"praising", "mourning"} => Past(tick.entry)

\* Who was promised a retry, or is about to be, is queued with a file.
Owed ==
  \A u \in Uploads \ exposed :
    ("promised" \in told[u] \/ phase[u] = "promising") /\ end[u] = "none" => u \in pending \cap kept

Inv == TypeOK /\ Handed /\ Counted /\ Accounted /\ Over /\ Owed

LEMMA InitInv == Init => Inv
BY DEF Init, Inv, TypeOK, Ticks, Asleep, Handed, Counted, Accounted, Over, Owed

-----------------------------------------------------------------------------
(* What a step may do to the queue and its file.                           *)

\* What holds of the queue and the file, whatever the handlers and the tick do.
QueueInv ==
  /\ pending \subseteq Uploads /\ kept \subseteq Uploads
  /\ exposed \subseteq Uploads /\ left \subseteq Uploads
  /\ attempts \in [Uploads -> Nat] /\ saved \in [Uploads -> Nat]
  /\ Counted
  /\ Accounted

LEMMA InvQueue == Inv => QueueInv
BY DEF Inv, QueueInv, TypeOK

\* A save, written or not, of entries that have been tried and of which every
\* file is accounted for, keeps all of it; only entries that have a file cease
\* to be exposed.
LEMMA SaveKeeps ==
  ASSUME QueueInv, NEW fault, Save(fault),
         pending' \subseteq Uploads, kept' \subseteq Uploads, left' \subseteq Uploads,
         attempts' \in [Uploads -> Nat],
         \A u \in pending' : attempts'[u] > 0,
         \A u \in pending' \ exposed : saved[u] > 0,
         kept' \ exposed \subseteq pending' \cup left'
  PROVE  QueueInv' /\ exposed \subseteq exposed' \cup (pending' \cap kept')
<1>1. CASE /\ saved' = [u \in Uploads |-> IF u \in pending' THEN attempts'[u] ELSE 0]
           /\ exposed' = exposed \ (pending' \cap kept')
  <2>1. saved' \in [Uploads -> Nat] /\ exposed' \subseteq Uploads
    BY <1>1 DEF QueueInv
  <2>2. \A u \in pending' : saved'[u] > 0
    BY <1>1
  <2>3. kept' \ exposed' \subseteq pending' \cup left'
    BY <1>1
  <2> QED
    BY <1>1, <2>1, <2>2, <2>3 DEF QueueInv, Counted, Accounted
<1>2. CASE exposed' = exposed \cup pending' /\ UNCHANGED saved
  <2>1. Counted'
    BY <1>2 DEF Counted
  <2> QED
    BY <1>2, <2>1 DEF QueueInv, Accounted
<1> QED
  BY <1>1, <1>2 DEF Save

\* A failed upload is queued with its file, or exposed.
LEMMA EnqueueKeeps ==
  ASSUME QueueInv, NEW u \in Uploads, Enqueue(u)
  PROVE  /\ QueueInv'
         /\ exposed \subseteq exposed' \cup (pending' \cap kept')
         /\ pending' = pending \cup {u}
         /\ kept \subseteq kept' /\ kept' \subseteq kept \cup {u}
         /\ u \in exposed' \cup (pending' \cap kept')
         /\ left' = left
<1>1. /\ pending' = pending \cup {u}
      /\ attempts' = [attempts EXCEPT ![u] = 1]
      /\ left' = left
  BY DEF Enqueue
<1>2. /\ pending' \subseteq Uploads
      /\ attempts' \in [Uploads -> Nat]
      /\ \A v \in pending' : attempts'[v] > 0
  BY <1>1 DEF QueueInv, Counted
<1>3. ASSUME kept' = kept \cup {u}, NEW fault \in {0, 1}, Save(fault)
      PROVE  QueueInv' /\ exposed \subseteq exposed' \cup (pending' \cap kept')
                       /\ u \in exposed' \cup (pending' \cap kept')
  <2>1. kept' \subseteq Uploads /\ left' \subseteq Uploads
    BY <1>1, <1>3 DEF QueueInv
  <2>2. kept' \ exposed \subseteq pending' \cup left'
    BY <1>1, <1>3 DEF QueueInv, Accounted
  <2>3. CASE fault = 0
    <3>1. saved' = [v \in Uploads |-> IF v \in pending' THEN attempts'[v] ELSE 0]
          /\ exposed' = exposed \ (pending' \cap kept')
      BY <1>3, <2>3 DEF Save
    <3> QED
      BY <1>1, <1>2, <1>3, <2>1, <2>2, <3>1 DEF QueueInv, Counted, Accounted
  <2>4. CASE fault = 1
    <3>1. saved' = saved /\ exposed' = exposed \cup pending'
      BY <1>3, <2>4 DEF Save
    <3> QED
      BY <1>1, <1>2, <1>3, <2>1, <2>2, <3>1 DEF QueueInv, Counted, Accounted
  <2> QED
    BY <2>3, <2>4
<1>4. CASE /\ UNCHANGED kept
           /\ saved' = [v \in Uploads |-> IF v \in pending' THEN attempts'[v] ELSE 0]
           /\ exposed' = exposed \cup {u}
  <2>1. saved' \in [Uploads -> Nat] /\ \A v \in pending' : saved'[v] > 0
    BY <1>2, <1>4
  <2> QED
    BY <1>1, <1>2, <1>4, <2>1 DEF QueueInv, Counted, Accounted
<1>5. \/ kept' = kept \cup {u} /\ \E fault \in {0, 1} : Save(fault)
      \/ /\ UNCHANGED kept
         /\ saved' = [v \in Uploads |-> IF v \in pending' THEN attempts'[v] ELSE 0]
         /\ exposed' = exposed \cup {u}
  BY DEF Enqueue
<1> QED
  BY <1>1, <1>3, <1>4, <1>5

-----------------------------------------------------------------------------
(* The handlers.                                                           *)

\* A handler that does not queue its upload leaves what is queued alone, and
\* promises only what it has queued.
LEMMA HandlersMove ==
  ASSUME Inv, UNCHANGED <<queueVars, tick, end>>,
         phase' \in [Uploads -> Phases],
         \A u \in Uploads : phase[u] \in Behind => phase'[u] \in Behind,
         \A u \in Uploads : phase'[u] = "promising" => phase[u] = "promising",
         told' \in [Uploads -> SUBSET Messages],
         \A u \in Uploads : "promised" \in told'[u] => "promised" \in told[u] \/ phase[u] = "promising"
  PROVE  Inv'
<1> USE DEF Inv, queueVars
<1>1. TypeOK'
  BY DEF TypeOK
<1>2. Handed'
  BY DEF Handed, TypeOK, Ticks
<1>3. Counted' /\ Accounted'
  BY DEF Counted, Accounted
<1>4. Over'
  BY DEF Over, Past
<1>5. Owed'
  BY DEF Owed
<1> QED
  BY <1>1, <1>2, <1>3, <1>4, <1>5

\* What is behind its handler stays there, and only Enqueue leads to a promise.
Onward ==
  /\ phase' \in [Uploads -> Phases]
  /\ \A v \in Uploads : phase[v] \in Behind => phase'[v] \in Behind
  /\ \A v \in Uploads : phase'[v] = "promising" => phase[v] = "promising"

LEMMA AdvanceMoves ==
  ASSUME TypeOK, NEW u \in Uploads, phase[u] # "next", Advance(u)
  PROVE  Onward
<1>1. CASE \E v \in Uploads : phase[v] = "next"
  <2> DEFINE n == CHOOSE v \in Uploads : phase[v] = "next"
  <2>1. n \in Uploads /\ phase[n] = "next"
    BY <1>1
  <2>2. phase' = [[phase EXCEPT ![u] = "done"] EXCEPT ![n] = "part"]
    BY <1>1 DEF Advance
  <2> HIDE DEF n
  <2>3. phase \in [Uploads -> Phases]
    BY DEF TypeOK
  <2>4. [phase EXCEPT ![u] = "done"] \in [Uploads -> Phases]
    BY <2>3
  <2>5. phase' \in [Uploads -> Phases]
    BY <2>1, <2>2, <2>4
  <2>6. \A v \in Uploads : phase'[v] = IF v = n THEN "part" ELSE IF v = u THEN "done" ELSE phase[v]
    BY <2>1, <2>2, <2>3
  <2> QED
    BY <2>1, <2>5, <2>6 DEF Onward
<1>2. CASE ~ \E v \in Uploads : phase[v] = "next"
  <2>1. phase' = [phase EXCEPT ![u] = "done"]
    BY <1>2 DEF Advance
  <2>2. phase \in [Uploads -> Phases]
    BY DEF TypeOK
  <2> QED
    BY <2>1, <2>2 DEF Onward
<1> QED
  BY <1>1, <1>2

LEMMA StopMoves ==
  ASSUME TypeOK, NEW u \in Uploads, Stop(u)
  PROVE  Onward
BY DEF TypeOK, Stop, Onward

\* A failed send queues its upload, which leaves the handler with it.
LEMMA SendFailsInv ==
  ASSUME Inv, NEW u \in Uploads, SendFails(u, Kinds)
  PROVE  Inv'
<1> USE DEF Inv
<1>0. /\ Enqueue(u) /\ phase[u] \in Kinds /\ phase' = [phase EXCEPT ![u] = "promising"]
      /\ UNCHANGED <<told, end, tick>>
  BY DEF SendFails
<1>1. /\ QueueInv'
      /\ exposed \subseteq exposed' \cup (pending' \cap kept')
      /\ pending' = pending \cup {u}
      /\ kept \subseteq kept' /\ kept' \subseteq kept \cup {u}
      /\ u \in exposed' \cup (pending' \cap kept')
      /\ left' = left
  BY <1>0, InvQueue, EnqueueKeeps
<1>2. TypeOK'
  BY <1>0, <1>1 DEF TypeOK, QueueInv
<1>3. \A v \in Uploads : phase[v] \in Behind => phase'[v] \in Behind
  BY <1>0 DEF TypeOK
<1>4. Handed'
  BY <1>0, <1>1, <1>3 DEF Handed, TypeOK, Ticks
<1>5. u \notin tick.gone /\ (tick.pc \in Holding => u # tick.entry)
  BY <1>0 DEF Handed
<1>6. Over'
  BY <1>0, <1>1, <1>5 DEF Over, Past
<1>7. Owed'
  <2> SUFFICES ASSUME NEW v \in Uploads, v \notin exposed',
                      "promised" \in told'[v] \/ phase'[v] = "promising", end'[v] = "none"
               PROVE  v \in pending' \cap kept'
    BY DEF Owed
  <2>1. CASE v = u
    BY <1>1, <2>1
  <2>2. CASE v # u
    <3>1. "promised" \in told[v] \/ phase[v] = "promising"
      BY <1>0, <2>2 DEF TypeOK
    <3>2. CASE v \in exposed
      BY <1>1, <3>2
    <3>3. CASE v \notin exposed
      BY <1>0, <1>1, <3>1, <3>3 DEF Owed
    <3> QED
      BY <3>2, <3>3
  <2> QED
    BY <2>1, <2>2
<1> QED
  BY <1>1, <1>2, <1>4, <1>6, <1>7 DEF QueueInv

LEMMA PromiseInv ==
  ASSUME Inv, NEW u \in Uploads, Promise(u) \/ PromiseRaises(u)
  PROVE  Inv'
<1>1. TypeOK /\ phase[u] = "promising" /\ UNCHANGED <<end, queueVars, tick>>
  BY DEF Inv, Promise, PromiseRaises
<1>2. Onward
  BY <1>1, AdvanceMoves, StopMoves DEF Promise, PromiseRaises
<1>3. /\ told' \in [Uploads -> SUBSET Messages]
      /\ \A v \in Uploads : "promised" \in told'[v] => "promised" \in told[v] \/ phase[v] = "promising"
  BY <1>1 DEF Promise, PromiseRaises, Tell, TypeOK
<1> QED
  BY <1>1, <1>2, <1>3, HandlersMove DEF Onward

LEMMA HandlerInv ==
  ASSUME Inv, NEW u \in Uploads, Handler(u)
  PROVE  Inv'
<1>1. TypeOK
  BY DEF Inv
<1>2. CASE FileSent(u) \/ PartSent(u)
  <2>1. Advance(u) /\ phase[u] \in Kinds /\ UNCHANGED <<told, end, queueVars, tick>>
    BY <1>2 DEF FileSent, PartSent, Sent
  <2>2. Onward
    BY <1>1, <2>1, AdvanceMoves
  <2> QED
    BY <1>1, <2>1, <2>2, HandlersMove DEF Onward, TypeOK
<1>3. CASE HandlerRaises(u)
  <2>1. Onward
    BY <1>1, <1>3, StopMoves DEF HandlerRaises
  <2> QED
    BY <1>1, <1>3, <2>1, HandlersMove DEF Onward, TypeOK, HandlerRaises
<1>4. CASE SendFails(u, Kinds)
  BY <1>4, SendFailsInv
<1>5. CASE Promise(u) \/ PromiseRaises(u)
  BY <1>5, PromiseInv
<1>6. \A kinds \in SUBSET Kinds : SendFails(u, kinds) => SendFails(u, Kinds)
  BY DEF SendFails
<1> QED
  BY <1>2, <1>3, <1>4, <1>5, <1>6
     DEF Handler, TrackFails, SingleFails, VideoFails, SoundcloudFails, BandcampFails,
         MusicdlFails, PartFails

LEMMA BeginInv ==
  ASSUME Inv, BeginBatch \/ \E u \in Uploads : Begin(u)
  PROVE  Inv'
<1>1. TypeOK
  BY DEF Inv
<1>2. CASE BeginBatch
  BY <1>1, <1>2, HandlersMove DEF BeginBatch, TypeOK
<1>3. ASSUME NEW u \in Uploads, Begin(u)
      PROVE  Inv'
  BY <1>1, <1>3, HandlersMove DEF Begin, TypeOK
<1> QED
  BY <1>2, <1>3

-----------------------------------------------------------------------------
(* The commands and the tick.                                              *)

\* An unlink takes the file of u only, or leaves it behind.
LEMMA UnlinkKeeps ==
  ASSUME TypeOK, NEW u \in Uploads, NEW stuck \in {0, 1}, Unlink(u, stuck)
  PROVE  /\ kept' \subseteq kept /\ kept \subseteq kept' \cup {u}
         /\ left' \subseteq Uploads
         /\ left \cap kept' \subseteq left'
         /\ kept' \cap {u} \subseteq left'
<1>1. CASE kept' = kept \ {u} /\ left' = left \ {u}
  BY <1>1 DEF TypeOK
<1>2. CASE kept' = kept /\ left' = left \cup (kept \cap {u})
  BY <1>2 DEF TypeOK
<1> QED
  BY <1>1, <1>2 DEF Unlink

\* The entry goes with its file, unless that is left behind, and whether or not
\* the file of the queue takes it.
LEMMA CancelInv ==
  ASSUME Inv, NEW u \in Uploads, CancelEntry(u)
  PROVE  Inv'
<1> USE DEF Inv
<1>0. PICK stuck \in {0, 1}, fault \in {0, 1} : Unlink(u, stuck) /\ Save(fault)
  BY DEF CancelEntry
<1>1. /\ pending' = pending \ {u}
      /\ UNCHANGED <<attempts, phase, told, tick>>
      /\ end' = [end EXCEPT ![u] = "cancelled"]
  BY DEF CancelEntry, End
<1>2. /\ kept' \subseteq kept /\ kept \subseteq kept' \cup {u}
      /\ left' \subseteq Uploads
      /\ left \cap kept' \subseteq left'
      /\ kept' \cap {u} \subseteq left'
  BY <1>0, UnlinkKeeps
<1>3. QueueInv' /\ exposed \subseteq exposed' \cup (pending' \cap kept')
  <2>1. pending' \subseteq Uploads /\ kept' \subseteq Uploads /\ attempts' \in [Uploads -> Nat]
    BY <1>1, <1>2 DEF TypeOK
  <2>2. \A v \in pending' : attempts'[v] > 0
    BY <1>1 DEF Counted
  <2>3. \A v \in pending' \ exposed : saved[v] > 0
    BY <1>1 DEF Counted
  <2>4. kept' \ exposed \subseteq pending' \cup left'
    BY <1>1, <1>2 DEF Accounted
  <2> QED
    BY <1>0, <1>2, <2>1, <2>2, <2>3, <2>4, InvQueue, SaveKeeps
<1>4. TypeOK'
  BY <1>1, <1>3 DEF TypeOK, QueueInv
<1>5. Handed'
  BY <1>1, <1>2 DEF Handed
<1>6. Over'
  BY <1>1, <1>2 DEF Over, Past, TypeOK
<1>7. Owed'
  BY <1>1, <1>2, <1>3 DEF Owed, TypeOK
<1> QED
  BY <1>3, <1>4, <1>5, <1>6, <1>7 DEF QueueInv

\* The tick moves on without touching the queue; what it has in hand has left
\* its handler.
LEMMA TickMoves ==
  ASSUME Inv, UNCHANGED <<phase, pending, kept, saved, exposed, left>>,
         attempts' \in [Uploads -> Nat], \A u \in Uploads : attempts[u] > 0 => attempts'[u] > 0,
         tick' \in Ticks, tick'.pc \in Holding => tick'.entry \in Uploads /\ phase[tick'.entry] \in Behind,
         tick'.todo \subseteq pending \cup tick.todo, tick'.gone \in {{}, tick.gone},
         told' \in [Uploads -> SUBSET Messages],
         \A u \in Uploads : "promised" \in told'[u] => "promised" \in told[u],
         end' \in [Uploads -> Endings],
         \A u \in Uploads : end'[u] = "none" => end[u] = "none",
         tick'.pc \in {"praising", "mourning"} => end'[tick'.entry] # "none" \/ tick'.entry \notin kept
  PROVE  Inv'
<1> USE DEF Inv
<1>1. TypeOK'
  BY DEF TypeOK
<1>2. Handed'
  BY DEF Handed
<1>3. Counted' /\ Accounted'
  BY DEF Counted, Accounted, TypeOK
<1>4. Over'
  BY DEF Over, TypeOK, Ticks, Past
<1>5. Owed'
  BY DEF Owed
<1> QED
  BY <1>1, <1>2, <1>3, <1>4, <1>5

\* A message to one user is no promise, and promises to no other.
LEMMA TellKeeps ==
  ASSUME TypeOK, NEW u \in Uploads, NEW m \in Messages \ {"promised"}, Tell(u, m)
  PROVE  /\ told' \in [Uploads -> SUBSET Messages]
         /\ \A v \in Uploads : "promised" \in told'[v] => "promised" \in told[v]
BY DEF TypeOK, Tell

LEMMA WakeInv == ASSUME Inv, Wake PROVE Inv'
<1>1. tick' \in Ticks /\ tick'.pc = "next" /\ tick'.todo = pending /\ tick'.gone = {}
  BY DEF Wake, Asleep, Ticks, Inv, TypeOK
<1>2. TypeOK /\ UNCHANGED <<handlerVars, queueVars>>
  BY DEF Wake, Inv
<1> QED
  BY <1>1, <1>2, TickMoves DEF handlerVars, queueVars, TypeOK

\* An entry whose file is gone counts as sent.
LEMMA AttemptInv ==
  ASSUME Inv, NEW u \in Uploads, Attempt(u)
  PROVE  Inv'
<1>1. TypeOK /\ Handed
  BY DEF Inv
<1>2. /\ tick' \in Ticks /\ tick'.entry = u
      /\ tick'.pc = IF u \in kept THEN "sending" ELSE "praising"
      /\ tick'.todo \subseteq tick.todo /\ tick'.gone = tick.gone
  BY <1>1 DEF Attempt, TypeOK, Ticks
<1>3. phase[u] \in Behind
  BY <1>1 DEF Attempt, Handed
<1>4. UNCHANGED <<phase, end, queueVars>>
  BY DEF Attempt
<1>5. /\ told' \in [Uploads -> SUBSET Messages]
      /\ \A v \in Uploads : "promised" \in told'[v] => "promised" \in told[v]
  <2>1. CASE UNCHANGED told
    BY <1>1, <2>1 DEF TypeOK
  <2>2. CASE Tell(u, "succeeded")
    BY <1>1, <2>2, TellKeeps
  <2> QED
    BY <2>1, <2>2 DEF Attempt
<1> QED
  BY <1>1, <1>2, <1>3, <1>4, <1>5, TickMoves DEF TypeOK, queueVars

LEMMA RetryWorksInv == ASSUME Inv, RetryWorks PROVE Inv'
<1> DEFINE u == tick.entry
<1>1. TypeOK /\ Handed
  BY DEF Inv
<1>2. u \in Uploads /\ phase[u] \in Behind
  BY <1>1 DEF RetryWorks, TypeOK, Handed
<1>3. /\ tick' \in Ticks /\ tick'.entry = u /\ tick'.pc = "praising"
      /\ tick'.todo = tick.todo /\ tick'.gone = tick.gone
  BY <1>1 DEF RetryWorks, TypeOK, Ticks
<1>4. UNCHANGED <<phase, queueVars>> /\ Tell(u, "succeeded") /\ end' = [end EXCEPT ![u] = "sent"]
  BY DEF RetryWorks, End
<1> HIDE DEF u
<1>5. /\ told' \in [Uploads -> SUBSET Messages]
      /\ \A v \in Uploads : "promised" \in told'[v] => "promised" \in told[v]
  BY <1>1, <1>2, <1>4, TellKeeps
<1>6. /\ end' \in [Uploads -> Endings] /\ end'[u] # "none"
      /\ \A v \in Uploads : end'[v] = "none" => end[v] = "none"
  BY <1>1, <1>2, <1>4 DEF TypeOK
<1> QED
  BY <1>1, <1>2, <1>3, <1>4, <1>5, <1>6, TickMoves DEF TypeOK, queueVars

\* A failed retry is counted, and forgotten only after the last.
LEMMA RetryFailsInv == ASSUME Inv, RetryFails PROVE Inv'
<1> DEFINE u == tick.entry
<1>1. TypeOK /\ Handed
  BY DEF Inv
<1>2. u \in Uploads /\ phase[u] \in Behind
  BY <1>1 DEF RetryFails, TypeOK, Handed
<1>3. UNCHANGED <<phase, pending, kept, saved, exposed, left>>
  BY DEF RetryFails
<1>4. attempts' = [attempts EXCEPT ![u] = @ + 1]
  BY DEF RetryFails
<1>5. attempts' \in [Uploads -> Nat] /\ \A v \in Uploads : attempts[v] > 0 => attempts'[v] > 0
  BY <1>1, <1>2, <1>4 DEF TypeOK
<1>6. CASE End(u, "given_up") /\ Tell(u, "gave_up") /\ tick' = [tick EXCEPT !.pc = "mourning"]
  <2>1. /\ tick' \in Ticks /\ tick'.entry = u
        /\ tick'.todo = tick.todo /\ tick'.gone = tick.gone
    BY <1>1, <1>6 DEF TypeOK, Ticks
  <2> HIDE DEF u
  <2>2. /\ told' \in [Uploads -> SUBSET Messages]
        /\ \A v \in Uploads : "promised" \in told'[v] => "promised" \in told[v]
    BY <1>1, <1>2, <1>6, TellKeeps
  <2>3. /\ end' \in [Uploads -> Endings] /\ end'[u] # "none"
        /\ \A v \in Uploads : end'[v] = "none" => end[v] = "none"
    BY <1>1, <1>2, <1>6 DEF TypeOK, End
  <2> QED
    BY <1>2, <1>3, <1>5, <2>1, <2>2, <2>3, TickMoves
<1>7. CASE UNCHANGED <<told, end>> /\ tick' = [tick EXCEPT !.pc = "next", !.entry = None]
  <2>1. tick' \in Ticks /\ tick'.pc = "next" /\ tick'.todo = tick.todo /\ tick'.gone = tick.gone
    BY <1>1, <1>7 DEF TypeOK, Ticks
  <2> HIDE DEF u
  <2> QED
    BY <1>1, <1>3, <1>5, <1>7, <2>1, TickMoves DEF TypeOK
<1> QED
  BY <1>6, <1>7 DEF RetryFails

\* The file goes, or is left; its entry is past, and forgotten when the tick ends.
LEMMA CleanUpInv == ASSUME Inv, CleanUp PROVE Inv'
<1> USE DEF Inv
<1> DEFINE u == tick.entry
<1>1. /\ u \in Uploads /\ phase[u] \in Behind /\ Past(u)
      /\ UNCHANGED <<phase, told, end, pending, attempts, saved, exposed>>
  BY DEF CleanUp, TypeOK, Handed, Over, handlerVars
<1>2. PICK stuck \in {0, 1} : Unlink(u, stuck)
  BY DEF CleanUp
<1>3. /\ tick' \in Ticks /\ tick'.pc = "next"
      /\ tick'.todo = tick.todo /\ tick'.gone = tick.gone \cup {u}
  <2>1. tick' = [tick EXCEPT !.pc = "next", !.entry = None, !.gone = @ \cup {u}]
    BY DEF CleanUp
  <2> QED
    BY <1>1, <2>1 DEF TypeOK, Ticks
<1> HIDE DEF u
<1>4. /\ kept' \subseteq kept /\ kept \subseteq kept' \cup {u}
      /\ left' \subseteq Uploads
      /\ left \cap kept' \subseteq left'
      /\ kept' \cap {u} \subseteq left'
  BY <1>1, <1>2, UnlinkKeeps
<1>5. TypeOK'
  BY <1>1, <1>3, <1>4 DEF TypeOK
<1>6. Handed'
  BY <1>1, <1>3, <1>4 DEF Handed
<1>7. Counted' /\ Accounted'
  BY <1>1, <1>4 DEF Counted, Accounted
<1>8. Over'
  BY <1>1, <1>3, <1>4 DEF Over, Past
<1>9. Owed'
  BY <1>1, <1>4 DEF Owed, Past
<1> QED
  BY <1>5, <1>6, <1>7, <1>8, <1>9

\* What the tick forgets has neither a file, unless it was left, nor a user to
\* whom a retry is owed.
LEMMA TickEndsInv == ASSUME Inv, TickEnds PROVE Inv'
<1> USE DEF Inv
<1>1. /\ pending' = pending \ tick.gone /\ tick' = Asleep
      /\ UNCHANGED <<phase, told, end, attempts, kept, left>>
  BY DEF TickEnds, handlerVars
<1>2. QueueInv' /\ exposed \subseteq exposed' \cup (pending' \cap kept')
  <2>1. CASE tick.gone = {} /\ UNCHANGED <<saved, exposed>>
    BY <1>1, <2>1, InvQueue DEF QueueInv, Counted, Accounted
  <2>2. ASSUME NEW fault \in {0, 1}, Save(fault)
        PROVE  QueueInv' /\ exposed \subseteq exposed' \cup (pending' \cap kept')
    <3>1. pending' \subseteq Uploads /\ kept' \subseteq Uploads /\ left' \subseteq Uploads
      BY <1>1 DEF TypeOK
    <3>2. attempts' \in [Uploads -> Nat] /\ \A v \in pending' : attempts'[v] > 0
      BY <1>1 DEF TypeOK, Counted
    <3>3. \A v \in pending' \ exposed : saved[v] > 0
      BY <1>1 DEF Counted
    <3>4. kept' \ exposed \subseteq pending' \cup left'
      BY <1>1 DEF Accounted, Over
    <3> QED
      BY <2>2, <3>1, <3>2, <3>3, <3>4, InvQueue, SaveKeeps
  <2> QED
    BY <2>1, <2>2 DEF TickEnds
<1>3. tick' \in Ticks /\ tick'.pc = "asleep" /\ tick'.todo = {} /\ tick'.gone = {}
  BY <1>1 DEF Asleep, Ticks
<1>4. TypeOK'
  BY <1>1, <1>2, <1>3 DEF TypeOK, QueueInv
<1>5. Handed'
  BY <1>1, <1>3 DEF Handed
<1>6. Over'
  BY <1>1, <1>3 DEF Over
<1>7. Owed'
  BY <1>1, <1>2 DEF Owed, Over, Past
<1> QED
  BY <1>2, <1>4, <1>5, <1>6, <1>7 DEF QueueInv

-----------------------------------------------------------------------------
(* Crashes, and the theorems.                                              *)

\* What is owed is in the file and has its own, so it is loaded again, wherever
\* the crash falls.
LEMMA RestartInv ==
  ASSUME Inv, Restart,
         kept' \subseteq Uploads, left' \subseteq Uploads, end' \in [Uploads -> Endings],
         \A u \in kept' : phase[u] # "none",
         kept' \ left' \subseteq kept \ left,
         \A u \in Uploads : end'[u] = "none" => end[u] = "none" /\ (u \in kept => u \in kept')
  PROVE  Inv'
<1> USE DEF Inv
<1>1. /\ pending' = {u \in Uploads : saved[u] > 0 /\ u \in kept'}
      /\ attempts' = saved /\ tick' = Asleep
      /\ phase' = [u \in Uploads |-> IF phase[u] = "none" THEN "none" ELSE "done"]
      /\ UNCHANGED <<told, saved, exposed>>
  BY DEF Restart
<1>2. tick' \in Ticks /\ tick'.pc = "asleep" /\ tick'.todo = {} /\ tick'.gone = {}
  BY <1>1 DEF Asleep, Ticks
<1>3. TypeOK'
  BY <1>1, <1>2 DEF TypeOK
<1>4. Handed'
  BY <1>1, <1>2 DEF Handed, TypeOK
<1>5. Counted'
  BY <1>1 DEF Counted
<1>6. Accounted'
  BY <1>1 DEF Accounted, Counted, TypeOK
<1>7. Over'
  BY <1>1, <1>2 DEF Over
<1>8. Owed'
  <2> SUFFICES ASSUME NEW u \in Uploads, u \notin exposed, end'[u] = "none",
                      "promised" \in told[u]
               PROVE  u \in pending' \cap kept'
    BY <1>1 DEF Owed
  <2>1. u \in pending \cap kept
    BY DEF Owed
  <2>2. saved[u] > 0
    BY <2>1 DEF Counted
  <2> QED
    BY <1>1, <2>1, <2>2
<1> QED
  BY <1>3, <1>4, <1>5, <1>6, <1>7, <1>8

LEMMA CrashInv ==
  ASSUME Inv, Crash \/ \E u \in Uploads : CrashEnqueuing(u) \/ CrashCancelling(u)
  PROVE  Inv'
<1>1. TypeOK /\ \A u \in kept : phase[u] # "none"
  BY DEF Inv, Handed
<1>2. CASE Crash
  BY <1>1, <1>2, RestartInv DEF Crash, TypeOK
<1>3. ASSUME NEW u \in Uploads, CrashEnqueuing(u)
      PROVE  Inv'
  <2>1. /\ phase[u] \in Kinds /\ kept' = kept \cup {u} /\ left' = left \cup {u}
        /\ UNCHANGED end /\ Restart
    BY <1>3 DEF CrashEnqueuing
  <2> QED
    BY <1>1, <2>1, RestartInv DEF TypeOK
<1>4. ASSUME NEW u \in Uploads, CrashCancelling(u)
      PROVE  Inv'
  <2>1. /\ kept' = kept \ {u} /\ left' = left \ {u}
        /\ end' = [end EXCEPT ![u] = "cancelled"] /\ Restart
    BY <1>4 DEF CrashCancelling, End
  <2>2. /\ end' \in [Uploads -> Endings]
        /\ \A v \in Uploads : end'[v] = "none" => end[v] = "none" /\ (v \in kept => v \in kept')
    BY <1>1, <2>1 DEF TypeOK
  <2> QED
    BY <1>1, <2>1, <2>2, RestartInv DEF TypeOK
<1> QED
  BY <1>2, <1>3, <1>4

LEMMA NextInv == Inv /\ [Next]_vars => Inv'
<1> SUFFICES ASSUME Inv, [Next]_vars PROVE Inv'
  OBVIOUS
<1>1. CASE BeginBatch \/ \E u \in Uploads : Begin(u)
  BY <1>1, BeginInv
<1>2. ASSUME NEW u \in Uploads, Handler(u) PROVE Inv'
  BY <1>2, HandlerInv
<1>3. ASSUME NEW u \in Uploads, CancelEntry(u) PROVE Inv'
  BY <1>3, CancelInv
<1>4. CASE Wake
  BY <1>4, WakeInv
<1>5. CASE Ticking
  BY <1>5, AttemptInv, RetryWorksInv, RetryFailsInv, CleanUpInv, TickEndsInv DEF Ticking
<1>6. CASE Crash \/ \E u \in Uploads : CrashEnqueuing(u) \/ CrashCancelling(u)
  BY <1>6, CrashInv
<1>7. CASE UNCHANGED vars
  BY <1>7 DEF vars, handlerVars, queueVars, Inv, TypeOK, Handed, Counted,
             Accounted, Over, Owed, Past
<1> QED
  BY <1>1, <1>2, <1>3, <1>4, <1>5, <1>6, <1>7 DEF Next

LEMMA InvHolds == Spec => []Inv
BY InitInv, NextInv, PTL DEF Spec

-----------------------------------------------------------------------------
(* How many files are left.                                                *)

\* Each crash, and each fault of the disk, leaves one file behind at most.
FewLeft ==
  /\ crashes \in Nat /\ diskFaults \in Nat
  /\ IsFiniteSet(left)
  /\ Cardinality(left) <= crashes + diskFaults

\* The file of u joins those left behind, or none does.
LEMMA OneMore ==
  ASSUME IsFiniteSet(left), NEW u, left' \subseteq left \cup {u}
  PROVE  IsFiniteSet(left') /\ Cardinality(left') \in Nat /\ Cardinality(left) \in Nat
         /\ Cardinality(left') <= Cardinality(left) + 1
<1>1. /\ IsFiniteSet(left \cup {u})
      /\ Cardinality(left \cup {u}) \in Nat /\ Cardinality(left) \in Nat
      /\ Cardinality(left \cup {u}) <= Cardinality(left) + 1
  BY FS_AddElement, FS_CardinalityType
<1>2. IsFiniteSet(left') /\ Cardinality(left') <= Cardinality(left \cup {u})
  BY <1>1, FS_Subset
<1>3. Cardinality(left') \in Nat
  BY <1>2, FS_CardinalityType
<1> QED
  BY <1>1, <1>2, <1>3

LEMMA NoMore ==
  ASSUME IsFiniteSet(left), left' \subseteq left
  PROVE  IsFiniteSet(left') /\ Cardinality(left') \in Nat /\ Cardinality(left) \in Nat
         /\ Cardinality(left') <= Cardinality(left)
<1>1. IsFiniteSet(left') /\ Cardinality(left') <= Cardinality(left)
  BY FS_Subset
<1>2. Cardinality(left') \in Nat /\ Cardinality(left) \in Nat
  BY <1>1, FS_CardinalityType
<1> QED
  BY <1>1, <1>2

\* A failed unlink is a fault of its own.
LEMMA UnlinkFew ==
  ASSUME FewLeft, NEW u, NEW stuck \in {0, 1}, NEW n \in Nat, Unlink(u, stuck),
         Faults(stuck + n), UNCHANGED crashes
  PROVE  FewLeft'
<1>1. diskFaults' = diskFaults + (stuck + n)
  BY DEF Faults
<1>2. CASE stuck = 0
  <2>1. left' \subseteq left
    BY <1>2 DEF Unlink
  <2> QED
    BY <1>1, <1>2, <2>1, NoMore DEF FewLeft
<1>3. CASE stuck = 1
  <2>1. left' \subseteq left \cup {u}
    BY <1>3 DEF Unlink
  <2> QED
    BY <1>1, <1>3, <2>1, OneMore DEF FewLeft
<1> QED
  BY <1>2, <1>3

\* Whatever else happens to the disk leaves no file behind.
LEMMA FaultsFew ==
  ASSUME FewLeft, UNCHANGED <<left, crashes>>,
         UNCHANGED diskFaults \/ \E n \in {0, 1} : Faults(n)
  PROVE  FewLeft'
<1>1. diskFaults' \in Nat /\ diskFaults' >= diskFaults
  BY DEF FewLeft, Faults
<1>2. Cardinality(left) \in Nat
  BY FS_CardinalityType DEF FewLeft
<1> QED
  BY <1>1, <1>2 DEF FewLeft

LEMMA FewNext == FewLeft /\ [Next]_vars => FewLeft'
<1> SUFFICES ASSUME FewLeft, [Next]_vars PROVE FewLeft'
  OBVIOUS
<1> USE DEF queueVars, handlerVars
<1>1. CASE BeginBatch \/ \E u \in Uploads : Begin(u)
  BY <1>1, FaultsFew DEF BeginBatch, Begin
<1>2. ASSUME NEW u \in Uploads, NEW kinds, SendFails(u, kinds) PROVE FewLeft'
  <2>1. UNCHANGED <<left, crashes>> /\ (UNCHANGED diskFaults \/ \E n \in {0, 1} : Faults(n))
    BY <1>2 DEF SendFails, Enqueue
  <2> QED
    BY <2>1, FaultsFew
<1>3. ASSUME NEW u \in Uploads, Handler(u) PROVE FewLeft'
  <2>1. CASE FileSent(u) \/ PartSent(u) \/ HandlerRaises(u) \/ Promise(u) \/ PromiseRaises(u)
    BY <2>1, FaultsFew DEF FileSent, PartSent, Sent, HandlerRaises, Promise, PromiseRaises
  <2> QED
    BY <1>2, <1>3, <2>1 DEF Handler, TrackFails, SingleFails, VideoFails, SoundcloudFails,
       BandcampFails, MusicdlFails, PartFails
<1>4. ASSUME NEW u \in Uploads, CancelEntry(u) PROVE FewLeft'
  <2>1. PICK stuck \in {0, 1}, fault \in {0, 1} : Faults(stuck + fault) /\ Unlink(u, stuck)
    BY <1>4 DEF CancelEntry
  <2> QED
    BY <1>4, <2>1, UnlinkFew DEF CancelEntry
<1>5. CASE Wake
  BY <1>5, FaultsFew DEF Wake
<1>6. CASE Ticking
  <2>1. ASSUME NEW u \in Uploads, Attempt(u) PROVE FewLeft'
    BY <2>1, FaultsFew DEF Attempt
  <2>2. CASE RetryWorks \/ RetryFails
    BY <2>2, FaultsFew DEF RetryWorks, RetryFails
  <2>3. CASE CleanUp
    <3>1. PICK stuck \in {0, 1} : Faults(stuck) /\ Unlink(tick.entry, stuck)
      BY <2>3 DEF CleanUp
    <3>2. Faults(stuck + 0)
      BY <3>1
    <3> QED
      BY <2>3, <3>1, <3>2, UnlinkFew DEF CleanUp
  <2>4. CASE TickEnds
    BY <2>4, FaultsFew DEF TickEnds
  <2> QED
    BY <1>6, <2>1, <2>2, <2>3, <2>4 DEF Ticking
<1>7. CASE Crash \/ \E u \in Uploads : CrashEnqueuing(u) \/ CrashCancelling(u)
  <2>1. crashes' = crashes + 1 /\ UNCHANGED diskFaults
    BY <1>7 DEF Crash, CrashEnqueuing, CrashCancelling, Restart
  <2>2. \E u : left' \subseteq left \cup {u}
    BY <1>7 DEF Crash, CrashEnqueuing, CrashCancelling
  <2> QED
    BY <2>1, <2>2, OneMore DEF FewLeft
<1>8. CASE UNCHANGED vars
  BY <1>8, FaultsFew DEF vars
<1> QED
  BY <1>1, <1>3, <1>4, <1>5, <1>6, <1>7, <1>8 DEF Next

-----------------------------------------------------------------------------
\* Until its document was sent, its last attempt has failed or it was cancelled,
\* an upload whose user was promised a retry is queued with its file, in memory
\* and on disk, unless the disk failed, wherever handlers, ticks, cancellations
\* and crashes fall (upload_retry.py:143-168, 229-291).
THEOREM PromisesKept == Spec => []PromisesSurvive
<1>1. Inv => PromisesSurvive
  BY DEF Inv, Owed, Counted, PromisesSurvive
<1> QED
  BY <1>1, InvHolds, PTL

\* A file in the retry directory has an entry that will remove it, or was left
\* by a crash between the move and the save or by an unlink that failed, and
\* each of these leaves no more than one (upload_retry.py:143-168, 231, 262, 330).
THEOREM FilesAccounted == Spec => []RetryFilesAreAccounted
<1>1. Init => FewLeft
  BY FS_EmptySet DEF Init, FewLeft
<1>2. Inv /\ FewLeft => RetryFilesAreAccounted
  BY DEF Inv, Accounted, FewLeft, RetryFilesAreAccounted
<1> QED
  BY <1>1, <1>2, InvHolds, FewNext, PTL DEF Spec
=============================================================================
