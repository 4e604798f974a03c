--------------------------- MODULE BotQueueProofs ---------------------------
(***************************************************************************)
(* Proofs about BotQueue, for all requests, chats and restarts.            *)
(*                                                                         *)
(* SingleRunner and MenusTimed do not depend on what the queue holds: a     *)
(* hand-off gives the place of the runner to whatever was popped, and menus *)
(* and timers do not look at the queue.  That nobody is dispatched twice and *)
(* that BotQueue implements DownloadLine rest on where a request can be: its *)
(* pc tells whether it may be in the queue, popped, in a menu, with a runner *)
(* or in the file, and these are disjoint (PlaceInv).                       *)
(***************************************************************************)
EXTENDS BotQueue, TLAPS, SequenceTheorems, FiniteSetTheorems

USE DEF RunnerPCs, PCs

\* What the state of requests and menus is, the queue aside.
Typed ==
  /\ pc \in [Requests -> PCs]
  /\ pending \in [Chats -> Requests \cup {None}]
  /\ timers \subseteq Requests
  /\ busy \in BOOLEAN

RunnerInv == Typed /\ OneRunner

MenuInv == Typed /\ MenusHaveTimers

-----------------------------------------------------------------------------
\* A step that moves no request into the runner's states and does not touch
\* the flag keeps OneRunner.
LEMMA RunnersShrink ==
  ASSUME OneRunner, Runners' \subseteq Runners, UNCHANGED busy
  PROVE  OneRunner'
BY DEF OneRunner

\* Requests that change between states outside the runner's.
LEMMA OthersMove ==
  ASSUME Typed, NEW r \in Requests, NEW v \in PCs \ RunnerPCs,
         pc' = [pc EXCEPT ![r] = v]
  PROVE  Runners' \subseteq Runners /\ pc' \in [Requests -> PCs]
BY DEF Runners, Typed

\* An iteration that is spoilt remains that of the same runner.
LEMMA MutatedKeeps ==
  ASSUME NEW f \in [Requests -> PCs]
  PROVE  /\ Mutated(f) \in [Requests -> PCs]
         /\ \A r \in Requests : Mutated(f)[r] \in RunnerPCs <=> f[r] \in RunnerPCs
BY DEF Mutated

\* A runner r gives way to request n, or to nobody.
LEMMA HandOver ==
  ASSUME Typed, OneRunner, NEW r \in Runners, UNCHANGED busy,
         Runners' \subseteq (Runners \ {r}) \cup {next[r]}
  PROVE  OneRunner'
BY DEF OneRunner

LEMMA InitInv == Init => RunnerInv /\ MenuInv
BY ChatOfRequest
   DEF Init, RunnerInv, MenuInv, Typed, OneRunner, Runners, MenusHaveTimers, NoMenus

-----------------------------------------------------------------------------
\* The types, the flag and the runners, action by action.
LEMMA RunnerNext == RunnerInv /\ [Next]_vars => RunnerInv'
<1> SUFFICES ASSUME Typed, OneRunner, [Next]_vars
             PROVE  Typed' /\ OneRunner'
  BY DEF RunnerInv
<1> USE ChatOfRequest
<1>1. ASSUME NEW r \in Requests, RequestBegin(r)
      PROVE  Typed' /\ OneRunner'
  BY <1>1, RunnersShrink, OthersMove DEF RequestBegin, PopMenu, Typed
<1>2. ASSUME NEW r \in Requests, MenuShown(r)
      PROVE  Typed' /\ OneRunner'
  BY <1>2, RunnersShrink, OthersMove DEF MenuShown, Typed
<1>3. ASSUME NEW r \in Requests, MenuFails(r)
      PROVE  Typed' /\ OneRunner'
  BY <1>3, RunnersShrink, OthersMove DEF MenuFails, Typed
<1>4. ASSUME NEW r \in Requests, Expire(r)
      PROVE  Typed' /\ OneRunner'
  BY <1>4, RunnersShrink DEF Expire, Typed, Runners
<1>5. ASSUME NEW r \in Requests, SelectMenu(r)
      PROVE  Typed' /\ OneRunner'
  <2>1. Typed' /\ Runners' \subseteq Runners
    BY <1>5 DEF SelectMenu, PopMenu, Typed, Runners
  <2> QED
    BY <1>5, <2>1, RunnersShrink DEF SelectMenu
<1>6. ASSUME NEW r \in Requests, SelectDownload(r)
      PROVE  Typed' /\ OneRunner'
  <2>1. Typed'
    BY <1>6 DEF SelectDownload, PopMenu, Typed
  <2>2. CASE busy
    <3>1. Runners' \subseteq Runners /\ UNCHANGED busy
      BY <1>6, <2>2, OthersMove DEF SelectDownload, Typed
    <3> QED
      BY <2>1, <3>1, RunnersShrink
  <2>3. CASE ~busy
    <3>1. Runners = {}
      BY <2>3 DEF OneRunner
    <3>2. Runners' \subseteq {r} /\ busy'
      BY <1>6, <2>3, <3>1 DEF SelectDownload, Typed, Runners
    <3> QED
      BY <2>1, <3>2 DEF OneRunner
  <2> QED
    BY <2>2, <2>3
<1>7. ASSUME NEW r \in Requests, AnnounceSent(r)
      PROVE  Typed' /\ OneRunner'
  <2> DEFINE f == [pc EXCEPT ![r] = "waiting"]
  <2>1. f \in [Requests -> PCs] /\ pc' = Mutated(f)
    BY <1>7 DEF AnnounceSent, Typed
  <2> HIDE DEF f
  <2>2. /\ pc' \in [Requests -> PCs]
        /\ \A q \in Requests : pc'[q] \in RunnerPCs <=> f[q] \in RunnerPCs
    BY <2>1, MutatedKeeps
  <2>3. \A q \in Requests : f[q] \in RunnerPCs => pc[q] \in RunnerPCs
    BY DEF f, Typed
  <2>4. Typed' /\ Runners' \subseteq Runners
    BY <1>7, <2>2, <2>3 DEF AnnounceSent, Typed, Runners
  <2> QED
    BY <1>7, <2>4, RunnersShrink DEF AnnounceSent
<1>8. ASSUME NEW r \in Requests, AnnounceFails(r)
      PROVE  Typed' /\ OneRunner'
  BY <1>8, RunnersShrink, OthersMove DEF AnnounceFails, Typed
<1>9. ASSUME NEW c \in Chats, Cancel(c)
      PROVE  Typed' /\ OneRunner'
  <2>1. /\ pc' \in [Requests -> PCs]
        /\ \A q \in Requests : pc'[q] \in RunnerPCs <=> pc[q] \in RunnerPCs
    <3>1. CASE queue = <<>>
      BY <1>9, <3>1 DEF Cancel, Typed
    <3>2. CASE queue # <<>>
      BY <1>9, <3>2, MutatedKeeps DEF Cancel, Typed
    <3> QED
      BY <3>1, <3>2
  <2>2. Typed' /\ Runners' \subseteq Runners
    BY <1>9, <2>1 DEF Cancel, PopMenu, Typed, Runners
  <2> QED
    BY <1>9, <2>2, RunnersShrink DEF Cancel
<1>10. ASSUME NEW r \in Requests, DownloadEnds(r)
       PROVE  Typed' /\ OneRunner'
  <2>1. r \in Runners
    BY <1>10 DEF DownloadEnds, Runners
  <2>2. CASE queue # <<>>
    <3>1. Typed' /\ Runners' \subseteq Runners /\ UNCHANGED busy
      BY <1>10, <2>1, <2>2 DEF DownloadEnds, Typed, Runners
    <3> QED
      BY <3>1, RunnersShrink
  <2>3. CASE queue = <<>>
    <3>1. Typed' /\ Runners' \subseteq Runners \ {r}
      BY <1>10, <2>3 DEF DownloadEnds, Typed, Runners
    <3> QED
      BY <2>1, <3>1 DEF OneRunner
  <2> QED
    BY <2>2, <2>3
<1>11. ASSUME NEW r \in Requests, Notified(r)
       PROVE  Typed' /\ OneRunner'
  <2>1. Typed' /\ Runners' \subseteq Runners /\ UNCHANGED busy
    BY <1>11 DEF Notified, Typed, Runners
  <2> QED
    BY <2>1, RunnersShrink
<1>12. ASSUME NEW r \in Requests, NotifyRaises(r)
       PROVE  Typed' /\ OneRunner'
  BY <1>12, RunnersShrink, OthersMove DEF NotifyRaises, Typed
<1>13. ASSUME NEW r \in Requests, Dispatch(r)
       PROVE  Typed' /\ OneRunner'
  <2>1. r \in Runners /\ UNCHANGED busy
    BY <1>13 DEF Dispatch, Runners
  <2>2. Typed' /\ Runners' \subseteq (Runners \ {r}) \cup {next[r]}
    <3> DEFINE n == next[r]
               v == RunnerPC(n)
    <3>1. v \in RunnerPCs /\ pc' = [pc EXCEPT ![r] = "over", ![n] = v]
      BY <1>13 DEF Dispatch, RunnerPC
    <3>2. UNCHANGED <<pending, timers, busy>>
      BY <1>13 DEF Dispatch
    <3> HIDE DEF n, v
    <3>3. Typed' /\ Runners' \subseteq (Runners \ {r}) \cup {n}
      BY <3>1, <3>2 DEF Typed, Runners
    <3> QED
      BY <3>3 DEF n
  <2> QED
    BY <2>1, <2>2, HandOver
<1>14. CASE Terminate \/ Killed
  BY <1>14 DEF Terminate, Killed, Down, Typed, OneRunner, Runners, NoMenus
<1>15. CASE Start
  <2>1. Typed' /\ Runners' \subseteq Runners
    BY <1>15 DEF Start, Typed, Runners
  <2> QED
    BY <1>15, <2>1, RunnersShrink DEF Start
<1>16. CASE UNCHANGED vars
  BY <1>16 DEF vars, Typed, OneRunner, Runners
<1> QED
  BY <1>1, <1>2, <1>3, <1>4, <1>5, <1>6, <1>7, <1>8, <1>9, <1>10, <1>11, <1>12,
     <1>13, <1>14, <1>15, <1>16
  DEF Next, RequestStep, RunnerStep

-----------------------------------------------------------------------------
\* A menu is popped together with its own timer, and no menu of another chat
\* has that timer.
LEMMA PopKeepsTimers ==
  ASSUME Typed, MenusHaveTimers, NEW c \in Chats, PopMenu(c)
  PROVE  MenusHaveTimers'
BY DEF PopMenu, Typed, MenusHaveTimers

LEMMA MenuNext == RunnerInv /\ MenuInv /\ [Next]_vars => MenuInv'
<1> SUFFICES ASSUME Typed, MenusHaveTimers, [Next]_vars
             PROVE  MenusHaveTimers'
  BY RunnerNext DEF RunnerInv, MenuInv
<1> USE ChatOfRequest
<1>1. ASSUME NEW r \in Requests, RequestBegin(r)
      PROVE  MenusHaveTimers'
  BY <1>1, PopKeepsTimers DEF RequestBegin, MenusHaveTimers
<1>2. ASSUME NEW r \in Requests, MenuShown(r)
      PROVE  MenusHaveTimers'
  BY <1>2, NoneIsNothing DEF MenuShown, Typed, MenusHaveTimers
<1>3. ASSUME NEW r \in Requests, Expire(r)
      PROVE  MenusHaveTimers'
  BY <1>3 DEF Expire, Typed, MenusHaveTimers
<1>4. ASSUME NEW r \in Requests, SelectMenu(r) \/ SelectDownload(r)
      PROVE  MenusHaveTimers'
  BY <1>4, PopKeepsTimers DEF SelectMenu, SelectDownload
<1>5. ASSUME NEW c \in Chats, Cancel(c)
      PROVE  MenusHaveTimers'
  BY <1>5, PopKeepsTimers DEF Cancel
<1>6. CASE Terminate \/ Killed
  BY <1>6 DEF Terminate, Killed, Down, NoMenus, MenusHaveTimers
<1>7. CASE UNCHANGED <<pending, timers>>
  BY <1>7 DEF MenusHaveTimers
<1>8. ASSUME NEW r \in Requests,
             \/ MenuFails(r) \/ AnnounceSent(r) \/ AnnounceFails(r) \/ RunnerStep(r)
      PROVE  UNCHANGED <<pending, timers>>
  BY <1>8 DEF MenuFails, AnnounceSent, AnnounceFails, RunnerStep, DownloadEnds,
              Notified, NotifyRaises, Dispatch
<1>9. Start \/ UNCHANGED vars => UNCHANGED <<pending, timers>>
  BY DEF Start, vars
<1> QED
  BY <1>1, <1>2, <1>3, <1>4, <1>5, <1>6, <1>7, <1>8, <1>9 DEF Next, RequestStep

-----------------------------------------------------------------------------
\* One download at a time: no two runners, and the flag is up while there is
\* one, however requests, hand-offs, cancels and restarts follow each other
\* (rub.py 555-579, 1142-1163).
THEOREM SingleRunner == Spec => []OneRunner
<1>1. Spec => []RunnerInv
  BY InitInv, RunnerNext, PTL DEF Spec
<1>2. RunnerInv => OneRunner
  BY DEF RunnerInv
<1> QED
  BY <1>1, <1>2, PTL

\* A menu that is on keeps the timer that will close it, although menus of a
\* chat replace each other without a word to the older timer (rub.py 582-593).
THEOREM MenusTimed == Spec => []MenusHaveTimers
<1>1. RunnerInv /\ MenuInv /\ [Next]_vars => (RunnerInv /\ MenuInv)'
  BY RunnerNext, MenuNext
<1>2. Spec => [](RunnerInv /\ MenuInv)
  BY InitInv, <1>1, PTL DEF Spec
<1>3. MenuInv => MenusHaveTimers
  BY DEF MenuInv
<1> QED
  BY <1>2, <1>3, PTL

-----------------------------------------------------------------------------
(* Where a request can be.                                                 *)
HandingOff == {"notifying", "mutated", "greeting"}
Behind == {"waiting", "restored"}
USE DEF HandingOff, Behind

\* The types that the proofs above do without.
Lines ==
  /\ queue \in Seq(Requests)
  /\ next \in [Requests -> Requests \cup {None}]
  /\ snapshot # None => snapshot \in Seq(Requests)
  /\ dispatched \subseteq Requests

\* Exactly the runners in their hand-off hold a popped entry.
HandOffs == \A r \in Requests : next[r] # None <=> pc[r] \in HandingOff

\* What is queued waits and is queued once; what is popped waits and is not
\* queued.
QueuedWait == \A i \in DOMAIN queue : pc[queue[i]] \in Behind
QueuedOnce == \A i, j \in DOMAIN queue : queue[i] = queue[j] => i = j
PoppedWait ==
  \A r \in Requests : next[r] # None =>
    pc[next[r]] \in Behind /\ \A i \in DOMAIN queue : queue[i] # next[r]

\* What was dispatched runs or is over.
Dispatched == \A r \in dispatched : pc[r] \in RunnerPCs \cup {"over"}

MenusShow == \A c \in Chats : pending[c] # None => pc[pending[c]] = "shown"

\* There is a file only while the bot is down, and it holds nobody dispatched.
Kept ==
  snapshot # None =>
    /\ ~up
    /\ \A i, j \in DOMAIN snapshot : snapshot[i] = snapshot[j] => i = j
    /\ \A i \in DOMAIN snapshot : pc[snapshot[i]] = "over" /\ snapshot[i] \notin dispatched

DownInv == ~up => queue = <<>> /\ \A r \in Requests : pc[r] \in {"unused", "over"}

PlaceInv ==
  /\ Lines /\ HandOffs /\ QueuedWait /\ QueuedOnce /\ PoppedWait
  /\ Dispatched /\ MenusShow /\ Kept /\ DownInv

Inv == RunnerInv /\ MenuInv /\ PlaceInv

LEMMA InitPlace == Init => PlaceInv
BY DEF Init, PlaceInv, Lines, HandOffs, QueuedWait, QueuedOnce, PoppedWait, Dispatched,
       MenusShow, Kept, DownInv, NoMenus, NoEntries

-----------------------------------------------------------------------------
\* A step of the bot while it is up changes the pc of requests that are
\* neither queued nor popped, and moves no runner into or out of a hand-off.
LEMMA QueueStays ==
  ASSUME PlaceInv, up,
         UNCHANGED <<up, queue, next, snapshot, dispatched>>,
         pc' \in [Requests -> PCs],
         \A r \in Requests : pc[r] \in Behind => pc'[r] \in Behind,
         \A r \in Requests : pc[r] \in HandingOff <=> pc'[r] \in HandingOff,
         \A r \in Requests : pc[r] \in RunnerPCs \cup {"over"} => pc'[r] \in RunnerPCs \cup {"over"},
         MenusShow'
  PROVE  PlaceInv'
<1>1. Lines' /\ HandOffs'
  BY DEF PlaceInv, Lines, HandOffs
<1>2. \A i \in DOMAIN queue : queue[i] \in Requests
  BY DEF PlaceInv, Lines
<1>3. QueuedWait' /\ QueuedOnce'
  BY <1>2 DEF PlaceInv, QueuedWait, QueuedOnce
<1>4. PoppedWait'
  BY DEF PlaceInv, PoppedWait, Lines
<1>5. Kept' /\ DownInv'
  BY DEF PlaceInv, Kept, DownInv
<1>6. Dispatched'
  BY DEF PlaceInv, Lines, Dispatched
<1> QED
  BY <1>1, <1>3, <1>4, <1>5, <1>6 DEF PlaceInv


\* One request moves that is neither in the line nor in a hand-off, or a runner
\* goes on in its hand-off.
LEMMA OneMoves ==
  ASSUME Inv, up, NEW r \in Requests, NEW v \in PCs,
         pc' = [pc EXCEPT ![r] = v],
         UNCHANGED <<up, queue, next, snapshot, dispatched>>,
         pc[r] \notin Behind,
         pc[r] \in HandingOff <=> v \in HandingOff,
         pc[r] \in RunnerPCs \cup {"over"} => v \in RunnerPCs \cup {"over"},
         MenusShow'
  PROVE  PlaceInv'
<1>1. pc \in [Requests -> PCs] /\ PlaceInv
  BY DEF Inv, RunnerInv, Typed
<1>2. /\ pc' \in [Requests -> PCs]
      /\ \A q \in Requests : pc'[q] = IF q = r THEN v ELSE pc[q]
  BY <1>1
<1>3. \A q \in Requests : pc[q] \in Behind => pc'[q] \in Behind
  BY <1>2
<1>4. \A q \in Requests : pc[q] \in HandingOff <=> pc'[q] \in HandingOff
  BY <1>2
<1>5. \A q \in Requests :
        pc[q] \in RunnerPCs \cup {"over"} => pc'[q] \in RunnerPCs \cup {"over"}
  BY <1>2
<1> QED
  BY <1>1, <1>2, <1>3, <1>4, <1>5, QueueStays

\* A chat's menu is popped and then the request that had it moves, or one
\* without a menu does.
LEMMA MenusKeep ==
  ASSUME Inv, NEW r \in Requests, NEW v \in PCs, pc' = [pc EXCEPT ![r] = v],
         \A c \in Chats : pending'[c] \in {pending[c], None},
         pc[r] = "shown" => pending'[Chat[r]] = None
  PROVE  MenusShow'
<1> SUFFICES ASSUME NEW c \in Chats, pending'[c] # None
             PROVE  pc'[pending'[c]] = "shown"
  BY DEF MenusShow
<1>1. pc \in [Requests -> PCs] /\ pending \in [Chats -> Requests \cup {None}]
  BY DEF Inv, RunnerInv, Typed
<1>2. pending'[c] = pending[c] /\ pending[c] \in Requests
  BY <1>1
<1>3. pc[pending[c]] = "shown" /\ Chat[pending[c]] = c
  BY <1>2 DEF Inv, PlaceInv, MenusShow, MenuInv, MenusHaveTimers
<1>4. pending[c] # r
  BY <1>2, <1>3
<1> QED
  BY <1>1, <1>2, <1>3, <1>4

LEMMA MenusMove ==
  ASSUME Inv, NEW r \in Requests,
         \/ RequestBegin(r) \/ MenuShown(r) \/ MenuFails(r)
         \/ AnnounceFails(r) \/ Notified(r) \/ (SelectDownload(r) /\ busy)
  PROVE  PlaceInv'
<1> USE ChatOfRequest, NoneIsNothing
<1>1. pc \in [Requests -> PCs] /\ pending \in [Chats -> Requests \cup {None}]
  BY DEF Inv, RunnerInv, Typed
<1>2. pending[Chat[r]] = r => pc[r] = "shown"
  BY <1>1 DEF Inv, PlaceInv, MenusShow
<1>3. up
  BY <1>1, <1>2 DEF Inv, PlaceInv, DownInv, RequestBegin, MenuShown, MenuFails,
                    AnnounceFails, Notified, SelectDownload
<1>4. UNCHANGED <<up, queue, next, snapshot, dispatched>>
  BY DEF RequestBegin, MenuShown, MenuFails, AnnounceFails, Notified, SelectDownload
<1>5. CASE RequestBegin(r)
  <2>1. PICK v \in {"fetching", "searching"} : pc' = [pc EXCEPT ![r] = v]
    BY <1>5 DEF RequestBegin
  <2>2. pc[r] = "unused" /\ \A c \in Chats : pending'[c] \in {pending[c], None}
    BY <1>1, <1>5 DEF RequestBegin, PopMenu
  <2>3. MenusShow'
    BY <2>1, <2>2, MenusKeep
  <2> QED
    BY <1>3, <1>4, <2>1, <2>2, <2>3, OneMoves
<1>6. CASE MenuShown(r)
  <2>1. pc[r] \in {"fetching", "searching"} /\ pc' = [pc EXCEPT ![r] = "shown"]
    BY <1>6 DEF MenuShown
  <2>2. MenusShow'
    BY <1>1, <1>6 DEF MenuShown, Inv, PlaceInv, MenusShow
  <2> QED
    BY <1>3, <1>4, <2>1, <2>2, OneMoves
<1>7. CASE MenuFails(r) \/ AnnounceFails(r)
  <2>1. /\ pc[r] \in {"fetching", "searching", "announcing"} /\ pending' = pending
        /\ pc' = [pc EXCEPT ![r] = "over"]
    BY <1>7 DEF MenuFails, AnnounceFails
  <2>2. MenusShow'
    BY <2>1, MenusKeep
  <2> QED
    BY <1>3, <1>4, <2>1, <2>2, OneMoves
<1>8. CASE Notified(r)
  <2>1. pc[r] = "notifying" /\ pending' = pending /\ pc' = [pc EXCEPT ![r] = "greeting"]
    BY <1>8 DEF Notified
  <2>2. MenusShow'
    BY <2>1, MenusKeep
  <2> QED
    BY <1>3, <1>4, <2>1, <2>2, OneMoves
<1>9. CASE SelectDownload(r) /\ busy
  <2>1. /\ pc[r] = "shown" /\ pc' = [pc EXCEPT ![r] = "announcing"]
        /\ pending' = [pending EXCEPT ![Chat[r]] = None]
    BY <1>2, <1>9 DEF SelectDownload, PopMenu
  <2>2. MenusShow'
    BY <1>1, <2>1, MenusKeep
  <2> QED
    BY <1>3, <1>4, <2>1, <2>2, OneMoves
<1> QED
  BY <1>5, <1>6, <1>7, <1>8, <1>9

\* The pops of menus that do not go through MenusMove.
LEMMA SelectionPlace ==
  ASSUME Inv, NEW r \in Requests,
         SelectMenu(r) \/ (SelectDownload(r) /\ ~busy)
  PROVE  PlaceInv'
<1> USE ChatOfRequest, NoneIsNothing
<1>1. pc \in [Requests -> PCs] /\ pending \in [Chats -> Requests \cup {None}]
  BY DEF Inv, RunnerInv, Typed
<1>2. /\ pc[r] = "shown" /\ up
      /\ pending' = [pending EXCEPT ![Chat[r]] = None]
      /\ UNCHANGED <<up, queue, next, snapshot>>
  BY <1>1 DEF Inv, PlaceInv, MenusShow, DownInv, SelectMenu, SelectDownload, PopMenu
<1>3. \A c \in Chats : pending'[c] # None =>
        pending'[c] = pending[c] /\ pc[pending[c]] = "shown" /\ pending[c] # r
  BY <1>1, <1>2 DEF Inv, PlaceInv, MenusShow, MenuInv, MenusHaveTimers
<1>4. next[r] = None
  BY <1>2 DEF Inv, PlaceInv, HandOffs
<1>5. CASE SelectMenu(r)
  <2>1. dispatched' = dispatched /\ pc' \in [Requests -> PCs]
    BY <1>1, <1>5 DEF SelectMenu
  <2>2. \A q \in Requests :
          \/ pc'[q] = pc[q]
          \/ pc[q] \in {"unused", "shown"} /\ pc'[q] \in {"over", "fetching"}
    BY <1>1, <1>2, <1>5 DEF SelectMenu
  <2>3. MenusShow'
    <3> SUFFICES ASSUME NEW c \in Chats, pending'[c] # None
                 PROVE  pc'[pending'[c]] = "shown"
      BY DEF MenusShow
    <3>1. pending'[c] = pending[c] /\ pc[pending[c]] = "shown" /\ pending[c] # r
      BY <1>3
    <3> QED
      BY <1>1, <1>5, <3>1 DEF SelectMenu
  <2> QED
    BY <1>2, <2>1, <2>2, <2>3, QueueStays DEF Inv
<1>6. CASE SelectDownload(r) /\ ~busy
  <2>1. /\ pc' = [pc EXCEPT ![r] = "downloading"]
        /\ dispatched' = dispatched \cup {r}
    BY <1>6 DEF SelectDownload
  <2>2. Lines' /\ HandOffs'
    BY <1>1, <1>2, <1>4, <2>1 DEF Inv, PlaceInv, Lines, HandOffs
  <2>3. \A i \in DOMAIN queue : queue[i] \in Requests
    BY DEF Inv, PlaceInv, Lines
  <2>4. QueuedWait' /\ QueuedOnce'
    BY <1>1, <1>2, <2>1, <2>3 DEF Inv, PlaceInv, QueuedWait, QueuedOnce
  <2>5. PoppedWait'
    BY <1>1, <1>2, <2>1 DEF Inv, PlaceInv, Lines, PoppedWait
  <2>6. Dispatched'
    BY <1>1, <1>2, <2>1 DEF Inv, PlaceInv, Lines, Dispatched
  <2>7. MenusShow'
    BY <1>1, <1>2, <1>3, <2>1 DEF MenusShow
  <2>8. Kept' /\ DownInv'
    BY <1>2 DEF Inv, PlaceInv, Kept, DownInv
  <2> QED
    BY <2>2, <2>4, <2>5, <2>6, <2>7, <2>8 DEF PlaceInv
<1> QED
  BY <1>5, <1>6

LEMMA ExpirePlace ==
  ASSUME Inv, NEW r \in Requests, Expire(r)
  PROVE  PlaceInv'
<1>1. pending \in [Chats -> Requests \cup {None}]
  BY DEF Inv, RunnerInv, Typed
<1>2. UNCHANGED <<up, pc, queue, next, snapshot, dispatched>> /\ MenusShow'
  BY <1>1 DEF Expire, Inv, PlaceInv, MenusShow
<1> QED
  BY <1>2 DEF Inv, PlaceInv, Lines, HandOffs, QueuedWait, QueuedOnce, PoppedWait, Dispatched,
              Kept, DownInv

-----------------------------------------------------------------------------
\* What an iteration that is spoilt keeps of everybody's place.
LEMMA MutatedPlace ==
  ASSUME NEW f \in [Requests -> PCs]
  PROVE  /\ Mutated(f) \in [Requests -> PCs]
         /\ \A r \in Requests :
              /\ Mutated(f)[r] \in HandingOff <=> f[r] \in HandingOff
              /\ f[r] # "notifying" => Mutated(f)[r] = f[r]
              /\ Mutated(f)[r] \in RunnerPCs <=> f[r] \in RunnerPCs
BY DEF Mutated

LEMMA JoinPlace ==
  ASSUME Inv, NEW r \in Requests, AnnounceSent(r)
  PROVE  PlaceInv'
<1> USE NoneIsNothing
<1> DEFINE f == [pc EXCEPT ![r] = "waiting"]
<1>1. pc \in [Requests -> PCs] /\ pending \in [Chats -> Requests \cup {None}]
  BY DEF Inv, RunnerInv, Typed
<1>2. /\ pc[r] = "announcing" /\ queue' = Append(queue, r) /\ pc' = Mutated(f)
      /\ UNCHANGED <<up, pending, next, snapshot, dispatched>>
  BY DEF AnnounceSent
<1>3. f \in [Requests -> PCs] /\ \A q \in Requests : f[q] = IF q = r THEN "waiting" ELSE pc[q]
  BY <1>1
<1> HIDE DEF f
<1>4. /\ pc' \in [Requests -> PCs]
      /\ \A q \in Requests :
           /\ pc'[q] \in HandingOff <=> pc[q] \in HandingOff
           /\ q # r /\ pc[q] # "notifying" => pc'[q] = pc[q]
           /\ q # r => (pc'[q] \in RunnerPCs <=> pc[q] \in RunnerPCs)
      /\ pc'[r] = "waiting"
  BY <1>2, <1>3, MutatedPlace
<1>5. queue \in Seq(Requests) /\ \A i \in DOMAIN queue : queue[i] \in Requests /\ queue[i] # r
  BY <1>2 DEF Inv, PlaceInv, Lines, QueuedWait
<1>6. /\ queue' \in Seq(Requests)
      /\ DOMAIN queue' = DOMAIN queue \cup {Len(queue) + 1}
      /\ \A i \in DOMAIN queue : queue'[i] = queue[i] /\ i # Len(queue) + 1
      /\ queue'[Len(queue) + 1] = r
  BY <1>2, <1>5, AppendProperties, LenProperties
<1>7. Lines' /\ HandOffs'
  BY <1>2, <1>4, <1>6 DEF Inv, PlaceInv, Lines, HandOffs
<1>8. QueuedWait' /\ QueuedOnce'
  BY <1>4, <1>5, <1>6 DEF Inv, PlaceInv, QueuedWait, QueuedOnce
<1>9. PoppedWait'
  <2> SUFFICES ASSUME NEW q \in Requests, next[q] # None
               PROVE  pc'[next[q]] \in Behind /\ \A i \in DOMAIN queue' : queue'[i] # next[q]
    BY <1>2 DEF PoppedWait
  <2>1. /\ next[q] \in Requests /\ pc[next[q]] \in Behind
        /\ \A i \in DOMAIN queue : queue[i] # next[q]
    BY DEF Inv, PlaceInv, PoppedWait, Lines
  <2>2. next[q] # r /\ pc'[next[q]] = pc[next[q]]
    BY <1>2, <1>4, <2>1
  <2> QED
    BY <1>6, <2>1, <2>2
<1>10. Dispatched'
  <2>1. \A q \in dispatched : q \in Requests /\ q # r /\ pc[q] \in RunnerPCs \cup {"over"}
    BY <1>2 DEF Inv, PlaceInv, Lines, Dispatched
  <2>2. \A q \in dispatched : pc'[q] \in RunnerPCs \cup {"over"}
    BY <1>4, <2>1
  <2> QED
    BY <1>2, <2>2 DEF Dispatched
<1>11. MenusShow'
  BY <1>1, <1>2, <1>4 DEF Inv, PlaceInv, MenusShow
<1>12. Kept' /\ DownInv'
  BY <1>2 DEF Inv, PlaceInv, Kept, DownInv
<1> QED
  BY <1>7, <1>8, <1>9, <1>10, <1>11, <1>12 DEF PlaceInv

\* !cancel: what remains of the queue is in it as before.
LEMMA CancelPlace ==
  ASSUME Inv, NEW c \in Chats, Cancel(c)
  PROVE  PlaceInv'
<1> USE NoneIsNothing
<1>1. pc \in [Requests -> PCs] /\ pending \in [Chats -> Requests \cup {None}]
  BY DEF Inv, RunnerInv, Typed
<1>2. queue \in Seq(Requests) /\ \A i \in DOMAIN queue : queue[i] \in Requests
  BY DEF Inv, PlaceInv, Lines
<1>3. /\ up /\ pending' = [pending EXCEPT ![c] = None]
      /\ UNCHANGED <<up, next, snapshot, dispatched>>
  BY DEF Cancel, PopMenu
<1>4. /\ pc' \in [Requests -> PCs]
      /\ \A q \in Requests :
           /\ pc'[q] \in HandingOff <=> pc[q] \in HandingOff
           /\ pc[q] # "notifying" => pc'[q] = pc[q]
           /\ pc'[q] \in RunnerPCs <=> pc[q] \in RunnerPCs
  <2>1. CASE queue = <<>>
    BY <1>1, <2>1 DEF Cancel
  <2>2. CASE queue # <<>>
    <3>1. pc' = Mutated(pc)
      BY <2>2 DEF Cancel
    <3> QED
      BY <1>1, <3>1, MutatedPlace
  <2> QED
    BY <2>1, <2>2
<1> DEFINE others == {i \in DOMAIN queue : Chat[queue[i]] # c}
           n == Cardinality(others)
<1>5. n \in Nat
  <2>1. DOMAIN queue = 1 .. Len(queue) /\ Len(queue) \in Nat
    BY <1>2, LenProperties
  <2>2. IsFiniteSet(DOMAIN queue)
    BY <2>1, FS_Interval
  <2>3. IsFiniteSet(others)
    BY <2>2, FS_Subset
  <2> QED
    BY <2>3, FS_CardinalityType
<1>6. PICK place \in [1 .. n -> others] :
        /\ \A i, j \in DOMAIN place : i < j => place[i] < place[j]
        /\ queue' = [i \in DOMAIN place |-> queue[place[i]]]
  BY DEF Cancel, WithoutChat
<1> HIDE DEF n
<1>7. /\ DOMAIN queue' = 1 .. n
      /\ \A i \in 1 .. n : place[i] \in DOMAIN queue /\ queue'[i] = queue[place[i]]
  BY <1>6
<1>8. \A i, j \in 1 .. n : place[i] = place[j] => i = j
  <2> SUFFICES ASSUME NEW i \in 1 .. n, NEW j \in 1 .. n, i < j, place[i] = place[j]
               PROVE  FALSE
    BY <1>5
  <2>1. place[i] < place[j] /\ place[i] \in Nat
    BY <1>2, <1>6, <1>7, LenProperties
  <2> QED
    BY <2>1
<1>9. Lines' /\ HandOffs'
  <2>1. queue' \in Seq(Requests)
    BY <1>2, <1>5, <1>6, <1>7
  <2> QED
    BY <1>3, <1>4, <2>1 DEF Inv, PlaceInv, Lines, HandOffs
<1>10. QueuedWait' /\ QueuedOnce'
  <2>1. QueuedOnce'
    BY <1>7, <1>8 DEF Inv, PlaceInv, QueuedOnce
  <2>2. QueuedWait'
    BY <1>2, <1>4, <1>7 DEF Inv, PlaceInv, QueuedWait
  <2> QED
    BY <2>1, <2>2
<1>11. PoppedWait'
  <2> SUFFICES ASSUME NEW q \in Requests, next[q] # None
               PROVE  pc'[next[q]] \in Behind /\ \A i \in DOMAIN queue' : queue'[i] # next[q]
    BY <1>3 DEF PoppedWait
  <2>1. /\ next[q] \in Requests /\ pc[next[q]] \in Behind
        /\ \A i \in DOMAIN queue : queue[i] # next[q]
    BY DEF Inv, PlaceInv, PoppedWait, Lines
  <2> QED
    BY <1>4, <1>7, <2>1
<1>12. Dispatched'
  <2>1. \A q \in dispatched : q \in Requests /\ pc[q] \in RunnerPCs \cup {"over"}
    BY DEF Inv, PlaceInv, Lines, Dispatched
  <2>2. \A q \in dispatched : pc'[q] \in RunnerPCs \cup {"over"}
    BY <1>4, <2>1
  <2> QED
    BY <1>3, <2>2 DEF Dispatched
<1>13. MenusShow'
  BY <1>1, <1>3, <1>4 DEF Inv, PlaceInv, MenusShow
<1>14. Kept' /\ DownInv'
  BY <1>3 DEF Inv, PlaceInv, Kept, DownInv
<1> QED
  BY <1>9, <1>10, <1>11, <1>12, <1>13, <1>14 DEF PlaceInv

-----------------------------------------------------------------------------
(* The runners.                                                            *)

\* Only one runner can have popped an entry.
LEMMA OnePops ==
  ASSUME Inv, NEW r \in Runners
  PROVE  \A q \in Requests : next[q] # None => q = r
BY DEF Inv, PlaceInv, HandOffs, RunnerInv, OneRunner, Runners

LEMMA EndPlace ==
  ASSUME Inv, NEW r \in Requests, DownloadEnds(r)
  PROVE  PlaceInv'
<1> USE NoneIsNothing
<1>1. pc \in [Requests -> PCs] /\ pending \in [Chats -> Requests \cup {None}]
  BY DEF Inv, RunnerInv, Typed
<1>2. queue \in Seq(Requests) /\ \A i \in DOMAIN queue : queue[i] \in Requests
  BY DEF Inv, PlaceInv, Lines
<1>3. /\ pc[r] \in {"downloading", "futile"} /\ r \in Runners
      /\ UNCHANGED <<up, pending, snapshot, dispatched>>
  BY DEF DownloadEnds, Runners
<1>4. up /\ next[r] = None
  BY <1>3 DEF Inv, PlaceInv, HandOffs, DownInv
<1>5. PICK v \in {"over", "greeting", "notifying"} :
        /\ pc' = [pc EXCEPT ![r] = v]
        /\ v = "over" <=> queue = <<>>
  BY DEF DownloadEnds
<1>6. /\ pc' \in [Requests -> PCs] /\ pc'[r] = v
      /\ \A q \in Requests \ {r} : pc'[q] = pc[q]
  BY <1>1, <1>5
<1>7. MenusShow'
  BY <1>1, <1>3, <1>6 DEF Inv, PlaceInv, MenusShow
<1>8. Dispatched'
  BY <1>3, <1>6 DEF Inv, PlaceInv, Lines, Dispatched
<1>9. Kept' /\ DownInv'
  BY <1>3, <1>4 DEF Inv, PlaceInv, Kept, DownInv
<1>10. CASE queue = <<>>
  <2>1. UNCHANGED <<queue, next>> /\ v = "over"
    BY <1>5, <1>10 DEF DownloadEnds
  <2>2. Lines' /\ HandOffs' /\ QueuedWait' /\ QueuedOnce'
    BY <1>3, <1>4, <1>6, <1>10, <2>1
       DEF Inv, PlaceInv, Lines, HandOffs, QueuedWait, QueuedOnce
  <2>3. PoppedWait'
    BY <1>3, <1>6, <2>1 DEF Inv, PlaceInv, Lines, PoppedWait
  <2> QED
    BY <1>7, <1>8, <1>9, <2>2, <2>3 DEF PlaceInv
<1>11. CASE queue # <<>>
  <2> DEFINE n == Head(queue)
  <2>1. next' = [next EXCEPT ![r] = n] /\ queue' = Tail(queue) /\ v # "over"
    BY <1>5, <1>11 DEF DownloadEnds
  <2>2. /\ n = queue[1] /\ 1 \in DOMAIN queue
        /\ queue' \in Seq(Requests)
        /\ \A i \in DOMAIN queue' :
             i \in Nat /\ i + 1 \in DOMAIN queue /\ queue'[i] = queue[i + 1] /\ i + 1 # 1
    BY <1>2, <1>11, <2>1, HeadTailProperties, LenProperties
  <2> HIDE DEF n
  <2>3. /\ n \in Requests /\ pc[n] \in Behind /\ n # r
        /\ \A i \in DOMAIN queue' : queue'[i] # n /\ queue'[i] # r
    <3>1. \A i \in DOMAIN queue : pc[queue[i]] \in Behind /\ queue[i] # r
      BY <1>3 DEF Inv, PlaceInv, QueuedWait
    <3>2. \A i \in DOMAIN queue : queue[i] = queue[1] => i = 1
      BY <2>2 DEF Inv, PlaceInv, QueuedOnce
    <3> QED
      BY <1>2, <2>2, <3>1, <3>2
  <2>4. Lines'
    BY <1>3, <2>1, <2>2, <2>3 DEF Inv, PlaceInv, Lines
  <2>5. next \in [Requests -> Requests \cup {None}]
    BY DEF Inv, PlaceInv, Lines
  <2>6. HandOffs'
    <3>1. n # None /\ pc'[r] \in HandingOff
      BY <1>5, <1>6, <2>1, <2>3
    <3>2. next'[r] = n /\ \A q \in Requests \ {r} : next'[q] = next[q]
      BY <2>1, <2>5
    <3> QED
      BY <1>6, <3>1, <3>2 DEF Inv, PlaceInv, HandOffs
  <2>7. QueuedWait'
    BY <1>2, <1>6, <2>2, <2>3 DEF Inv, PlaceInv, QueuedWait
  <2>8. QueuedOnce'
    BY <2>2 DEF Inv, PlaceInv, QueuedOnce
  <2>9. PoppedWait'
    <3>1. \A q \in Requests : next'[q] # None => next'[q] = n
      BY <1>3, <2>1, <2>5, OnePops
    <3> QED
      BY <1>6, <2>3, <3>1 DEF PoppedWait
  <2> QED
    BY <1>7, <1>8, <1>9, <2>4, <2>6, <2>7, <2>8, <2>9 DEF PlaceInv
<1> QED
  BY <1>10, <1>11

LEMMA RaisePlace ==
  ASSUME Inv, NEW r \in Requests, NotifyRaises(r)
  PROVE  PlaceInv'
<1> USE NoneIsNothing
<1>1. pc \in [Requests -> PCs] /\ pending \in [Chats -> Requests \cup {None}]
  BY DEF Inv, RunnerInv, Typed
<1>2. /\ pc[r] = "mutated" /\ pc' = [pc EXCEPT ![r] = "over"]
      /\ next' = [next EXCEPT ![r] = None]
      /\ UNCHANGED <<up, pending, queue, snapshot, dispatched>>
  BY DEF NotifyRaises
<1>3. /\ pc' \in [Requests -> PCs] /\ pc'[r] = "over"
      /\ \A q \in Requests \ {r} : pc'[q] = pc[q]
  BY <1>1, <1>2
<1>4. /\ next \in [Requests -> Requests \cup {None}]
      /\ next'[r] = None /\ \A q \in Requests \ {r} : next'[q] = next[q]
  BY <1>2 DEF Inv, PlaceInv, Lines
<1>5. Lines'
  BY <1>2, <1>4 DEF Inv, PlaceInv, Lines
<1>6. HandOffs'
  BY <1>3, <1>4 DEF Inv, PlaceInv, HandOffs
<1>7. QueuedWait' /\ QueuedOnce'
  BY <1>2, <1>3 DEF Inv, PlaceInv, Lines, QueuedWait, QueuedOnce
<1>8. PoppedWait'
  BY <1>2, <1>3, <1>4 DEF Inv, PlaceInv, PoppedWait
<1>9. Dispatched' /\ MenusShow'
  BY <1>1, <1>2, <1>3 DEF Inv, PlaceInv, Lines, Dispatched, MenusShow
<1>10. Kept' /\ DownInv'
  BY <1>2 DEF Inv, PlaceInv, Kept, DownInv
<1> QED
  BY <1>5, <1>6, <1>7, <1>8, <1>9, <1>10 DEF PlaceInv

\* The place of the runner goes to the request that it popped.
LEMMA DispatchPlace ==
  ASSUME Inv, NEW r \in Requests, Dispatch(r)
  PROVE  PlaceInv'
<1> USE NoneIsNothing
<1> DEFINE n == next[r]
           v == RunnerPC(n)
<1>1. pc \in [Requests -> PCs] /\ pending \in [Chats -> Requests \cup {None}]
  BY DEF Inv, RunnerInv, Typed
<1>2. /\ pc[r] = "greeting" /\ r \in Runners
      /\ pc' = [pc EXCEPT ![r] = "over", ![n] = v] /\ v \in {"downloading", "futile"}
      /\ dispatched' = dispatched \cup {n}
      /\ next' = [next EXCEPT ![r] = None]
      /\ UNCHANGED <<up, pending, queue, snapshot>>
  BY DEF Dispatch, Runners, RunnerPC
<1>3. next \in [Requests -> Requests \cup {None}] /\ n # None
  BY <1>2 DEF Inv, PlaceInv, Lines, HandOffs
<1> HIDE DEF n, v
<1>4. /\ n \in Requests /\ pc[n] \in Behind /\ n # r
      /\ \A i \in DOMAIN queue : queue[i] # n /\ queue[i] # r
  BY <1>2, <1>3 DEF Inv, PlaceInv, PoppedWait, QueuedWait, n
<1>5. next' = NoEntries
  BY <1>2, <1>3, OnePops DEF NoEntries
<1>6. /\ pc' \in [Requests -> PCs] /\ pc'[r] = "over" /\ pc'[n] = v
      /\ \A q \in Requests \ {r, n} : pc'[q] = pc[q]
  BY <1>1, <1>2, <1>4
<1>7. \A q \in Requests \ {r} : pc[q] \notin HandingOff
  BY <1>2, OnePops DEF Inv, PlaceInv, HandOffs
<1>8. Lines'
  BY <1>2, <1>4, <1>5 DEF Inv, PlaceInv, Lines, NoEntries
<1>9. HandOffs'
  BY <1>2, <1>5, <1>6, <1>7 DEF HandOffs, NoEntries
<1>10. QueuedWait' /\ QueuedOnce'
  BY <1>2, <1>4, <1>6 DEF Inv, PlaceInv, Lines, QueuedWait, QueuedOnce
<1>11. PoppedWait'
  BY <1>5 DEF PoppedWait, NoEntries
<1>12. Dispatched'
  BY <1>2, <1>6 DEF Inv, PlaceInv, Lines, Dispatched
<1>13. MenusShow'
  BY <1>1, <1>2, <1>4, <1>6 DEF Inv, PlaceInv, MenusShow
<1>14. up
  BY <1>2 DEF Inv, PlaceInv, DownInv
<1>15. Kept' /\ DownInv'
  BY <1>2, <1>14 DEF Inv, PlaceInv, Kept, DownInv
<1> QED
  BY <1>8, <1>9, <1>10, <1>11, <1>12, <1>13, <1>15 DEF PlaceInv

-----------------------------------------------------------------------------
(* The process.                                                            *)

LEMMA DownPlace ==
  ASSUME Inv, Terminate \/ Killed
  PROVE  PlaceInv'
<1> USE NoneIsNothing
<1>1. /\ up /\ ~up' /\ queue' = <<>> /\ next' = NoEntries /\ dispatched' = dispatched
      /\ pending' = NoMenus
      /\ pc' = [q \in Requests |-> IF pc[q] = "unused" THEN "unused" ELSE "over"]
      /\ snapshot' \in {queue, snapshot}
  BY DEF Terminate, Killed, Down
<1>2. snapshot = None
  BY <1>1 DEF Inv, PlaceInv, Kept
<1>3. Lines' /\ HandOffs'
  BY <1>1, <1>2 DEF Inv, PlaceInv, Lines, HandOffs, NoEntries
<1>4. QueuedWait' /\ QueuedOnce' /\ PoppedWait' /\ MenusShow'
  BY <1>1 DEF QueuedWait, QueuedOnce, PoppedWait, MenusShow, NoEntries, NoMenus
<1>5. Dispatched'
  BY <1>1 DEF Inv, PlaceInv, Lines, Dispatched
<1>6. DownInv'
  BY <1>1 DEF DownInv
<1>7. Kept'
  <2> SUFFICES ASSUME snapshot' # None
               PROVE  /\ \A i, j \in DOMAIN queue : queue[i] = queue[j] => i = j
                      /\ \A i \in DOMAIN queue : pc'[queue[i]] = "over" /\ queue[i] \notin dispatched
    BY <1>1, <1>2 DEF Kept
  <2>1. \A i \in DOMAIN queue :
          queue[i] \in Requests /\ pc[queue[i]] \in Behind /\ queue[i] \notin dispatched
    BY DEF Inv, PlaceInv, Lines, QueuedWait, Dispatched
  <2> QED
    BY <1>1, <2>1 DEF Inv, PlaceInv, QueuedOnce
<1> QED
  BY <1>3, <1>4, <1>5, <1>6, <1>7 DEF PlaceInv

LEMMA StartPlace ==
  ASSUME Inv, Start
  PROVE  PlaceInv'
<1> USE NoneIsNothing
<1>1. pc \in [Requests -> PCs] /\ pending \in [Chats -> Requests \cup {None}]
  BY DEF Inv, RunnerInv, Typed
<1>2. ~up /\ up' /\ snapshot' = None /\ UNCHANGED <<pending, next, dispatched>>
  BY DEF Start
<1>3. queue = <<>> /\ \A q \in Requests : pc[q] \in {"unused", "over"}
  BY <1>2 DEF Inv, PlaceInv, DownInv
<1>4. next \in [Requests -> Requests \cup {None}] /\ \A q \in Requests : next[q] = None
  BY <1>3 DEF Inv, PlaceInv, Lines, HandOffs
<1>5. \A c \in Chats : pending[c] = None
  BY <1>1, <1>3 DEF Inv, PlaceInv, MenusShow
<1>6. DownInv' /\ Kept' /\ PoppedWait' /\ MenusShow'
  BY <1>2, <1>4, <1>5 DEF DownInv, Kept, PoppedWait, MenusShow
<1>7. CASE snapshot = None
  BY <1>1, <1>2, <1>3, <1>4, <1>6, <1>7
     DEF Start, Inv, PlaceInv, Lines, HandOffs, QueuedWait, QueuedOnce, Dispatched
<1>8. CASE snapshot # None
  <2>1. /\ snapshot \in Seq(Requests)
        /\ \A i, j \in DOMAIN snapshot : snapshot[i] = snapshot[j] => i = j
        /\ \A i \in DOMAIN snapshot :
             snapshot[i] \in Requests /\ pc[snapshot[i]] = "over" /\ snapshot[i] \notin dispatched
    BY <1>8 DEF Inv, PlaceInv, Lines, Kept
  <2>2. /\ queue' = snapshot
        /\ pc' = [q \in Requests |->
                    IF \E i \in DOMAIN snapshot : snapshot[i] = q THEN "restored" ELSE pc[q]]
    BY <1>8, <2>1, LenProperties DEF Start
  <2>3. Lines'
    BY <1>2, <1>4, <2>1, <2>2 DEF Inv, PlaceInv, Lines
  <2>4. HandOffs'
    BY <1>2, <1>3, <1>4, <2>2 DEF HandOffs
  <2>5. QueuedWait' /\ QueuedOnce'
    BY <2>1, <2>2 DEF QueuedWait, QueuedOnce
  <2>6. Dispatched'
    BY <1>2, <2>1, <2>2 DEF Inv, PlaceInv, Lines, Dispatched
  <2> QED
    BY <1>6, <2>3, <2>4, <2>5, <2>6 DEF PlaceInv
<1> QED
  BY <1>7, <1>8

-----------------------------------------------------------------------------
\* Everybody keeps a place of their own, step by step.
LEMMA InvNext == Inv /\ [Next]_vars => Inv'
<1> SUFFICES ASSUME Inv, [Next]_vars
             PROVE  PlaceInv'
  BY RunnerNext, MenuNext DEF Inv
<1>1. ASSUME NEW r \in Requests, RequestStep(r)
      PROVE  PlaceInv'
  <2>1. CASE \/ RequestBegin(r) \/ MenuShown(r) \/ MenuFails(r)
             \/ AnnounceFails(r) \/ Notified(r)
    BY <2>1, MenusMove
  <2>2. CASE SelectDownload(r)
    BY <2>2, MenusMove, SelectionPlace
  <2>3. CASE SelectMenu(r)
    BY <2>3, SelectionPlace
  <2>4. CASE Expire(r) \/ AnnounceSent(r)
    BY <2>4, ExpirePlace, JoinPlace
  <2>5. CASE DownloadEnds(r) \/ NotifyRaises(r) \/ Dispatch(r)
    BY <2>5, EndPlace, RaisePlace, DispatchPlace
  <2> QED
    BY <1>1, <2>1, <2>2, <2>3, <2>4, <2>5 DEF RequestStep, RunnerStep
<1>2. ASSUME NEW c \in Chats, Cancel(c)
      PROVE  PlaceInv'
  BY <1>2, CancelPlace
<1>3. CASE Terminate \/ Killed \/ Start
  BY <1>3, DownPlace, StartPlace
<1>4. CASE UNCHANGED vars
  BY <1>4 DEF vars, Inv, PlaceInv, Lines, HandOffs, QueuedWait, QueuedOnce, PoppedWait,
              Dispatched, MenusShow, Kept, DownInv
<1> QED
  BY <1>1, <1>2, <1>3, <1>4 DEF Next

LEMMA InvHolds == Spec => []Inv
<1>1. Init => Inv
  BY InitInv, InitPlace DEF Inv
<1> QED
  BY <1>1, InvNext, PTL DEF Spec

\* A selected request is dispatched at most once, whatever hand-offs, cancels
\* and restarts follow it: who was dispatched has left the queue, the hands of
\* the runner, the menus and the file (rub.py 538-579, 1142-1163).
THEOREM DispatchedOnceHolds == Spec => []DispatchedOnce
<1>1. ASSUME Inv
      PROVE  DispatchedOnce
  <2>1. /\ queue \in Seq(Requests)
        /\ DOMAIN queue = 1 .. Len(queue)
        /\ \A r \in Requests : next[r] \in Requests \cup {None}
        /\ pending \in [Chats -> Requests \cup {None}]
    BY <1>1, LenProperties DEF Inv, PlaceInv, Lines, RunnerInv, Typed
  <2>2. \A q \in InQueue : q \in Requests /\ pc[q] \in Behind /\ q \notin Popped
    BY <1>1, <2>1 DEF Inv, PlaceInv, QueuedWait, PoppedWait, InQueue, Popped
  <2>3. \A q \in Popped : q \in Requests /\ pc[q] \in Behind
    BY <1>1, <2>1 DEF Inv, PlaceInv, PoppedWait, Popped
  <2>4. \A q \in Line : pc[q] \in Behind \cup {"announcing"}
    BY <2>2, <2>3 DEF Line
  <2>5. \A q \in dispatched : pc[q] \in RunnerPCs \cup {"over"}
    BY <1>1 DEF Inv, PlaceInv, Dispatched
  <2>6. Line \cap dispatched = {}
    BY <2>4, <2>5
  <2>7. InQueue \cap (Popped \cup {r \in Requests : pc[r] = "announcing"}) = {}
    BY <2>2
  <2>8. \A i, j \in 1 .. Len(queue) : queue[i] = queue[j] => i = j
    BY <1>1, <2>1 DEF Inv, PlaceInv, QueuedOnce
  <2>9. \A c \in Chats : pending[c] # None =>
          pc[pending[c]] = "shown" /\ pending[c] \notin dispatched \cup Line
    BY <1>1, <2>4, <2>5 DEF Inv, PlaceInv, MenusShow
  <2>10. snapshot # None => \A i \in 1 .. Len(snapshot) : snapshot[i] \notin dispatched
    BY <1>1, LenProperties DEF Inv, PlaceInv, Lines, Kept
  <2> QED
    BY <2>6, <2>7, <2>8, <2>9, <2>10 DEF DispatchedOnce
<1> QED
  BY InvHolds, <1>1, PTL

-----------------------------------------------------------------------------
(* The line.                                                               *)

Serves(r) == [does |-> "serves", whom |-> r]
Calls(r)  == [does |-> "calls", whom |-> r]

\* Since there is one runner, it says what the service is.
LEMMA ServiceOfRunner ==
  ASSUME OneRunner, NEW r \in Runners
  PROVE  Service = IF next[r] = None THEN Serves(r) ELSE Calls(next[r])
<1>1. Runners # {} /\ (CHOOSE q \in Runners : TRUE) = r
  BY DEF OneRunner
<1> QED
  BY <1>1 DEF Service, Serves, Calls

LEMMA ServiceOfNextRunner ==
  ASSUME OneRunner', NEW r, r \in Runners'
  PROVE  Service' = IF next'[r] = None THEN Serves(r) ELSE Calls(next'[r])
<1>1. Runners' # {} /\ (CHOOSE q \in Runners' : TRUE) = r
  BY DEF OneRunner
<1> QED
  BY <1>1 DEF Service, Serves, Calls

\* Menus, announcements that fail and the steps within a hand-off do not show.
LEMMA ServiceStays ==
  ASSUME Runners' = Runners, UNCHANGED <<busy, next>>
  PROVE  Service' = Service
BY DEF Service

LEMMA HiddenStep ==
  ASSUME Inv, NEW r \in Requests,
         \/ RequestBegin(r) \/ MenuShown(r) \/ MenuFails(r) \/ SelectMenu(r)
         \/ AnnounceFails(r) \/ Notified(r) \/ Expire(r) \/ (SelectDownload(r) /\ busy)
  PROVE  UNCHANGED <<queue, Service, dispatched, snapshot, up>>
<1>1. pc \in [Requests -> PCs] /\ pending \in [Chats -> Requests \cup {None}]
  BY DEF Inv, RunnerInv, Typed
<1>2. UNCHANGED <<queue, dispatched, snapshot, up, next, busy>>
  BY DEF Inv, RunnerInv, Typed, RequestBegin, MenuShown, MenuFails, SelectMenu,
         AnnounceFails, Notified, Expire, SelectDownload
<1>3. pending[Chat[r]] = r => pc[r] = "shown"
  BY <1>1, ChatOfRequest, NoneIsNothing DEF Inv, PlaceInv, MenusShow
<1>4. Runners' = Runners
  BY <1>1, <1>3 DEF Runners, RequestBegin, MenuShown, MenuFails, SelectMenu,
                    AnnounceFails, Notified, Expire, SelectDownload
<1> QED
  BY <1>2, <1>4, ServiceStays

\* A selection that finds the bot idle enters.
LEMMA EnterStep ==
  ASSUME Inv, Inv', NEW r \in Requests, SelectDownload(r), ~busy
  PROVE  DownloadLine!Enter(r)
<1> USE NoneIsNothing
<1>1. pc \in [Requests -> PCs] /\ pending \in [Chats -> Requests \cup {None}]
  BY DEF Inv, RunnerInv, Typed
<1>2. pc[r] = "shown" /\ up
  BY <1>1, ChatOfRequest DEF Inv, PlaceInv, MenusShow, DownInv, SelectDownload
<1>3. /\ pc' = [pc EXCEPT ![r] = "downloading"]
      /\ dispatched' = dispatched \cup {r}
      /\ UNCHANGED <<up, queue, next, snapshot>>
  BY DEF SelectDownload
<1>4. Runners = {}
  BY DEF Inv, RunnerInv, OneRunner
<1>5. Service = DownloadLine!Idle
  BY <1>4 DEF Service, DownloadLine!Idle
<1>6. r \notin dispatched /\ \A i \in DOMAIN queue : queue[i] # r
  BY <1>2 DEF Inv, PlaceInv, Dispatched, QueuedWait
<1>7. DownloadLine!Fresh(r)
  BY <1>5, <1>6 DEF DownloadLine!Fresh, DownloadLine!Waiting, DownloadLine!Idle,
                    DownloadLine!Calls
<1>8. r \in Runners' /\ next'[r] = None
  BY <1>1, <1>2, <1>3 DEF Runners, Inv, PlaceInv, HandOffs
<1>9. Service' = Serves(r)
  BY <1>8, ServiceOfNextRunner DEF Inv, RunnerInv
<1> QED
  BY <1>2, <1>3, <1>5, <1>7, <1>9
  DEF DownloadLine!Enter, DownloadLine!Begin, DownloadLine!Serves, Serves

\* An announced entry joins at the end.
LEMMA JoinStep ==
  ASSUME Inv, Inv', NEW r \in Requests, AnnounceSent(r)
  PROVE  DownloadLine!Join(r)
<1> USE NoneIsNothing
<1> DEFINE f == [pc EXCEPT ![r] = "waiting"]
<1>1. pc \in [Requests -> PCs]
  BY DEF Inv, RunnerInv, Typed
<1>2. /\ pc[r] = "announcing" /\ queue' = Append(queue, r) /\ pc' = Mutated(f)
      /\ UNCHANGED <<up, busy, next, snapshot, dispatched>>
  BY DEF AnnounceSent
<1>3. f \in [Requests -> PCs] /\ \A q \in Requests : f[q] = IF q = r THEN "waiting" ELSE pc[q]
  BY <1>1
<1> HIDE DEF f
<1>4. Runners' = Runners
  BY <1>2, <1>3, MutatedPlace DEF Runners
<1>5. Service' = Service
  BY <1>2, <1>4, ServiceStays
<1>6. up /\ r \notin dispatched /\ \A i \in DOMAIN queue : queue[i] # r
  BY <1>2 DEF Inv, PlaceInv, Dispatched, QueuedWait, DownInv
<1>7. Service # Calls(r)
  <2>1. CASE Runners = {}
    BY <2>1 DEF Service, Calls
  <2>2. ASSUME NEW q \in Runners
        PROVE  Service # Calls(r)
    <3>1. next[q] # r
      BY <1>2 DEF Inv, PlaceInv, PoppedWait, Runners
    <3>2. Service = Serves(q) \/ Service = Calls(next[q])
      BY ServiceOfRunner DEF Inv, RunnerInv
    <3> QED
      BY <3>1, <3>2 DEF Serves, Calls
  <2> QED
    BY <2>1, <2>2
<1>8. DownloadLine!Fresh(r)
  BY <1>6, <1>7 DEF DownloadLine!Fresh, DownloadLine!Waiting, DownloadLine!Calls, Calls
<1> QED
  BY <1>2, <1>5, <1>6, <1>8 DEF DownloadLine!Join

\* Some of the entries leave.
LEMMA LeaveStep ==
  ASSUME Inv, Inv', NEW c \in Chats, Cancel(c)
  PROVE  DownloadLine!Leave
<1>1. pc \in [Requests -> PCs] /\ queue \in Seq(Requests)
  BY DEF Inv, RunnerInv, Typed, PlaceInv, Lines
<1>2. up /\ UNCHANGED <<up, busy, next, snapshot, dispatched>>
  BY DEF Cancel
<1>3. Runners' = Runners
  <2>1. CASE queue = <<>>
    BY <2>1 DEF Cancel, Runners
  <2>2. CASE queue # <<>>
    <3>1. pc' = Mutated(pc)
      BY <2>2 DEF Cancel
    <3> QED
      BY <1>1, <3>1, MutatedPlace DEF Runners
  <2> QED
    BY <2>1, <2>2
<1>4. Service' = Service
  BY <1>2, <1>3, ServiceStays
<1> DEFINE others == {i \in DOMAIN queue : Chat[queue[i]] # c}
           n == Cardinality(others)
<1>5. n \in 0 .. Len(queue)
  <2>1. DOMAIN queue = 1 .. Len(queue) /\ Len(queue) \in Nat
    BY <1>1, LenProperties
  <2>2. IsFiniteSet(DOMAIN queue) /\ Cardinality(DOMAIN queue) = Len(queue)
    <3> DEFINE l == Len(queue)
    <3>1. l \in Nat /\ DOMAIN queue = 1 .. l
      BY <2>1
    <3> HIDE DEF l
    <3>2. IsFiniteSet(1 .. l) /\ Cardinality(1 .. l) = IF 1 > l THEN 0 ELSE l - 1 + 1
      BY <3>1, FS_Interval
    <3>3. Cardinality(1 .. l) = l
      BY <3>1, <3>2
    <3> QED
      BY <3>1, <3>2, <3>3 DEF l
  <2>3. IsFiniteSet(others) /\ Cardinality(others) <= Cardinality(DOMAIN queue)
    BY <2>2, FS_Subset
  <2> QED
    BY <2>1, <2>2, <2>3, FS_CardinalityType
<1>6. PICK place \in [1 .. n -> others] :
        /\ \A i, j \in DOMAIN place : i < j => place[i] < place[j]
        /\ queue' = [i \in DOMAIN place |-> queue[place[i]]]
  BY DEF Cancel, WithoutChat
<1>7. place \in [1 .. n -> DOMAIN queue] /\ DOMAIN place = 1 .. n
  BY <1>6
<1> HIDE DEF n
<1> QED
  BY <1>2, <1>4, <1>5, <1>6, <1>7 DEF DownloadLine!Leave

\* The end of a download calls the first of the line, or rests.
LEMMA EndStep ==
  ASSUME Inv, Inv', NEW r \in Requests, DownloadEnds(r)
  PROVE  DownloadLine!Call \/ DownloadLine!Rest
<1> USE NoneIsNothing
<1>1. pc \in [Requests -> PCs] /\ queue \in Seq(Requests)
      /\ next \in [Requests -> Requests \cup {None}]
  BY DEF Inv, RunnerInv, Typed, PlaceInv, Lines
<1>2. /\ pc[r] \in {"downloading", "futile"} /\ r \in Runners /\ next[r] = None
      /\ UNCHANGED <<up, snapshot, dispatched>>
  BY DEF DownloadEnds, Runners, Inv, PlaceInv, HandOffs
<1>3. Service = Serves(r)
  BY <1>2, ServiceOfRunner DEF Inv, RunnerInv
<1>4. CASE queue = <<>>
  <2>1. ~busy' /\ pc' = [pc EXCEPT ![r] = "over"] /\ UNCHANGED queue
    BY <1>4 DEF DownloadEnds
  <2>2. Runners' = {}
    BY <2>1 DEF Inv, RunnerInv, OneRunner
  <2>3. Service' = DownloadLine!Idle
    BY <2>1, <2>2 DEF Service, DownloadLine!Idle
  <2> QED
    BY <1>2, <1>3, <1>4, <2>1, <2>3 DEF DownloadLine!Rest, Serves
<1>5. CASE queue # <<>>
  <2> DEFINE n == Head(queue)
  <2>1. next' = [next EXCEPT ![r] = n] /\ queue' = Tail(queue)
    BY <1>5 DEF DownloadEnds
  <2>2. n \in Requests /\ n # None
    BY <1>1, <1>5, HeadTailProperties
  <2> HIDE DEF n
  <2>3. pc' = [pc EXCEPT ![r] = IF Tail(queue) = <<>> THEN "greeting" ELSE "notifying"]
    BY <1>5 DEF DownloadEnds
  <2>4. r \in Runners' /\ next'[r] = n
    BY <1>1, <2>1, <2>3 DEF Runners
  <2>5. Service' = Calls(n)
    BY <2>2, <2>4, ServiceOfNextRunner DEF Inv, RunnerInv
  <2> QED
    BY <1>2, <1>3, <1>5, <2>1, <2>5
    DEF n, DownloadLine!Call, DownloadLine!Calls, Serves, Calls
<1> QED
  BY <1>4, <1>5

LEMMA RaiseStep ==
  ASSUME Inv, Inv', NEW r \in Requests, NotifyRaises(r)
  PROVE  DownloadLine!Hang
<1> USE NoneIsNothing
<1>1. /\ r \in Runners /\ next[r] # None /\ busy
      /\ pc' = [pc EXCEPT ![r] = "over"]
      /\ UNCHANGED <<up, queue, busy, snapshot, dispatched>>
  BY DEF NotifyRaises, Runners, Inv, PlaceInv, HandOffs, RunnerInv, OneRunner
<1>2. Service = Calls(next[r])
  BY <1>1, ServiceOfRunner DEF Inv, RunnerInv
<1>3. Runners' = {}
  BY <1>1 DEF Inv, RunnerInv, Typed, OneRunner, Runners
<1>4. Service' = DownloadLine!Stuck
  BY <1>1, <1>3 DEF Service, DownloadLine!Stuck
<1> QED
  BY <1>1, <1>2, <1>4 DEF DownloadLine!Hang, Calls

LEMMA ServeStep ==
  ASSUME Inv, Inv', NEW r \in Requests, Dispatch(r)
  PROVE  DownloadLine!Serve
<1> USE NoneIsNothing
<1> DEFINE n == next[r]
           v == RunnerPC(n)
<1>1. pc \in [Requests -> PCs] /\ next \in [Requests -> Requests \cup {None}]
  BY DEF Inv, RunnerInv, Typed, PlaceInv, Lines
<1>2. /\ r \in Runners /\ pc[r] = "greeting" /\ n # None
      /\ pc' = [pc EXCEPT ![r] = "over", ![n] = v] /\ v \in {"downloading", "futile"}
      /\ dispatched' = dispatched \cup {n}
      /\ next' = [next EXCEPT ![r] = None]
      /\ UNCHANGED <<up, queue, snapshot>>
  BY DEF Dispatch, Runners, RunnerPC, Inv, PlaceInv, HandOffs
<1>3. Service = Calls(n)
  BY <1>2, ServiceOfRunner DEF Inv, RunnerInv
<1>4. n \in Requests /\ pc[n] \in Behind
  BY <1>1, <1>2 DEF Inv, PlaceInv, PoppedWait
<1> HIDE DEF n, v
<1>5. next[n] = None /\ n # r
  BY <1>2, <1>4 DEF Inv, PlaceInv, HandOffs
<1>6. n \in Runners' /\ next'[n] = None
  BY <1>1, <1>2, <1>4, <1>5 DEF Runners
<1>7. Service' = Serves(n)
  BY <1>6, ServiceOfNextRunner DEF Inv, RunnerInv
<1> QED
  BY <1>2, <1>3, <1>7 DEF DownloadLine!Serve, DownloadLine!Begin, DownloadLine!Serves, Calls, Serves

LEMMA CloseStep ==
  ASSUME Terminate \/ Killed
  PROVE  DownloadLine!Close
<1>1. /\ up /\ ~up' /\ queue' = <<>> /\ ~busy' /\ dispatched' = dispatched
      /\ pc' = [q \in Requests |-> IF pc[q] = "unused" THEN "unused" ELSE "over"]
      /\ snapshot' \in {queue, snapshot} /\ up' = FALSE
  BY DEF Terminate, Killed, Down
<1>2. Runners' = {}
  BY <1>1 DEF Runners
<1>3. Service' = DownloadLine!Idle
  BY <1>1, <1>2 DEF Service, DownloadLine!Idle
<1> QED
  BY <1>1, <1>3 DEF DownloadLine!Close

LEMMA OpenStep ==
  ASSUME Inv, Start
  PROVE  DownloadLine!Open
<1>1. ~up /\ up' = TRUE /\ snapshot' = None /\ UNCHANGED <<busy, next, dispatched>>
  BY DEF Start
<1>2. queue' = IF snapshot = None THEN <<>> ELSE snapshot
  BY <1>1 DEF Start, Inv, PlaceInv, DownInv
<1>3. Runners = {}
  BY <1>1 DEF Runners, Inv, PlaceInv, DownInv
<1>4. Runners' = {}
  BY <1>3 DEF Runners, Start
<1>5. Service' = Service
  BY <1>1, <1>3, <1>4, ServiceStays
<1> QED
  BY <1>1, <1>2, <1>5 DEF DownloadLine!Open

LEMMA LineNext == Inv /\ Inv' /\ [Next]_vars => [DownloadLine!Next]_(DownloadLine!vars)
<1> SUFFICES ASSUME Inv, Inv', [Next]_vars
             PROVE  DownloadLine!Next \/ UNCHANGED <<queue, Service, dispatched, snapshot, up>>
  BY DEF DownloadLine!vars
<1>1. ASSUME NEW r \in Requests, RequestStep(r)
      PROVE  DownloadLine!Next \/ UNCHANGED <<queue, Service, dispatched, snapshot, up>>
  <2>1. CASE \/ RequestBegin(r) \/ MenuShown(r) \/ MenuFails(r) \/ SelectMenu(r)
             \/ AnnounceFails(r) \/ Notified(r) \/ Expire(r) \/ (SelectDownload(r) /\ busy)
    BY <2>1, HiddenStep
  <2>2. CASE SelectDownload(r) /\ ~busy
    BY <2>2, EnterStep DEF DownloadLine!Next
  <2>3. CASE AnnounceSent(r)
    BY <2>3, JoinStep DEF DownloadLine!Next
  <2>4. CASE DownloadEnds(r) \/ NotifyRaises(r) \/ Dispatch(r)
    BY <2>4, EndStep, RaiseStep, ServeStep DEF DownloadLine!Next
  <2> QED
    BY <1>1, <2>1, <2>2, <2>3, <2>4 DEF RequestStep, RunnerStep
<1>2. ASSUME NEW c \in Chats, Cancel(c)
      PROVE  DownloadLine!Next
  BY <1>2, LeaveStep DEF DownloadLine!Next
<1>3. CASE Terminate \/ Killed \/ Start
  BY <1>3, CloseStep, OpenStep DEF DownloadLine!Next
<1>4. CASE UNCHANGED vars
  BY <1>4 DEF vars, Service, Runners
<1> QED
  BY <1>1, <1>2, <1>3, <1>4 DEF Next

LEMMA InitLine == Init => DownloadLine!Init
<1> SUFFICES ASSUME Init
             PROVE  DownloadLine!Init
  OBVIOUS
<1>1. Runners = {} /\ ~busy
  BY DEF Init, Runners
<1>2. Service = DownloadLine!Idle
  BY <1>1 DEF Service, DownloadLine!Idle
<1> QED
  BY <1>2 DEF Init, DownloadLine!Init

\* The bot implements the line: menus, announcements, selections that race,
\* hand-offs, cancels and restarts never let one request pass another, serve
\* two at a time or lose a line that was written down (rub.py 101-142, 538-579,
\* 1142-1163).
THEOREM LineImplemented == Spec => ImplementsLine
BY InvHolds, InitLine, LineNext, PTL DEF Spec, ImplementsLine, DownloadLine!Spec

=============================================================================
