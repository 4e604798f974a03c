------------------------------ MODULE BotQueue ------------------------------
(***************************************************************************)
(* The menus and the download queue of the legacy bot (rub.py), and the    *)
(* snapshot that carries the queue over a restart.                         *)
(*                                                                         *)
(* The bot is one asyncio process: every command is handled by a task of   *)
(* its own, a menu has a timer task, and one runner task at a time runs a  *)
(* download and hands off to the next request.  An action is the code from *)
(* one await to the next.                                                  *)
(*                                                                         *)
(* A request is one menu that is shown to a chat, and the download that a  *)
(* selection from it may lead to.  The commands (!download, !spotify,      *)
(* !tidal, !qobuz, !amazon, !search) and the menus that lead to further    *)
(* menus (results, artist, albums, audio quality) differ here only in what *)
(* they do to the chat's older menu.  The access check and the rate limit, *)
(* which may refuse a command, are left out, and so are the batch          *)
(* downloads, which bypass the queue.                                      *)
(***************************************************************************)
EXTENDS Naturals, Sequences, FiniteSets

CONSTANTS
  Requests,
  Chats,
  Chat,         \* Chat[r]: the chat (object_guid) of the request
  MaxRestarts,  \* bound on the number of times the bot goes down
  None

ASSUME ChatOfRequest == Chat \in [Requests -> Chats]
ASSUME NoneIsNothing == None \notin Requests
ASSUME MaxRestartsIsNat == MaxRestarts \in Nat

VARIABLES
  up,          \* the process is running
  pc,          \* pc[r]: where the task that carries request r is
  pending,     \* pending_selections: the menu each chat may select from
  timers,      \* requests whose menu has a live _expire_selection task
  queue,       \* download_queue
  busy,        \* is_downloading
  next,        \* next[r]: next_entry, which runner r has popped
  snapshot,    \* queue_snapshot.json, None if there is no such file
  dispatched,  \* requests whose runner was ever created
  restarts

vars == <<up, pc, pending, timers, queue, busy, next, snapshot, dispatched, restarts>>

-----------------------------------------------------------------------------
\* fetching, searching: the command looks up what it will offer.
\* shown: the menu is on the screen (and may or may not be pending).
\* announcing: the bot is busy; the position is being sent to the user.
\* waiting: in the queue or popped from it; restored: the same, but from the
\*   snapshot, which keeps neither the URL nor the choice.
\* downloading, futile: a runner with a download, or with a restored entry.
\* notifying: the runner edits the messages of those who wait.  mutated: the
\*   same, after the deque it iterates over has changed.
\* greeting: the runner tells the user of the entry it popped, and sleeps.
RunnerPCs == {"downloading", "futile", "notifying", "mutated", "greeting"}
PCs == {"unused", "fetching", "searching", "shown", "announcing", "waiting",
        "restored", "over"} \cup RunnerPCs

Runners == {r \in Requests : pc[r] \in RunnerPCs}
InQueue == {queue[i] : i \in 1 .. Len(queue)}
Popped  == {next[r] : r \in Requests} \ {None}

\* The requests that may still be dispatched without a new selection.
Line == InQueue \cup Popped \cup {r \in Requests : pc[r] = "announcing"}

\* asyncio tasks and deques do not survive the process.
NoMenus   == [c \in Chats |-> None]
NoEntries == [r \in Requests |-> None]

Init ==
  /\ up = TRUE
  /\ pc = [r \in Requests |-> "unused"]
  /\ pending = NoMenus
  /\ timers = {}
  /\ queue = <<>>
  /\ busy = FALSE
  /\ next = NoEntries
  /\ snapshot = None
  /\ dispatched = {}
  /\ restarts = 0

-----------------------------------------------------------------------------
(* Menus.                                                                  *)

\* pending_selections.pop(guid), and timeout_task.cancel() of what it held.
PopMenu(c) ==
  /\ pending' = [pending EXCEPT ![c] = None]
  /\ timers' = timers \ {pending[c]}

\* !download and !spotify <artist> drop the chat's older menu and look up
\* what to offer; the other commands do not drop it.
RequestBegin(r) ==
  /\ up
  /\ pc[r] = "unused"
  /\ \/ /\ pc' = [pc EXCEPT ![r] = "fetching"]
        /\ \/ PopMenu(Chat[r])
           \/ UNCHANGED <<pending, timers>>
     \/ /\ pc' = [pc EXCEPT ![r] = "searching"]
        /\ UNCHANGED <<pending, timers>>
  /\ UNCHANGED <<up, queue, busy, next, snapshot, dispatched, restarts>>

\* The menu goes out and is stored over whatever the chat has pending; the
\* timer of the menu that is overwritten stays.  Only !search pops the older
\* menu here.
MenuShown(r) ==
  /\ pc[r] \in {"fetching", "searching"}
  /\ pc' = [pc EXCEPT ![r] = "shown"]
  /\ pending' = [pending EXCEPT ![Chat[r]] = r]
  /\ timers' = IF pc[r] = "searching" THEN (timers \ {pending[Chat[r]]}) \cup {r}
                                      ELSE timers \cup {r}
  /\ UNCHANGED <<up, queue, busy, next, snapshot, dispatched, restarts>>

\* Nothing is found, or a provider or a message fails.
MenuFails(r) ==
  /\ pc[r] \in {"fetching", "searching"}
  /\ pc' = [pc EXCEPT ![r] = "over"]
  /\ UNCHANGED <<up, pending, timers, queue, busy, next, snapshot, dispatched, restarts>>

\* _expire_selection pops whatever the chat has pending when it wakes up, be
\* it another menu, whose own timer goes on.
Expire(r) ==
  /\ r \in timers
  /\ timers' = timers \ {r}
  /\ pending' = [pending EXCEPT ![Chat[r]] = None]
  /\ UNCHANGED <<up, pc, queue, busy, next, snapshot, dispatched, restarts>>

\* A selection that leads to another menu n, or to something outside the
\* queue.
SelectMenu(r) ==
  /\ pending[Chat[r]] = r
  /\ PopMenu(Chat[r])
  /\ \/ pc' = [pc EXCEPT ![r] = "over"]
     \/ \E n \in Requests :
          /\ pc[n] = "unused"
          /\ Chat[n] = Chat[r]
          /\ pc' = [pc EXCEPT ![r] = "over", ![n] = "fetching"]
  /\ UNCHANGED <<up, queue, busy, next, snapshot, dispatched, restarts>>

\* Mutant: an empty queue is taken for an idle bot.
SelectDownloadIfQueueEmpty(r) ==
  /\ pending[Chat[r]] = r
  /\ PopMenu(Chat[r])
  /\ busy' = TRUE
  /\ IF queue # <<>>
       THEN /\ pc' = [pc EXCEPT ![r] = "announcing"]
            /\ UNCHANGED dispatched
       ELSE /\ pc' = [pc EXCEPT ![r] = "downloading"]
            /\ dispatched' = dispatched \cup {r}
  /\ UNCHANGED <<up, queue, next, snapshot, restarts>>

\* A selection that asks for a download: the flag is checked and set in one
\* go.  A busy bot first sends the position in the queue.
SelectDownload(r) ==
  /\ pending[Chat[r]] = r
  /\ PopMenu(Chat[r])
  /\ busy' = TRUE
  /\ IF busy
       THEN /\ pc' = [pc EXCEPT ![r] = "announcing"]
            /\ UNCHANGED dispatched
       ELSE /\ pc' = [pc EXCEPT ![r] = "downloading"]
            /\ dispatched' = dispatched \cup {r}
  /\ UNCHANGED <<up, queue, next, snapshot, restarts>>

-----------------------------------------------------------------------------
(* The queue.                                                              *)

\* Where the runners are once the deque has changed: the next step of the
\* iteration in _notify_queue_positions raises.
Mutated(f) == [r \in Requests |-> IF f[r] = "notifying" THEN "mutated" ELSE f[r]]

\* Mutant: the entry goes to the wrong end of the deque.
AnnounceSentInFront(r) ==
  /\ pc[r] = "announcing"
  /\ queue' = <<r>> \o queue
  /\ pc' = Mutated([pc EXCEPT ![r] = "waiting"])
  /\ UNCHANGED <<up, pending, timers, busy, next, snapshot, dispatched, restarts>>

\* The position was sent and the entry goes to the end of the queue, whether
\* or not the bot is still busy.
AnnounceSent(r) ==
  /\ pc[r] = "announcing"
  /\ queue' = Append(queue, r)
  /\ pc' = Mutated([pc EXCEPT ![r] = "waiting"])
  /\ UNCHANGED <<up, pending, timers, busy, next, snapshot, dispatched, restarts>>

\* The send raises: the menu is consumed and nothing is queued.
AnnounceFails(r) ==
  /\ pc[r] = "announcing"
  /\ pc' = [pc EXCEPT ![r] = "over"]
  /\ UNCHANGED <<up, pending, timers, queue, busy, next, snapshot, dispatched, restarts>>

\* The queue without the entries of c: where each of the others was.
WithoutChat(c) ==
  LET others == {i \in DOMAIN queue : Chat[queue[i]] # c} IN
  \E place \in [1 .. Cardinality(others) -> others] :
    /\ \A i, j \in DOMAIN place : i < j => place[i] < place[j]
    /\ queue' = [i \in DOMAIN place |-> queue[place[i]]]

\* !cancel drops the chat's menu and its entries in the queue, by clear() and
\* extend(), which change a deque that was not empty even if all stays.
Cancel(c) ==
  /\ up
  /\ PopMenu(c)
  /\ WithoutChat(c)
  /\ pc' = IF queue = <<>> THEN pc ELSE Mutated(pc)
  /\ UNCHANGED <<up, busy, next, snapshot, dispatched, restarts>>

\* The end of a download, however it ends: the finally clause pops the next
\* entry or clears the flag.  With nobody left in the queue the iteration of
\* _notify_queue_positions has no await.
DownloadEnds(r) ==
  /\ pc[r] \in {"downloading", "futile"}
  /\ IF queue # <<>>
       THEN /\ next' = [next EXCEPT ![r] = Head(queue)]
            /\ queue' = Tail(queue)
            /\ pc' = [pc EXCEPT ![r] = IF Tail(queue) = <<>> THEN "greeting" ELSE "notifying"]
            /\ UNCHANGED busy
       ELSE /\ busy' = FALSE
            /\ pc' = [pc EXCEPT ![r] = "over"]
            /\ UNCHANGED <<queue, next>>
  /\ UNCHANGED <<up, pending, timers, snapshot, dispatched, restarts>>

\* All positions were sent; a message that fails is passed over.
Notified(r) ==
  /\ pc[r] = "notifying"
  /\ pc' = [pc EXCEPT ![r] = "greeting"]
  /\ UNCHANGED <<up, pending, timers, queue, busy, next, snapshot, dispatched, restarts>>

\* "deque mutated during iteration" leaves the finally clause: the popped
\* entry is gone and the flag stays.
NotifyRaises(r) ==
  /\ pc[r] = "mutated"
  /\ pc' = [pc EXCEPT ![r] = "over"]
  /\ next' = [next EXCEPT ![r] = None]
  /\ UNCHANGED <<up, pending, timers, queue, busy, snapshot, dispatched, restarts>>

\* The runner of a restored entry has no URL to download.
RunnerPC(n) == IF pc[n] = "restored" THEN "futile" ELSE "downloading"

\* Mutant: an entry that cannot be downloaded is skipped and ends the busy
\* period, whoever is behind it.
DispatchSkipsRestored(r) ==
  /\ pc[r] = "greeting"
  /\ LET n == next[r]
         started == pc[n] # "restored"
     IN  /\ pc' = [pc EXCEPT ![r] = "over", ![n] = IF started THEN "downloading" ELSE "over"]
         /\ dispatched' = IF started THEN dispatched \cup {n} ELSE dispatched
         /\ busy' = started
  /\ next' = [next EXCEPT ![r] = None]
  /\ UNCHANGED <<up, pending, timers, queue, snapshot, restarts>>

\* _dispatch_queue_entry: a runner for the popped entry; this one is done.
Dispatch(r) ==
  /\ pc[r] = "greeting"
  /\ pc' = [pc EXCEPT ![r] = "over", ![next[r]] = RunnerPC(next[r])]
  /\ dispatched' = dispatched \cup {next[r]}
  /\ next' = [next EXCEPT ![r] = None]
  /\ UNCHANGED <<up, pending, timers, queue, busy, snapshot, restarts>>

-----------------------------------------------------------------------------
(* The process.                                                            *)

\* Nothing of the process remains.  Requests in progress are over; the pc of
\* a request that was never made, or whose entry is in the file, is of use.
Down ==
  /\ up
  /\ restarts < MaxRestarts
  /\ restarts' = restarts + 1
  /\ up' = FALSE
  /\ pc' = [r \in Requests |-> IF pc[r] = "unused" THEN "unused" ELSE "over"]
  /\ pending' = NoMenus
  /\ timers' = {}
  /\ queue' = <<>>
  /\ busy' = FALSE
  /\ next' = NoEntries
  /\ UNCHANGED dispatched

\* SIGTERM, forwarded by main.py: the handler writes the queue, but not the
\* entry that was popped, and dies at once.
Terminate == Down /\ snapshot' = queue

\* SIGKILL, SIGINT or a crash, or a snapshot that cannot be written.
Killed == Down /\ UNCHANGED snapshot

\* Mutant: the file is left behind.
StartKeepsFile ==
  /\ ~up
  /\ up' = TRUE
  /\ IF snapshot = None
       THEN UNCHANGED <<queue, pc>>
       ELSE /\ queue' = snapshot
            /\ pc' = [r \in Requests |->
                        IF \E i \in 1 .. Len(snapshot) : snapshot[i] = r
                          THEN "restored" ELSE pc[r]]
  /\ UNCHANGED <<pending, timers, busy, next, snapshot, dispatched, restarts>>

\* The start restores the queue and removes the file.  Nothing starts the
\* restored entries until a new download has ended.  One step stands for all
\* of the start, although the handler of SIGTERM is installed before the queue
\* is restored; that the file cannot be removed, or was cut short by a write
\* that the end of the process interrupted, is left out.
Start ==
  /\ ~up
  /\ up' = TRUE
  /\ snapshot' = None
  /\ IF snapshot = None
       THEN UNCHANGED <<queue, pc>>
       ELSE /\ queue' = snapshot
            /\ pc' = [r \in Requests |->
                        IF \E i \in 1 .. Len(snapshot) : snapshot[i] = r
                          THEN "restored" ELSE pc[r]]
  /\ UNCHANGED <<pending, timers, busy, next, dispatched, restarts>>

-----------------------------------------------------------------------------
RunnerStep(r) ==
  DownloadEnds(r) \/ Notified(r) \/ NotifyRaises(r) \/ Dispatch(r)

RequestStep(r) ==
  \/ RequestBegin(r) \/ MenuShown(r) \/ MenuFails(r) \/ Expire(r)
  \/ SelectMenu(r) \/ SelectDownload(r) \/ AnnounceSent(r) \/ AnnounceFails(r)
  \/ RunnerStep(r)

Next ==
  \/ \E r \in Requests : RequestStep(r)
  \/ \E c \in Chats : Cancel(c)
  \/ Terminate \/ Killed \/ Start

Spec == Init /\ [][Next]_vars

\* Timers fire and a runner goes on.  That a download ends is an assumption
\* about yt-dlp and the providers: rub.py sets it no time limit.
Fairness ==
  \A r \in Requests : WF_vars(RunnerStep(r)) /\ WF_vars(Expire(r))

FairSpec == Spec /\ Fairness

-----------------------------------------------------------------------------
(* Properties.                                                             *)

\* "Only one download runs at a time", through hand-offs, cancellations and
\* restarts, and the flag is up for as long as its runner lives.
OneRunner ==
  /\ \A r, s \in Runners : r = s
  /\ Runners # {} => busy

\* A selected request is dispatched at most once: what is in the line, on the
\* screen or in the file has had no runner, and no request is in the line
\* twice, however selections, hand-offs, cancels and restarts follow.
DispatchedOnce ==
  /\ Line \cap dispatched = {}
  /\ InQueue \cap (Popped \cup {r \in Requests : pc[r] = "announcing"}) = {}
  /\ \A i, j \in 1 .. Len(queue) : queue[i] = queue[j] => i = j
  /\ \A c \in Chats : pending[c] # None =>
       pc[pending[c]] = "shown" /\ pending[c] \notin dispatched \cup Line
  /\ snapshot # None => \A i \in 1 .. Len(snapshot) : snapshot[i] \notin dispatched

\* Timers are kept with the menu that started them, so that a menu never
\* remains without one, whatever older menus of the chat expire or are popped.
MenusHaveTimers ==
  \A c \in Chats : pending[c] # None =>
    /\ Chat[pending[c]] = c
    /\ pending[c] \in timers

\* What a reader sees of the runners: the download that runs, the request that
\* is told it is next, or a flag with nobody behind it.
Service ==
  IF Runners = {} THEN [does |-> IF busy THEN "hangs" ELSE "nothing", whom |-> None]
  ELSE LET r == CHOOSE r \in Runners : TRUE IN
       IF next[r] = None THEN [does |-> "serves", whom |-> r]
       ELSE [does |-> "calls", whom |-> next[r]]

DownloadLine == INSTANCE DownloadLine
  WITH line <- queue, service <- Service, served <- dispatched, saved <- snapshot,
       open <- up

\* The bot implements the line it promises: whatever menus, selections,
\* announcements, cancels, hand-offs and restarts do between them, one request
\* is served at a time, nobody overtakes another in the queue or at a hand-off,
\* and a kept line comes back as it was (rub.py:101-142, 538-579, 1142-1163).
ImplementsLine == DownloadLine!Spec

\* The runner has gone and has left the flag behind it (see BusyMeansRunning).
Wedged == busy /\ Runners = {}

\* As long as no runner dies in its hand-off and the bot is up, every request
\* in the line is called, although more of them keep coming and some of the
\* runners are futile.
LineMoves ==
  \A r \in Requests :
    (r \in InQueue /\ Runners # {}) ~> (r \notin InQueue \/ Wedged \/ ~up)

-----------------------------------------------------------------------------
(* What the documents of the repository say, and the code does not do.     *)

\* _run_download_and_queue: "Run one download then hand off to the next entry
\* in the queue."  A bot that says it is busy has a runner.
BusyMeansRunning == busy => Runners # {}

=============================================================================
