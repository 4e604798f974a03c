------------------------------ MODULE YtNotify ------------------------------
(***************************************************************************)
(* Subscriptions to YouTube channels and the poll that announces their new  *)
(* videos (rubetunes/yt_notify.py and the !ytsub and !ytunsub handlers).    *)
(*                                                                         *)
(* subscribe_sync and unsubscribe_sync run in executor threads and do not   *)
(* take _state_lock; the poll runs on the event loop and copies the record  *)
(* before it fetches.  An action is what a thread or the loop does between  *)
(* two accesses to the record that they share.                              *)
(*                                                                         *)
(* _save_state is called by all of them at once: each writes what it has    *)
(* copied to the same .tmp file and moves that over the state file, so that *)
(* an older copy may come last, a move may fail, and a file cut short reads *)
(* as no record.  The model has no file: it is one life of the bot, which   *)
(* begins with any record.                                                  *)
(*                                                                         *)
(* Channels share nothing but the file: one is modelled.  Its videos are    *)
(* numbered in the order they appear.  The list of seen videos is a set;    *)
(* that it is cut at 50 is left out, and so are commands that one user      *)
(* gives at the same time.                                                  *)
(***************************************************************************)
EXTENDS Naturals, FiniteSets

CONSTANTS
  Users,
  SeedCount,   \* _SEED_COUNT
  PollCount,   \* _POLL_FETCH_COUNT
  MaxVideos,   \* bound on the videos of the channel
  None

VARIABLES
  published,  \* how many videos the channel has
  record,     \* the record of the channel in _state, None without one
  call,       \* call[u]: where the command of u is
  poll,       \* where the poll is, with its copies
  confirmed,  \* history: the users whose subscription stands, as they were told
  due,        \* history: due[u]: what appeared since u was confirmed, not yet announced
  heard,      \* history: heard[u][v]: announcements of v to u since he joined, up to 2
  overlooked  \* history: users who joined while a poll went on, or whose record was
              \* replaced or removed

history == <<confirmed, due, heard, overlooked>>
vars == <<published, record, call, poll, history>>

Videos == 1 .. MaxVideos

\* The last k videos when there were n of them.
LatestOf(n, k) == {v \in Videos : v <= n /\ v + k > n}
Latest(k) == LatestOf(published, k)

Asleep == [pc |-> "asleep", seen |-> {}, new |-> {}, to |-> {}]
Record == [subs : SUBSET Users, seen : SUBSET Videos]
SubscribersOf(r) == IF r = None THEN {} ELSE r.subs
SeenOf(r) == IF r = None THEN {} ELSE r.seen

Unheard == [v \in Videos |-> 0]

Init ==
  /\ published \in 0 .. MaxVideos
  /\ record \in [subs : SUBSET Users, seen : SUBSET Latest(published)] \cup {None}
  /\ call = [u \in Users |-> "idle"]
  /\ poll = Asleep
  /\ confirmed = {}
  /\ due = [u \in Users |-> {}]
  /\ heard = [u \in Users |-> Unheard]
  /\ overlooked = {}

\* The channel uploads a video.
Publish ==
  /\ published < MaxVideos
  /\ published' = published + 1
  /\ due' = [u \in Users |-> IF u \in confirmed THEN due[u] \cup {published'} ELSE due[u]]
  /\ UNCHANGED <<record, call, poll, confirmed, heard, overlooked>>

----------------------------------------------------------------------------
(* The commands                                                            *)

To(u, pc) == call' = [call EXCEPT ![u] = pc]

Command(u, pc) ==
  /\ call[u] = "idle"
  /\ To(u, pc)
  /\ UNCHANGED <<published, record, poll, history>>

Subscribe(u)   == Command(u, "resolving")
Unsubscribe(u) == Command(u, "leaving")

\* yt-dlp cannot resolve the channel, or the record has gone since the thread
\* looked for it or made it (KeyError).
Unresolved(u) ==
  /\ \/ call[u] \in {"resolving", "leaving"}
     \/ call[u] \in {"joining", "deleting"} /\ record = None
  /\ To(u, "idle")
  /\ UNCHANGED <<published, record, poll, history>>

\* A channel new to the bot: its last videos are fetched before it is
\* recorded.
Seed(u) ==
  /\ call[u] = "resolving"
  /\ record = None
  /\ To(u, "seeding")
  /\ UNCHANGED <<published, record, poll, history>>

\* Another record takes the place of the one there is, or none does; threads
\* that hold the one there is go on with it.
Replace(u, new, pc) ==
  /\ record' = new
  /\ call' = [v \in Users |-> IF v = u THEN pc
                             ELSE CASE call[v] = "holding" -> "astray"
                                    [] call[v] = "letting" -> "leaving astray"
                                    [] OTHER -> call[v]]
  /\ overlooked' = overlooked \cup SubscribersOf(record)
  /\ UNCHANGED <<published, poll, confirmed, due, heard>>

\* The new record may take the place of one that another thread has made
\* meanwhile.  A fetch that fails leaves an empty seed.
MakeRecord(u) ==
  /\ call[u] = "seeding"
  /\ \E seed \in {LatestOf(n, SeedCount) : n \in 0 .. published} :
       Replace(u, [subs |-> {}, seen |-> seed], "joining")

\* The record is looked up, to change its subscribers.
Hold(u) ==
  /\ record # None
  /\ \/ call[u] \in {"resolving", "joining"} /\ To(u, "holding")
     \/ call[u] = "leaving" /\ To(u, "letting")
  /\ UNCHANGED <<published, record, poll, history>>

Join(u) ==
  /\ call[u] = "holding" /\ record # None
  /\ IF u \in record.subs
     THEN To(u, "idle") /\ UNCHANGED <<record, confirmed, heard, overlooked>>
     ELSE /\ record' = [record EXCEPT !.subs = @ \cup {u}]
          /\ confirmed' = confirmed \ {u}
          /\ heard' = [heard EXCEPT ![u] = Unheard]
          /\ overlooked' = IF poll.pc = "asleep" THEN overlooked \ {u} ELSE overlooked \cup {u}
          /\ To(u, "added")
  /\ UNCHANGED <<published, poll, due>>

Leave(u) ==
  /\ call[u] = "letting" /\ record # None
  /\ IF u \notin record.subs
     THEN To(u, "idle") /\ UNCHANGED record
     ELSE /\ record' = [record EXCEPT !.subs = @ \ {u}]
          /\ To(u, IF record.subs = {u} THEN "deleting" ELSE "idle")
  /\ confirmed' = confirmed \ {u}
  /\ UNCHANGED <<published, poll, due, heard, overlooked>>

\* The same on a record that is no longer in _state.
JoinAstray(u) ==
  /\ call[u] = "astray"
  /\ To(u, "idle") \/ To(u, "added")
  /\ overlooked' = overlooked \cup {u}
  /\ UNCHANGED <<published, record, poll, confirmed, due, heard>>

LeaveAstray(u) ==
  /\ call[u] = "leaving astray"
  /\ To(u, "idle") \/ To(u, "deleting")
  /\ confirmed' = confirmed \ {u}
  /\ UNCHANGED <<published, record, poll, due, heard, overlooked>>

\* The record had no subscribers left, whichever is there now.
Delete(u) ==
  /\ call[u] = "deleting"
  /\ record # None
  /\ Replace(u, None, "idle")

\* The state is saved, and the handler tells the user.
Confirm(u) ==
  /\ call[u] = "added"
  /\ To(u, "idle")
  /\ confirmed' = confirmed \cup {u}
  /\ due' = [due EXCEPT ![u] = {}]
  /\ UNCHANGED <<published, record, poll, heard, overlooked>>

----------------------------------------------------------------------------
(* The poll                                                                *)

\* The record is copied under _state_lock.
Poll ==
  /\ poll.pc = "asleep"
  /\ SubscribersOf(record) # {}
  /\ poll' = [pc |-> "fetching", seen |-> record.seen, new |-> {}, to |-> record.subs]
  /\ UNCHANGED <<published, record, call, history>>

\* The fetch ends, with nothing when it fails.
Fetched ==
  /\ poll.pc = "fetching"
  /\ \E videos \in {Latest(PollCount), {}} :
       poll' = IF videos \subseteq poll.seen THEN Asleep
               ELSE [poll EXCEPT !.pc = "sending", !.new = videos \ poll.seen]
  /\ UNCHANGED <<published, record, call, history>>

\* A bug for a mutant: a message that fails ends the announcements.
AnnounceOrStop(u) ==
  /\ poll.pc = "sending"
  /\ u \in poll.to
  /\ due' = [due EXCEPT ![u] = @ \ poll.new]
  /\ \/ /\ heard' = [heard EXCEPT ![u] = [v \in Videos |->
                       IF v \in poll.new /\ @[v] < 2 THEN @[v] + 1 ELSE @[v]]]
        /\ poll' = [poll EXCEPT !.to = @ \ {u}]
     \/ /\ UNCHANGED heard
        /\ poll' = [poll EXCEPT !.to = {}]
  /\ UNCHANGED <<published, record, call, confirmed, overlooked>>

\* The message arrives, or it is lost.
Announce(u) ==
  /\ poll.pc = "sending"
  /\ u \in poll.to
  /\ poll' = [poll EXCEPT !.to = @ \ {u}]
  /\ due' = [due EXCEPT ![u] = @ \ poll.new]
  /\ \/ /\ heard' = [heard EXCEPT ![u] = [v \in Videos |->
                       IF v \in poll.new /\ @[v] < 2 THEN @[v] + 1 ELSE @[v]]]
     \/ UNCHANGED heard
  /\ UNCHANGED <<published, record, call, confirmed, overlooked>>

\* A bug for a mutant: the videos of this poll replace the seen ones.
SeenAfterNew(old, new) == new

\* The copy, with the new videos, replaces what the record has by now.
SeenAfter(old, new) == new \cup old

PollNotes ==
  /\ poll.pc = "sending"
  /\ poll.to = {}
  /\ record' = IF record = None THEN None
               ELSE [record EXCEPT !.seen = SeenAfter(poll.seen, poll.new)]
  /\ poll' = Asleep
  /\ UNCHANGED <<published, call, history>>

Next ==
  \/ Publish
  \/ \E u \in Users :
       \/ Subscribe(u) \/ Unsubscribe(u) \/ Unresolved(u)
       \/ Seed(u) \/ MakeRecord(u) \/ Hold(u) \/ Join(u) \/ JoinAstray(u)
       \/ Leave(u) \/ LeaveAstray(u) \/ Delete(u) \/ Confirm(u) \/ Announce(u)
  \/ Poll \/ Fetched \/ PollNotes

Spec == Init /\ [][Next]_vars

----------------------------------------------------------------------------
(* Properties                                                              *)

\* One process announces no video twice to a user within one subscription,
\* although the poll works on a copy of the record that commands change,
\* remove and make anew meanwhile (yt_notify.py:387-446).
AnnouncedOnce == \A u \in Users, v \in Videos : heard[u][v] <= 1

\* What a poll has noted as seen was announced to everybody whose subscription
\* had been confirmed when it appeared, "You will be notified here when new
\* videos are uploaded" (rub.py:3265), except to those who joined while a poll
\* went on, which has copied the subscribers before, or whose record another
\* command has replaced or removed (yt_notify.py:280-320, 354-356, 387, 440).
NewVideosReachSubscribers ==
  poll.pc = "asleep" => \A u \in confirmed \ overlooked : due[u] \cap SeenOf(record) = {}
=============================================================================
