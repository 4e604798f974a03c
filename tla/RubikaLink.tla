----------------------------- MODULE RubikaLink -----------------------------
(***************************************************************************)
(* The site's end of the Rubika link (iran/rubika_client.py): the           *)
(* supervisor that connects again, the window of messages already handled,  *)
(* and the tasks that handle them.                                          *)
(*                                                                         *)
(* A message is its key (job_id, type, ts).  Rubika may deliver a message   *)
(* again at any time, after a reconnect above all.  Messages that the       *)
(* filters of _on_raw_message reject change nothing and are left out.       *)
(***************************************************************************)
EXTENDS Naturals, Sequences, FiniteSets

CONSTANTS
  Keys,       \* the keys of the messages
  DedupSize,  \* maxsize of the _LRUSet
  MaxBackoff, \* doublings from _BACKOFF_BASE to _BACKOFF_MAX
  MaxTasks,   \* bound on the running tasks of one message
  None

VARIABLES
  loop,      \* where _supervisor_loop is
  client,    \* the transport's _client
  backoff,   \* how often the delay was doubled
  dedup,     \* _dedup, oldest first
  handling,  \* handling[k]: the running _dispatch tasks of k
  others     \* history: the keys dispatched since k was last, None if it never was

vars == <<loop, client, backoff, dedup, handling, others>>

Init ==
  /\ loop = "none" /\ client = None
  /\ backoff = 0
  /\ dedup = <<>>
  /\ handling = [k \in Keys |-> 0]
  /\ others = [k \in Keys |-> None]

messages == <<dedup, handling, others>>

----------------------------------------------------------------------------
(* The supervisor                                                          *)

Start ==
  /\ loop = "none"
  /\ loop' = "created"
  /\ UNCHANGED <<client, backoff, messages>>

\* connect assigns a new client before it is started.
Dial == loop' = "dialling" /\ client' = "unstarted"

Dials ==
  /\ loop = "created"
  /\ Dial
  /\ UNCHANGED <<backoff, messages>>

Connected ==
  /\ loop = "dialling"
  /\ loop' = "receiving" /\ client' = "started"
  /\ backoff' = 0
  /\ UNCHANGED messages

\* The start or the update loop of rubpy raises.
Disconnected ==
  /\ loop \in {"dialling", "receiving"}
  /\ loop' = "waiting"
  /\ backoff' = IF backoff < MaxBackoff THEN backoff + 1 ELSE MaxBackoff
  /\ UNCHANGED <<client, messages>>

Wakes ==
  /\ loop = "waiting"
  /\ Dial
  /\ UNCHANGED <<backoff, messages>>

\* The update loop of rubpy returns: there is no delay.
UpdatesEnd ==
  /\ loop = "receiving"
  /\ Dial
  /\ UNCHANGED <<backoff, messages>>

\* stop cancels the supervisor, then disconnects the client that is left.
Stop ==
  /\ loop \in {"created", "dialling", "receiving", "waiting"}
  /\ loop' = "cancelled"
  /\ UNCHANGED <<client, backoff, messages>>

Disconnect ==
  /\ loop = "cancelled"
  /\ loop' = "stopped" /\ client' = None
  /\ UNCHANGED <<backoff, messages>>

\* The process starts again, with an empty window.
Restart ==
  /\ loop # "none"
  /\ loop' = "none" /\ client' = None /\ backoff' = 0
  /\ dedup' = <<>>
  /\ handling' = [k \in Keys |-> 0]
  /\ others' = [k \in Keys |-> None]

----------------------------------------------------------------------------
(* Messages                                                                *)

Contains(k) == \E i \in DOMAIN dedup : dedup[i] = k

\* Mutant: an entry is evicted one early.
AddEvictingEarly(k) ==
  LET longer == Append(dedup, k) IN
  IF Len(longer) >= DedupSize THEN Tail(longer) ELSE longer

\* _LRUSet.add of a key that is not in it.
Add(k) ==
  LET longer == Append(dedup, k) IN
  IF Len(longer) > DedupSize THEN Tail(longer) ELSE longer

\* A copy of a message in the window changes nothing, the window's order
\* neither.
OnRawMessage(k) ==
  /\ loop = "receiving"
  /\ handling[k] < MaxTasks
  /\ ~Contains(k)
  /\ dedup' = Add(k)
  /\ handling' = [handling EXCEPT ![k] = @ + 1]
  /\ others' = [q \in Keys |->
                  IF q = k THEN {} ELSE IF others[q] = None THEN None ELSE others[q] \cup {k}]
  /\ UNCHANGED <<loop, client, backoff>>

\* Every handler of the type has returned or raised.
Dispatched(k) ==
  /\ handling[k] > 0
  /\ handling' = [handling EXCEPT ![k] = @ - 1]
  /\ UNCHANGED <<loop, client, backoff, dedup, others>>

Next ==
  \/ Start \/ Dials \/ Connected \/ Disconnected \/ Wakes \/ UpdatesEnd
  \/ Stop \/ Disconnect \/ Restart
  \/ \E k \in Keys : OnRawMessage(k) \/ Dispatched(k)

Spec == Init /\ [][Next]_vars

----------------------------------------------------------------------------
(* Properties                                                              *)

\* What the process may hold.
TypeOK ==
  /\ loop \in {"none", "created", "dialling", "receiving", "waiting", "cancelled", "stopped"}
  /\ client \in {None, "unstarted", "started"}
  /\ backoff \in 0 .. MaxBackoff
  /\ dedup \in Seq(Keys) /\ Len(dedup) <= DedupSize
  /\ handling \in [Keys -> 0 .. MaxTasks]
  /\ others \in [Keys -> (SUBSET Keys) \cup {None}]

\* A message is handled again, within one life of the process, only after
\* enough others to fill the window, whatever is delivered again and however
\* often the link is lost in between (rubika_client.py:111-120, 316-323).
HandledOnceStep ==
  \A k \in Keys :
    handling'[k] > handling[k] /\ others[k] # None
      => Cardinality(others[k]) >= DedupSize

\* The property of the steps: a message is handled once per window.
HandledOnce == [][HandledOnceStep]_vars
=============================================================================
