----------------------------- MODULE SearchRelay -----------------------------
(***************************************************************************)
(* Requests of the site that the worker answers: POST /search               *)
(* (iran/api/search.py, the searchers of the worker) and POST               *)
(* /admin/health/ping.  The site registers an asyncio.Event under a fresh   *)
(* request id, sends, and waits; the handler of the answer finds the event  *)
(* by the id.  An action is what a coroutine does between two awaits.       *)
(*                                                                         *)
(* Of what is found the pictures are modelled, and whether the answer fits  *)
(* a message.  Messages overtake one another and may never arrive; a search *)
(* that arrives twice is done twice, while the site drops an answer that it *)
(* has had already.  Pings do not arrive twice.                             *)
(***************************************************************************)
EXTENDS Naturals

CONSTANTS
  Searches,   \* request ids of POST /search
  Pings,      \* request ids of POST /admin/health/ping
  Handlers,   \* tasks of the worker that handle a search.request
  Items,      \* what can be found with a picture
  MaxFaults,  \* bound on duplicated messages and sends that raise
  None

VARIABLES
  pc,       \* pc[r]: where the request r is
  pending,  \* the keys of pending_searches and pending_pings
  set,      \* the requests whose event is set
  results,  \* search_results, with "absent" where there is no entry
  answer,   \* answer[r]: what the client of r was given
  wire,     \* messages under way
  handler,  \* handler[h]: the search that the task h works on
  pictures, \* objects under thumbs/search/
  pong,     \* the Setting last_health_pong
  storing,  \* storing[p]: the handler of the pong of p
  silent,   \* history: the tasks' searches that ended without an answer sent
            \* although no send raised
  faults

site == <<pc, pending, set, results, answer>>
vars == <<site, wire, handler, pictures, pong, storing, silent, faults>>

Requests == Searches \cup Pings

\* What a request ends with, and what an entry of search_results holds.
Plain(kind) == [kind |-> kind, keys |-> {}]

Free == [pc |-> "free", search |-> None, reply |-> "search.result", long |-> FALSE,
         todo |-> {}, absent |-> {}, keys |-> {}]

Init ==
  /\ pc = [r \in Requests |-> "new"]
  /\ pending = {} /\ set = {}
  /\ results = [s \in Searches |-> Plain("absent")]
  /\ answer = [r \in Requests |-> Plain("open")]
  /\ wire = {}
  /\ handler = [h \in Handlers |-> Free]
  /\ pictures = {}
  /\ pong = None
  /\ storing = [p \in Pings |-> "no"]
  /\ silent = {}
  /\ faults = 0

Fault == faults < MaxFaults /\ faults' = faults + 1

Message(type, id, by, keys) == [type |-> type, id |-> id, by |-> by, keys |-> keys]

----------------------------------------------------------------------------
(* The site                                                                *)

Post(r) ==
  /\ pc[r] = "new"
  /\ pc' = [pc EXCEPT ![r] = "sending"]
  /\ pending' = pending \cup {r}
  /\ results' = IF r \in Searches THEN [results EXCEPT ![r] = Plain("sentinel")] ELSE results
  /\ UNCHANGED <<set, answer, wire, handler, pictures, pong, storing, silent, faults>>

\* The message leaves before the send returns.
Leaves(r) ==
  /\ pc[r] = "sending"
  /\ pc' = [pc EXCEPT ![r] = "sent"]
  /\ wire' = wire \cup
       {Message(IF r \in Searches THEN "search.request" ELSE "health.ping", r, None, {})}
  /\ UNCHANGED <<pending, set, results, answer, handler, pictures, pong, storing, silent, faults>>

Waits(r) ==
  /\ pc[r] = "sent"
  /\ pc' = [pc EXCEPT ![r] = "waiting"]
  /\ UNCHANGED <<pending, set, results, answer, wire, handler, pictures, pong, storing, silent, faults>>

\* The entries of a request go with it, and the client gets its answer.
End(r, a) ==
  /\ pc' = [pc EXCEPT ![r] = "ended"]
  /\ pending' = pending \ {r}
  /\ results' = IF r \in Searches THEN [results EXCEPT ![r] = Plain("absent")] ELSE results
  /\ answer' = [answer EXCEPT ![r] = a]
  /\ UNCHANGED <<set, wire, handler, pictures, pong, storing, silent>>

\* The send raises, although the message may have left.
SendRaises(r) ==
  /\ pc[r] \in {"sending", "sent"}
  /\ Fault
  /\ End(r, Plain("unreachable"))

\* The time is up, perhaps when the event is set already and the task has not
\* run yet.
TimesOut(r) ==
  /\ pc[r] = "waiting"
  /\ End(r, Plain("timeout"))
  /\ UNCHANGED faults

SearchAnswered(s) ==
  /\ pc[s] = "waiting"
  /\ s \in set
  /\ End(s, results[s])
  /\ UNCHANGED faults

\* The endpoint reads whatever pong is stored by now.
PingAnswered(p) ==
  /\ pc[p] = "waiting"
  /\ p \in set
  /\ End(p, Plain(pong))
  /\ UNCHANGED faults

\* A bug for a mutant: the answer is stored under any id.
OnAnswerAlways(m) ==
  /\ m.type \in {"search.result", "search.failed"}
  /\ results' = [results EXCEPT ![m.id] = [kind |-> m.type, keys |-> m.keys]]
  /\ set' = IF m.id \in pending THEN set \cup {m.id} ELSE set
  /\ UNCHANGED <<pc, pending, answer, pong, storing>>

\* on_search_result and on_search_failed: only a request that has its entries
\* is given the answer.
OnAnswer(m) ==
  /\ m.type \in {"search.result", "search.failed"}
  /\ results' = IF results[m.id].kind = "absent" THEN results
                ELSE [results EXCEPT ![m.id] = [kind |-> m.type, keys |-> m.keys]]
  /\ set' = IF m.id \in pending THEN set \cup {m.id} ELSE set
  /\ UNCHANGED <<pc, pending, answer, pong, storing>>

\* on_health_pong looks for the row ...
OnPong(m) ==
  /\ m.type = "health.pong"
  /\ storing[m.id] = "no"
  /\ storing' = [storing EXCEPT ![m.id] = IF pong = None THEN "insert" ELSE "update"]
  /\ UNCHANGED <<site, pong>>

\* ... and commits: a second insertion of the row raises, and nobody is told.
PongStored(p) ==
  /\ storing[p] \in {"insert", "update"}
  /\ storing' = [storing EXCEPT ![p] = "no"]
  /\ IF storing[p] = "insert" /\ pong # None THEN UNCHANGED <<pong, set>>
     ELSE /\ pong' = p
          /\ set' = IF p \in pending THEN set \cup {p} ELSE set
  /\ UNCHANGED <<pc, pending, results, answer, wire, handler, pictures, silent, faults>>

SiteReceives(m) ==
  /\ OnAnswer(m) \/ OnPong(m)
  /\ wire' = wire \ {m}
  /\ UNCHANGED <<handler, pictures, silent, faults>>

----------------------------------------------------------------------------
(* The worker                                                              *)

\* handle_health_ping answers at once.
WorkerPings(m) ==
  /\ m.type = "health.ping"
  /\ \/ /\ wire' = (wire \ {m}) \cup {Message("health.pong", m.id, None, {})}
        /\ UNCHANGED faults
     \/ /\ Fault
        /\ wire' = wire \ {m}
  /\ UNCHANGED <<site, handler, pictures, pong, storing, silent>>

WorkerReceives(m, h) ==
  /\ m.type = "search.request"
  /\ handler[h].pc = "free"
  /\ handler' = [handler EXCEPT ![h].pc = "searching", ![h].search = m.id]
  /\ \/ wire' = wire \ {m} /\ UNCHANGED faults
     \/ UNCHANGED wire /\ Fault    \* it will arrive once more
  /\ UNCHANGED <<site, pictures, pong, storing, silent>>

\* youtube_search, spotify_search, musicdl_search: which pictures are to be
\* stored and whether the results are too long for one message; after an error
\* nothing was found.  Only the first two come with pictures.
Found == [todo : SUBSET Items, long : BOOLEAN]
YoutubeFinds == {f \in Found : f.long => f.todo # {}}
SpotifyFinds == Found
MusicdlFinds == {f \in Found : f.todo = {}}

Searched(h) ==
  /\ handler[h].pc = "searching"
  /\ \/ \E f \in YoutubeFinds \cup SpotifyFinds \cup MusicdlFinds :
          handler' = [handler EXCEPT ![h].pc = "pictures", ![h].todo = f.todo,
                                     ![h].long = f.long]
     \/ handler' = [handler EXCEPT ![h].pc = "pictures", ![h].reply = "search.failed"]
  /\ UNCHANGED <<site, wire, pictures, pong, storing, silent, faults>>

\* upload_thumb_to_s3: a picture that is there already is not fetched again ...
HeadPicture(h, i) ==
  /\ handler[h].pc = "pictures"
  /\ i \in handler[h].todo \ handler[h].absent
  /\ \/ /\ i \in pictures
        /\ handler' = [handler EXCEPT ![h].todo = @ \ {i}, ![h].keys = @ \cup {i}]
     \/ handler' = [handler EXCEPT ![h].absent = @ \cup {i}]
  /\ UNCHANGED <<site, wire, pictures, pong, storing, silent, faults>>

\* A bug for a mutant: the key is returned although the picture is not stored.
StorePictureAnyway(h, i) ==
  /\ i \in handler[h].todo \cap handler[h].absent
  /\ pictures' \in {pictures, pictures \cup {i}}
  /\ handler' = [handler EXCEPT ![h].todo = @ \ {i}, ![h].keys = @ \cup {i}]
  /\ UNCHANGED <<site, wire, pong, storing, silent, faults>>

\* ... and one that cannot be fetched or stored is left out of the answer, even
\* when the store has it and only its confirmation was lost.
StorePicture(h, i) ==
  /\ i \in handler[h].todo \cap handler[h].absent
  /\ \/ /\ pictures' = pictures \cup {i}
        /\ handler' = [handler EXCEPT ![h].todo = @ \ {i}, ![h].keys = @ \cup {i}]
     \/ /\ pictures' \in {pictures, pictures \cup {i}}
        /\ handler' = [handler EXCEPT ![h].todo = @ \ {i}]
  /\ UNCHANGED <<site, wire, pong, storing, silent, faults>>

\* The answer is encoded and sent outside the try: when it is longer than
\* MAX_MESSAGE_BYTES, or the send raises, handle_message logs the exception.
Reply(h) ==
  /\ handler[h].pc = "pictures"
  /\ handler[h].todo = {}
  /\ handler' = [handler EXCEPT ![h] = Free]
  /\ \/ /\ ~handler[h].long
        /\ wire' = wire \cup
             {Message(handler[h].reply, handler[h].search, h, handler[h].keys)}
        /\ UNCHANGED <<silent, faults>>
     \/ /\ handler[h].long
        /\ silent' = silent \cup {handler[h].search}
        /\ UNCHANGED <<wire, faults>>
     \/ /\ Fault
        /\ UNCHANGED <<wire, silent>>
  /\ UNCHANGED <<site, pictures, pong, storing>>

----------------------------------------------------------------------------

RequestStep(r) == Post(r) \/ Leaves(r) \/ Waits(r) \/ SendRaises(r) \/ TimesOut(r)

HandlerStep(h) ==
  \/ Searched(h) \/ Reply(h)
  \/ \E i \in Items : HeadPicture(h, i) \/ StorePicture(h, i)

Next ==
  \/ \E r \in Requests : RequestStep(r)
  \/ \E s \in Searches : SearchAnswered(s)
  \/ \E p \in Pings : PingAnswered(p) \/ PongStored(p)
  \/ \E h \in Handlers : HandlerStep(h)
  \/ \E m \in wire :
       \/ SiteReceives(m) \/ WorkerPings(m)
       \/ \E h \in Handlers : WorkerReceives(m, h)

Spec == Init /\ [][Next]_vars

----------------------------------------------------------------------------
(* Properties                                                              *)

\* The tables of open requests hold exactly the requests that wait: whatever
\* way a request ends, and however late or often it is answered, it leaves
\* nothing behind in them (search.py:137-163, main.py:304, 318).
TablesAreExact ==
  /\ pending = {r \in Requests : pc[r] \in {"sending", "sent", "waiting"}}
  /\ \A s \in Searches : results[s].kind = "absent" <=> s \notin pending

\* A picture that an answer names is in the store, although searches that
\* overlap look for and store the same pictures (common.py:81-128).
NamedPicturesExist ==
  /\ \A m \in wire : m.keys \subseteq pictures
  /\ \A s \in Searches : answer[s].keys \subseteq pictures

----------------------------------------------------------------------------
(* What the documents of the repository say, and the code does not do.     *)

\* "Performs the platform-specific search on the Kharej side and sends either
\* a SearchResult or a SearchFailed message back to Iran": unless a send
\* fails, every search that is received is answered.
EverySearchIsAnswered == silent = {}
=============================================================================
