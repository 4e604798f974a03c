--------------------------- MODULE ServicesProofs ---------------------------
(***************************************************************************)
(* Proofs about the components that share nothing with the others, for all *)
(* values of their constants.  What they are checked with, MCServices,     *)
(* names them with a prefix; so do the proofs.  SearchRelay, which it      *)
(* extends, has none.                                                      *)
(*                                                                         *)
(* A theorem says the same of the component on its own and of the runs of  *)
(* MCServices, in which one component moves and the others stand still     *)
(* (PartStep).                                                             *)
(***************************************************************************)
EXTENDS MCServices, SequenceTheorems, FiniteSetTheorems, TLAPS

-----------------------------------------------------------------------------
(* One component at a time.                                                *)

\* A step of MCServices is one of the part that runs.
LEMMA PartStep ==
  ASSUME [PartNext]_allVars
  PROVE  /\ part' = part
         /\ part = "waterfall" => [Waterfall!Next]_(Waterfall!vars)
         /\ part = "notify" => [Notify!Next]_(Notify!vars)
         /\ part = "qobuz" => [Qobuz!Next]_(Qobuz!vars)
         /\ part = "tracks" => [Tracks!Next]_(Tracks!vars)
         /\ part = "link" => [Link!Next]_(Link!vars)
         /\ part = "events" => [Events!Next]_(Events!vars)
         /\ part = "config" => [Config!Next]_(Config!vars)
<1>1. CASE WaterfallNext
  BY <1>1 DEF WaterfallNext
<1>2. CASE NotifyNext
  BY <1>2 DEF NotifyNext
<1>3. CASE QobuzNext
  BY <1>3 DEF QobuzNext
<1>4. CASE TracksNext
  BY <1>4 DEF TracksNext
<1>5. CASE SearchNext \/ PingNext
  BY <1>5 DEF SearchNext, PingNext
<1>6. CASE LinkNext
  BY <1>6 DEF LinkNext
<1>7. CASE EventsNext
  BY <1>7 DEF EventsNext
<1>8. CASE ConfigNext
  BY <1>8 DEF ConfigNext
<1>9. CASE UNCHANGED allVars
  <2>1. /\ UNCHANGED part
        /\ UNCHANGED <<breaker, streak, dl>>
        /\ UNCHANGED <<published, record, call, poll, confirmed, due, heard, overlooked>>
        /\ UNCHANGED <<live, shown, cache, lock, token, auth, disk, thread, restarts>>
        /\ UNCHANGED <<memory, locked, waiter, woken, bound, raced>>
        /\ UNCHANGED <<loop, client, backoff, dedup, handling, others>>
        /\ UNCHANGED <<row, committed, events, stream, subscribers, shut>>
        /\ UNCHANGED <<patch, table, letters, acks, stored, file, turn, acked, faults>>
    BY <1>9 DEF allVars, waterfallVars, notifyVars, qobuzVars, tracksVars, linkVars, eventsVars,
                configVars
  <2> QED
    BY <2>1 DEF Waterfall!vars, Notify!vars, Notify!history, Qobuz!vars, Qobuz!stored,
                Tracks!vars, Tracks!token, Tracks!lock, Link!vars, Link!messages, Events!vars,
                Config!vars, Config!site, Config!worker
<1> QED
  BY <1>1, <1>2, <1>3, <1>4, <1>5, <1>6, <1>7, <1>8, <1>9 DEF PartNext

\* The searches and the pings move, or stand still.
LEMMA SearchStep ==
  ASSUME [PartNext]_allVars
  PROVE  [Next]_searchVars
BY DEF PartNext, allVars, WaterfallNext, NotifyNext, QobuzNext, TracksNext, SearchNext, PingNext,
       LinkNext, EventsNext, ConfigNext

\* So does SearchRelay on its own.
LEMMA SearchAlone == [Next]_vars => [Next]_searchVars
BY DEF vars, site, searchVars

-----------------------------------------------------------------------------
(* SearchRelay                                                             *)

PCs == {"new", "sending", "sent", "waiting", "ended"}
Types == {"search.request", "search.result", "search.failed", "health.ping", "health.pong"}
Messages == [type : Types, id : Requests \cup {None}, by : Handlers \cup {None},
             keys : SUBSET Items]
Tasks == [pc : {"free", "searching", "pictures"}, search : Requests \cup {None},
          reply : {"search.result", "search.failed"}, long : BOOLEAN,
          todo : SUBSET Items, absent : SUBSET Items, keys : SUBSET Items]
Entries == [kind : {"absent", "sentinel", "search.result", "search.failed"},
            keys : SUBSET Items]
USE DEF PCs, Types

\* What a request, its entry, a message and a task of the worker can be.
SearchTyped ==
  /\ pc \in [Requests -> PCs]
  /\ results \in [Searches -> Entries]
  /\ wire \subseteq Messages
  /\ handler \in [Handlers -> Tasks]

TablesInv == SearchTyped /\ TablesAreExact

\* Keys are named only after the object is stored, and objects stay; what is
\* on the way to an answer names such keys too.
PicturesInv ==
  /\ NamedPicturesExist
  /\ DOMAIN answer = Requests
  /\ \A s \in Searches : results[s].keys \subseteq pictures
  /\ \A h \in Handlers : handler[h].keys \subseteq pictures

-----------------------------------------------------------------------------
LEMMA InitTables == Init => TablesInv /\ PicturesInv
BY DEF Init, TablesInv, PicturesInv, SearchTyped, TablesAreExact, NamedPicturesExist, Plain, Free,
       Entries, Tasks, Messages, Requests

\* The site's own steps.
LEMMA SiteTables ==
  ASSUME TablesInv, NEW r \in Requests, RequestStep(r)
  PROVE  TablesInv'
<1>1. CASE Post(r)
  BY <1>1 DEF Post, TablesInv, SearchTyped, TablesAreExact, Plain, Entries
<1>2. CASE Leaves(r)
  <2>1. wire' \subseteq Messages
    BY <1>2 DEF Leaves, TablesInv, SearchTyped, Message, Messages
  <2> QED
    BY <1>2, <2>1 DEF Leaves, TablesInv, SearchTyped, TablesAreExact
<1>3. CASE Waits(r)
  BY <1>3 DEF Waits, TablesInv, SearchTyped, TablesAreExact
<1>4. CASE SendRaises(r) \/ TimesOut(r)
  BY <1>4 DEF SendRaises, TimesOut, End, TablesInv, SearchTyped, TablesAreExact, Plain, Entries
<1> QED
  BY <1>1, <1>2, <1>3, <1>4 DEF RequestStep

LEMMA AnsweredTables ==
  ASSUME TablesInv, NEW r \in Requests, SearchAnswered(r) \/ PingAnswered(r)
  PROVE  TablesInv'
BY DEF SearchAnswered, PingAnswered, End, TablesInv, SearchTyped, TablesAreExact, Plain, Entries

\* An answer changes an entry only where there is one, and leaves it there.
LEMMA ReceivedTables ==
  ASSUME TablesInv, NEW m \in wire, SiteReceives(m)
  PROVE  TablesInv'
<1>1. m \in Messages
  BY DEF TablesInv, SearchTyped
<1>2. CASE OnAnswer(m)
  BY <1>1, <1>2 DEF SiteReceives, OnAnswer, TablesInv, SearchTyped, TablesAreExact, Messages, Entries
<1>3. CASE OnPong(m)
  BY <1>3 DEF SiteReceives, OnPong, site, TablesInv, SearchTyped, TablesAreExact
<1> QED
  BY <1>2, <1>3 DEF SiteReceives

LEMMA WorkerTables ==
  ASSUME TablesInv,
         \/ \E h \in Handlers : HandlerStep(h)
         \/ \E m \in wire : WorkerPings(m) \/ \E h \in Handlers : WorkerReceives(m, h)
  PROVE  TablesInv'
<1>1. UNCHANGED site
  BY DEF HandlerStep, Searched, Reply, HeadPicture, StorePicture, WorkerPings, WorkerReceives
<1>2. wire' \subseteq Messages /\ handler' \in [Handlers -> Tasks]
  <2>1. ASSUME NEW m \in wire, WorkerPings(m)
        PROVE  wire' \subseteq Messages /\ handler' = handler
    BY <2>1 DEF WorkerPings, TablesInv, SearchTyped, Message, Messages
  <2>2. ASSUME NEW m \in wire, NEW h \in Handlers, WorkerReceives(m, h)
        PROVE  wire' \subseteq Messages /\ handler' \in [Handlers -> Tasks]
    BY <2>2 DEF WorkerReceives, TablesInv, SearchTyped, Messages, Tasks
  <2>3. ASSUME NEW h \in Handlers, Searched(h)
        PROVE  wire' = wire /\ handler' \in [Handlers -> Tasks]
    <3>1. handler[h] \in Tasks /\ wire' = wire
      BY <2>3 DEF Searched, TablesInv, SearchTyped
    <3>2. ASSUME NEW f \in Found,
                 handler' = [handler EXCEPT ![h].pc = "pictures", ![h].todo = f.todo,
                                            ![h].long = f.long]
          PROVE  handler' \in [Handlers -> Tasks]
      BY <3>1, <3>2 DEF Found, TablesInv, SearchTyped, Tasks
    <3>3. CASE handler' = [handler EXCEPT ![h].pc = "pictures", ![h].reply = "search.failed"]
      BY <3>1, <3>3 DEF TablesInv, SearchTyped, Tasks
    <3> QED
      BY <2>3, <3>1, <3>2, <3>3 DEF Searched, YoutubeFinds, SpotifyFinds, MusicdlFinds
  <2>4. ASSUME NEW h \in Handlers, NEW i \in Items, HeadPicture(h, i) \/ StorePicture(h, i)
        PROVE  wire' = wire /\ handler' \in [Handlers -> Tasks]
    BY <2>4 DEF HeadPicture, StorePicture, TablesInv, SearchTyped, Tasks
  <2>5. ASSUME NEW h \in Handlers, Reply(h)
        PROVE  wire' \subseteq Messages /\ handler' \in [Handlers -> Tasks]
    <3>1. handler[h] \in Tasks /\ Free \in Tasks
      BY DEF TablesInv, SearchTyped, Free, Tasks
    <3>2. wire' \subseteq Messages
      BY <2>5, <3>1 DEF Reply, TablesInv, SearchTyped, Message, Messages, Tasks
    <3> QED
      BY <2>5, <3>1, <3>2 DEF Reply, TablesInv, SearchTyped
  <2> QED
    BY <2>1, <2>2, <2>3, <2>4, <2>5 DEF HandlerStep, TablesInv, SearchTyped
<1> QED
  BY <1>1, <1>2 DEF site, TablesInv, SearchTyped, TablesAreExact

LEMMA TablesNext == TablesInv /\ [Next]_searchVars => TablesInv'
<1> SUFFICES ASSUME TablesInv, [Next]_searchVars
             PROVE  TablesInv'
  OBVIOUS
<1>1. ASSUME NEW p \in Pings, PongStored(p)
      PROVE  TablesInv'
  BY <1>1 DEF PongStored, TablesInv, SearchTyped, TablesAreExact
<1>2. CASE UNCHANGED searchVars
  BY <1>2 DEF searchVars, TablesInv, SearchTyped, TablesAreExact
<1> QED
  BY <1>1, <1>2, SiteTables, AnsweredTables, ReceivedTables, WorkerTables DEF Next, Requests

\* The tables of open requests hold exactly those that wait, whatever way they
\* end and whatever arrives when they have ended (search.py 120-163).
THEOREM TablesExact == (Spec => []TablesAreExact) /\ (ServicesSpec => []TablesAreExact)
<1>1. TablesInv => TablesAreExact
  BY DEF TablesInv
<1>2. Spec => []TablesAreExact
  BY <1>1, InitTables, TablesNext, SearchAlone, PTL DEF Spec
<1>3. ServicesInit => TablesInv
  BY InitTables DEF ServicesInit
<1>4. ServicesSpec => []TablesAreExact
  BY <1>1, <1>3, TablesNext, SearchStep, PTL DEF ServicesSpec
<1> QED
  BY <1>2, <1>4

-----------------------------------------------------------------------------
LEMMA PicturesNext == TablesInv /\ PicturesInv /\ [Next]_searchVars => PicturesInv'
<1> SUFFICES ASSUME SearchTyped, PicturesInv, [Next]_searchVars
             PROVE  PicturesInv'
  BY DEF TablesInv
<1>1. /\ DOMAIN answer = Requests
      /\ \A m \in wire : m.keys \subseteq pictures
      /\ \A s \in Searches : answer[s].keys \subseteq pictures
      /\ \A s \in Searches : results[s].keys \subseteq pictures
      /\ \A h \in Handlers : handler[h].keys \subseteq pictures
  BY DEF PicturesInv, NamedPicturesExist
\* Objects only appear, so whatever keeps its keys keeps them stored.
<1>2. pictures \subseteq pictures'
  <2>1. ASSUME NEW h \in Handlers, HandlerStep(h)
        PROVE  pictures \subseteq pictures'
    BY <2>1 DEF HandlerStep, Searched, Reply, HeadPicture, StorePicture
  <2>2. ASSUME NEW m \in wire,
               SiteReceives(m) \/ WorkerPings(m) \/ \E h \in Handlers : WorkerReceives(m, h)
        PROVE  pictures' = pictures
    BY <2>2 DEF SiteReceives, WorkerPings, WorkerReceives
  <2>3. ASSUME NEW r,
               RequestStep(r) \/ SearchAnswered(r) \/ PingAnswered(r) \/ PongStored(r)
        PROVE  pictures' = pictures
    BY <2>3 DEF RequestStep, Post, Leaves, Waits, SendRaises, TimesOut, End, SearchAnswered,
                PingAnswered, PongStored
  <2> QED
    BY <2>1, <2>2, <2>3 DEF Next, searchVars
<1>3. \A m \in wire' : m.keys \subseteq pictures'
  <2>1. ASSUME NEW h \in Handlers, HandlerStep(h)
        PROVE  \A m \in wire' : m.keys \subseteq pictures'
    <3>1. CASE Reply(h)
      BY <1>1, <3>1 DEF Reply, Message
    <3>2. CASE wire' = wire
      BY <1>1, <1>2, <3>2
    <3> QED
      BY <2>1, <3>1, <3>2 DEF HandlerStep, Searched, HeadPicture, StorePicture
  <2>2. ASSUME NEW m \in wire,
               SiteReceives(m) \/ WorkerPings(m) \/ \E h \in Handlers : WorkerReceives(m, h)
        PROVE  \A n \in wire' : n.keys \subseteq pictures'
    <3>1. CASE wire' \subseteq wire
      BY <1>1, <1>2, <3>1
    <3>2. CASE WorkerPings(m)
      <4>1. Message("health.pong", m.id, None, {}).keys = {}
        BY DEF Message
      <4> QED
        BY <1>1, <1>2, <3>2, <4>1 DEF WorkerPings
    <3> QED
      BY <2>2, <3>1, <3>2 DEF SiteReceives, WorkerReceives
  <2>3. ASSUME NEW r \in Requests, Leaves(r)
        PROVE  \A n \in wire' : n.keys \subseteq pictures'
    <3>1. ASSUME NEW type
          PROVE  Message(type, r, None, {}).keys = {}
      BY DEF Message
    <3>2. PICK type : wire' = wire \cup {Message(type, r, None, {})}
      <4> DEFINE type == IF r \in Searches THEN "search.request" ELSE "health.ping"
      <4>1. wire' = wire \cup {Message(type, r, None, {})}
        BY <2>3 DEF Leaves
      <4> QED
        BY <4>1
    <3> QED
      BY <1>1, <1>2, <3>1, <3>2
  <2>4. CASE wire' = wire
    BY <1>1, <1>2, <2>4
  <2>5. ASSUME NEW r,
               \/ Post(r) \/ Waits(r) \/ SendRaises(r) \/ TimesOut(r) \/ SearchAnswered(r)
               \/ PingAnswered(r) \/ PongStored(r)
        PROVE  wire' = wire
    BY <2>5 DEF Post, Waits, SendRaises, TimesOut, End, SearchAnswered, PingAnswered, PongStored
  <2> QED
    BY <2>1, <2>2, <2>3, <2>4, <2>5 DEF Next, searchVars, RequestStep
<1>4. \A h \in Handlers : handler'[h].keys \subseteq pictures'
  <2>1. ASSUME NEW h \in Handlers, HandlerStep(h)
        PROVE  \A g \in Handlers : handler'[g].keys \subseteq pictures'
    <3> USE DEF SearchTyped
    <3>1. handler \in [Handlers -> Tasks] /\ \A g \in Handlers : handler[g] \in Tasks
      OBVIOUS
    <3>2. handler'[h].keys \subseteq pictures'
      <4>1. CASE Searched(h)
        <5>1. ASSUME NEW f,
                     handler' = [handler EXCEPT ![h].pc = "pictures", ![h].todo = f.todo,
                                                ![h].long = f.long]
              PROVE  handler'[h].keys = handler[h].keys
          BY <3>1, <5>1 DEF Tasks
        <5>2. CASE handler' = [handler EXCEPT ![h].pc = "pictures", ![h].reply = "search.failed"]
          BY <1>1, <1>2, <3>1, <5>2 DEF Tasks
        <5> QED
          BY <1>1, <1>2, <4>1, <5>1, <5>2 DEF Searched
      <4>2. CASE Reply(h)
        BY <3>1, <4>2 DEF Reply, Free
      <4>3. ASSUME NEW i \in Items, HeadPicture(h, i) \/ StorePicture(h, i)
            PROVE  handler'[h].keys \subseteq pictures'
        BY <1>1, <1>2, <3>1, <4>3 DEF HeadPicture, StorePicture, Tasks
      <4> QED
        BY <2>1, <4>1, <4>2, <4>3 DEF HandlerStep
    <3>3. ASSUME NEW g \in Handlers, g # h
          PROVE  handler'[g] = handler[g]
      BY <2>1, <3>1, <3>3 DEF HandlerStep, Searched, Reply, HeadPicture, StorePicture
    <3> QED
      BY <1>1, <1>2, <3>2, <3>3
  <2>2. ASSUME NEW m \in wire, NEW h \in Handlers, WorkerReceives(m, h)
        PROVE  \A g \in Handlers : handler'[g].keys \subseteq pictures'
    BY <1>1, <1>2, <2>2 DEF WorkerReceives, SearchTyped, Tasks
  <2>3. CASE handler' = handler
    BY <1>1, <1>2, <2>3
  <2>4. ASSUME NEW m \in wire, SiteReceives(m) \/ WorkerPings(m)
        PROVE  handler' = handler
    BY <2>4 DEF SiteReceives, WorkerPings
  <2>5. ASSUME NEW r,
               RequestStep(r) \/ SearchAnswered(r) \/ PingAnswered(r) \/ PongStored(r)
        PROVE  handler' = handler
    BY <2>5 DEF RequestStep, Post, Leaves, Waits, SendRaises, TimesOut, End, SearchAnswered,
                PingAnswered, PongStored
  <2> QED
    BY <2>1, <2>2, <2>3, <2>4, <2>5 DEF Next, searchVars
<1>5. /\ \A s \in Searches : answer'[s].keys \subseteq pictures'
      /\ \A s \in Searches : results'[s].keys \subseteq pictures'
  <2>1. CASE UNCHANGED <<answer, results>>
    BY <1>1, <1>2, <2>1
  <2>2. ASSUME NEW r \in Requests,
               \/ Post(r) \/ SendRaises(r) \/ TimesOut(r) \/ PingAnswered(r)
               \/ (r \in Searches /\ SearchAnswered(r))
        PROVE  /\ \A s \in Searches : answer'[s].keys \subseteq pictures'
               /\ \A s \in Searches : results'[s].keys \subseteq pictures'
    <3>1. CASE Post(r)
      BY <1>1, <1>2, <3>1 DEF Post, Plain, SearchTyped
    <3>2. ASSUME NEW a, a.keys \subseteq pictures, End(r, a)
          PROVE  /\ \A s \in Searches : answer'[s].keys \subseteq pictures'
                 /\ \A s \in Searches : results'[s].keys \subseteq pictures'
      BY <1>1, <1>2, <3>2 DEF End, Plain, SearchTyped
    <3>3. \A k : Plain(k).keys \subseteq pictures
      BY DEF Plain
    <3>4. CASE SendRaises(r) \/ TimesOut(r) \/ PingAnswered(r)
      BY <3>2, <3>3, <3>4 DEF SendRaises, TimesOut, PingAnswered
    <3>5. CASE r \in Searches /\ SearchAnswered(r)
      BY <1>1, <3>2, <3>5 DEF SearchAnswered
    <3> QED
      BY <2>2, <3>1, <3>4, <3>5
  <2>3. ASSUME NEW m \in wire, SiteReceives(m)
        PROVE  /\ \A s \in Searches : answer'[s].keys \subseteq pictures'
               /\ \A s \in Searches : results'[s].keys \subseteq pictures'
    BY <1>1, <1>2, <2>3 DEF SiteReceives, OnAnswer, OnPong, site, SearchTyped
  <2>4. ASSUME NEW r, Leaves(r) \/ Waits(r) \/ PongStored(r)
        PROVE  UNCHANGED <<answer, results>>
    BY <2>4 DEF Leaves, Waits, PongStored
  <2>5. ASSUME NEW m \in wire,
               WorkerPings(m) \/ \E h \in Handlers : WorkerReceives(m, h)
        PROVE  UNCHANGED <<answer, results>>
    BY <2>5 DEF WorkerPings, WorkerReceives, site
  <2>6. ASSUME NEW h \in Handlers, HandlerStep(h)
        PROVE  UNCHANGED <<answer, results>>
    BY <2>6 DEF HandlerStep, Searched, Reply, HeadPicture, StorePicture, site
  <2> QED
    BY <2>1, <2>2, <2>3, <2>4, <2>5, <2>6 DEF Next, searchVars, site, RequestStep, Requests
<1>6. DOMAIN answer' = Requests
  BY <1>1 DEF Next, RequestStep, HandlerStep, Post, Leaves, Waits, SendRaises, TimesOut, End,
              SearchAnswered, PingAnswered, PongStored, SiteReceives, OnAnswer, OnPong,
              WorkerPings, WorkerReceives, Searched, Reply, HeadPicture, StorePicture, site, searchVars
<1> QED
  BY <1>3, <1>4, <1>5, <1>6 DEF PicturesInv, NamedPicturesExist

\* No answer names a picture that is not stored, although searches that overlap
\* look for and store the same ones and stores fail (common.py 81-128).
THEOREM PicturesExist == (Spec => []NamedPicturesExist) /\ (ServicesSpec => []NamedPicturesExist)
<1>1. Init => TablesInv /\ PicturesInv
  BY InitTables
<1>2. (TablesInv /\ PicturesInv) /\ [Next]_searchVars => (TablesInv /\ PicturesInv)'
  BY TablesNext, PicturesNext
<1>3. TablesInv /\ PicturesInv => NamedPicturesExist
  BY DEF PicturesInv
<1>4. Spec => []NamedPicturesExist
  BY <1>1, <1>2, <1>3, SearchAlone, PTL DEF Spec
<1>5. ServicesInit => TablesInv /\ PicturesInv
  BY <1>1 DEF ServicesInit
<1>6. ServicesSpec => []NamedPicturesExist
  BY <1>2, <1>3, <1>5, SearchStep, PTL DEF ServicesSpec
<1> QED
  BY <1>4, <1>6


-----------------------------------------------------------------------------
(* EventStream                                                             *)

Told == {"progress"} \cup Events!Closing
QueuedEvents == Told \cup {"closed"}
StreamRecords == [pc : {"new", "answering", "live", "closed"}, first : Events!Closing \cup {None},
            queue : Seq(QueuedEvents), sent : Seq(QueuedEvents), joined : Nat]

StreamsTyped ==
  /\ committed \subseteq Told
  /\ events \in Seq(Told)
  /\ stream \in [Streams -> StreamRecords]

\* The bus knows the live streams until it is closed, and a stream has got
\* nothing before it subscribes.
StreamsFollowed ==
  \A s \in Streams :
    /\ stream[s].pc \in {"new", "answering"} => stream[s].queue = <<>> /\ stream[s].sent = <<>>
    /\ stream[s].pc \in {"new", "answering"} => s \notin subscribers
    /\ stream[s].pc = "live" /\ ~shut => s \in subscribers
    /\ stream[s].pc = "live" => stream[s].joined <= Len(events)

EventsInv == StreamsTyped /\ StreamsFollowed /\ Events!ListenersMissNothing

-----------------------------------------------------------------------------
(* Sequences.                                                              *)

\* What is missing from a history grows at its end with the history.
LEMMA SuffixGrows ==
  ASSUME NEW S, NEW seq \in Seq(S), NEW e \in S, NEW j \in Nat, j <= Len(seq)
  PROVE  SubSeq(Append(seq, e), j + 1, Len(Append(seq, e)))
           = Append(SubSeq(seq, j + 1, Len(seq)), e)
<1> DEFINE n == Len(seq)
           longer == Append(seq, e)
<1>1. n \in Nat /\ longer \in Seq(S) /\ Len(longer) = n + 1 /\ longer[n + 1] = e
      /\ \A i \in 1 .. n : longer[i] = seq[i] /\ seq[i] \in S
  BY AppendProperties, LenProperties, ElementOfSeq
<1> HIDE DEF longer, n
<1>2. SubSeq(longer, j + 1, n + 1) = SubSeq(longer, j + 1, n) \o <<e>>
  <2>1. j + 1 \in 1 .. Len(longer) /\ n + 1 \in (j + 1) .. Len(longer) /\ (n + 1) - 1 = n
    BY <1>1 DEF n
  <2> QED
    BY <1>1, <2>1, SubSeqRecursiveSecond
<1>3. SubSeq(longer, j + 1, n) = SubSeq(seq, j + 1, n)
  <2> DEFINE a == SubSeq(longer, j + 1, n)
             b == SubSeq(seq, j + 1, n)
  <2>1. \A i \in (j + 1) .. n : longer[i] = seq[i] /\ seq[i] \in S
    BY <1>1
  <2>2. j + 1 \in Int /\ n \in Int
    BY <1>1
  <2>3. /\ a \in Seq(S) /\ b \in Seq(S) /\ Len(a) = Len(b)
        /\ Len(a) = IF j + 1 <= n THEN n - (j + 1) + 1 ELSE 0
        /\ \A i \in 1 .. n - (j + 1) + 1 : a[i] = longer[(j + 1) + i - 1] /\ b[i] = seq[(j + 1) + i - 1]
    BY <2>1, <2>2, SubSeqProperties
  <2> HIDE DEF a, b
  <2>4. \A i \in 1 .. Len(a) : a[i] = b[i]
    BY <1>1, <2>3
  <2>5. a = b
    BY <2>3, <2>4, SeqEqual
  <2> QED
    BY <2>5 DEF a, b
<1>4. SubSeq(seq, j + 1, n) \in Seq(S)
  BY <1>1, SubSeqProperties
<1>5. SubSeq(seq, j + 1, n) \o <<e>> = Append(SubSeq(seq, j + 1, n), e)
  BY <1>4, AppendIsConcat
<1> QED
  BY <1>1, <1>2, <1>3, <1>5 DEF longer, n

LEMMA ConcatAppend ==
  ASSUME NEW S, NEW a \in Seq(S), NEW b \in Seq(S), NEW e \in S
  PROVE  a \o Append(b, e) = Append(a \o b, e)
<1>1. Append(b, e) = b \o <<e>> /\ Append(a \o b, e) = (a \o b) \o <<e>>
  BY AppendIsConcat, ConcatProperties
<1>2. <<e>> \in Seq(S)
  OBVIOUS
<1> QED
  BY <1>1, <1>2, ConcatAssociative

\* The head of the queue moves to the end of what was sent.
LEMMA HeadMoves ==
  ASSUME NEW S, NEW a \in Seq(S), NEW b \in Seq(S), b # <<>>
  PROVE  Append(a, Head(b)) \o Tail(b) = a \o b
<1>1. Head(b) \in S /\ Tail(b) \in Seq(S) /\ <<Head(b)>> \in Seq(S)
  BY HeadTailProperties
<1>2. Append(a, Head(b)) = a \o <<Head(b)>>
  BY <1>1, AppendIsConcat
<1>3. <<Head(b)>> \o Tail(b) = b
  BY HeadTailProperties
<1> QED
  BY <1>1, <1>2, <1>3, ConcatAssociative

-----------------------------------------------------------------------------
(* The invariant.                                                          *)

USE DEF Events!Closing, Told, QueuedEvents

LEMMA EventsStart == Events!Init => EventsInv
<1> SUFFICES ASSUME Events!Init PROVE EventsInv
  OBVIOUS
<1>1. Events!New \in StreamRecords /\ Events!New.pc = "new" /\ Events!New.queue = <<>> /\ Events!New.sent = <<>>
  BY DEF Events!New, StreamRecords
<1>2. StreamsTyped
  BY <1>1 DEF Events!Init, StreamsTyped
<1>3. \A s \in Streams : stream[s] = Events!New
  BY DEF Events!Init
<1>4. subscribers = {}
  BY DEF Events!Init
<1>5. StreamsFollowed
  BY <1>1, <1>3, <1>4 DEF StreamsFollowed
<1>6. Events!ListenersMissNothing
  BY <1>1, <1>3 DEF Events!ListenersMissNothing
<1> QED
  BY <1>2, <1>5, <1>6 DEF EventsInv

\* A step of one stream leaves the history, and the others, alone: what remains
\* to be shown is about that stream.
LEMMA StreamStep ==
  ASSUME EventsInv, NEW s \in Streams, NEW r \in StreamRecords,
         UNCHANGED <<committed, events, shut>>,
         stream' = [stream EXCEPT ![s] = r],
         \A t \in Streams : t # s => (t \in subscribers' <=> t \in subscribers),
         r.pc \in {"new", "answering"} =>
           r.queue = <<>> /\ r.sent = <<>> /\ s \notin subscribers',
         r.pc = "live" => r.joined <= Len(events),
         r.pc = "live" /\ ~shut => /\ s \in subscribers'
                                   /\ r.sent \o r.queue
                                        = SubSeq(events, r.joined + 1, Len(events))
  PROVE  EventsInv'
<1>1. stream'[s] = r /\ \A t \in Streams : t # s => stream'[t] = stream[t]
  BY DEF EventsInv, StreamsTyped
<1>2. StreamsTyped'
  BY DEF EventsInv, StreamsTyped
<1>3. StreamsFollowed'
  BY <1>1 DEF EventsInv, StreamsFollowed
<1>4. Events!ListenersMissNothing'
  BY <1>1 DEF EventsInv, Events!ListenersMissNothing
<1> QED
  BY <1>2, <1>3, <1>4 DEF EventsInv

\* Rows change without the streams.
LEMMA RowStep ==
  ASSUME EventsInv, committed' \subseteq Told, UNCHANGED <<events, stream, subscribers, shut>>
  PROVE  EventsInv'
BY DEF EventsInv, StreamsTyped, StreamsFollowed, Events!ListenersMissNothing

LEMMA PublishedEvents ==
  ASSUME EventsInv, NEW e \in Told, Events!Published(e)
  PROVE  EventsInv'
<1>1. /\ committed' \subseteq Told /\ events' = Append(events, e)
      /\ UNCHANGED <<subscribers, shut>>
      /\ stream' = [s \in Streams |-> IF s \in subscribers
                                      THEN [stream[s] EXCEPT !.queue = Append(@, e)]
                                      ELSE stream[s]]
      /\ events \in Seq(Told) /\ stream \in [Streams -> StreamRecords]
  BY DEF EventsInv, StreamsTyped, Events!Published, Events!Publish
<1>2. events' \in Seq(Told) /\ Len(events') = Len(events) + 1 /\ Len(events) \in Nat
  BY <1>1, AppendProperties, LenProperties
<1>3. ASSUME NEW s \in Streams
      PROVE  /\ stream'[s] \in StreamRecords /\ stream'[s].pc = stream[s].pc
             /\ stream'[s].sent = stream[s].sent /\ stream'[s].joined = stream[s].joined
             /\ s \in subscribers => stream'[s].queue = Append(stream[s].queue, e)
             /\ s \notin subscribers => stream'[s].queue = stream[s].queue
  <2>1. stream[s] \in StreamRecords /\ stream[s].queue \in Seq(QueuedEvents)
    BY <1>1 DEF StreamRecords
  <2>2. Append(stream[s].queue, e) \in Seq(QueuedEvents)
    BY <2>1, AppendProperties
  <2> QED
    BY <1>1, <2>1, <2>2 DEF StreamRecords
<1>4. StreamsTyped'
  BY <1>1, <1>2, <1>3 DEF StreamsTyped
<1>5. StreamsFollowed'
  <2> SUFFICES ASSUME NEW s \in Streams
               PROVE  /\ stream'[s].pc \in {"new", "answering"} =>
                           stream'[s].queue = <<>> /\ stream'[s].sent = <<>>
                      /\ stream'[s].pc \in {"new", "answering"} => s \notin subscribers'
                      /\ stream'[s].pc = "live" /\ ~shut' => s \in subscribers'
                      /\ stream'[s].pc = "live" => stream'[s].joined <= Len(events')
    BY DEF StreamsFollowed
  <2>1. stream[s].joined \in Nat
    BY <1>1 DEF StreamRecords
  <2> QED
    BY <1>1, <1>2, <1>3, <2>1 DEF EventsInv, StreamsFollowed
<1>6. Events!ListenersMissNothing'
  <2> SUFFICES ASSUME NEW s \in Streams, stream'[s].pc = "live", ~shut'
               PROVE  stream'[s].sent \o stream'[s].queue
                        = SubSeq(events', stream'[s].joined + 1, Len(events'))
    BY DEF Events!ListenersMissNothing
  <2> DEFINE j == stream[s].joined
             q == stream[s].queue
             a == stream[s].sent
  <2>1. j \in Nat /\ q \in Seq(QueuedEvents) /\ a \in Seq(QueuedEvents)
    BY <1>1 DEF StreamRecords
  <2>2. s \in subscribers /\ j <= Len(events) /\ a \o q = SubSeq(events, j + 1, Len(events))
    BY <1>1, <1>3 DEF EventsInv, StreamsFollowed, Events!ListenersMissNothing
  <2>3. stream'[s].queue = Append(q, e) /\ stream'[s].sent = a /\ stream'[s].joined = j
    BY <1>3, <2>2
  <2> HIDE DEF j, q, a
  <2>4. a \o Append(q, e) = Append(a \o q, e)
    BY <2>1, ConcatAppend
  <2>5. SubSeq(Append(events, e), j + 1, Len(Append(events, e)))
          = Append(SubSeq(events, j + 1, Len(events)), e)
    BY <1>1, <2>1, <2>2, SuffixGrows
  <2> QED
    BY <1>1, <2>2, <2>3, <2>4, <2>5
<1> QED
  BY <1>4, <1>5, <1>6 DEF EventsInv

LEMMA RequestEvents ==
  ASSUME EventsInv, NEW s \in Streams, Events!Request(s)
  PROVE  EventsInv'
<1> DEFINE r == [stream[s] EXCEPT !.pc = "answering", !.first = Events!FirstEvent]
<1>1. Events!FirstEvent \in Events!Closing \cup {None}
  BY DEF Events!FirstEvent, Events!Terminal
<1>2. stream[s] \in StreamRecords /\ stream[s].pc = "new"
  BY DEF EventsInv, StreamsTyped, Events!Request
<1>3. r \in StreamRecords /\ r.pc = "answering" /\ r.queue = stream[s].queue /\ r.sent = stream[s].sent
  BY <1>1, <1>2 DEF StreamRecords
<1>4. stream' = [stream EXCEPT ![s] = r] /\ UNCHANGED <<committed, events, subscribers, shut>>
  BY DEF Events!Request, EventsInv, StreamsTyped
<1> HIDE DEF r
<1>5. r.queue = <<>> /\ r.sent = <<>> /\ s \notin subscribers'
  BY <1>2, <1>3, <1>4 DEF EventsInv, StreamsFollowed
<1> QED
  BY <1>3, <1>4, <1>5, StreamStep

LEMMA ClosedEvents ==
  ASSUME EventsInv, NEW s \in Streams, Events!SendEnd(s) \/ Events!Leave(s)
  PROVE  EventsInv'
<1>1. PICK r \in StreamRecords : r.pc = "closed" /\ stream' = [stream EXCEPT ![s] = r]
  <2>1. stream[s] \in StreamRecords
    BY DEF EventsInv, StreamsTyped
  <2>2. CASE Events!SendEnd(s)
    <3>1. stream[s].first \in Events!Closing
      BY <2>1, <2>2 DEF Events!SendEnd, StreamRecords
    <3>2. <<stream[s].first>> \in Seq(QueuedEvents)
      BY <3>1
    <3>3. [stream[s] EXCEPT !.pc = "closed", !.sent = <<stream[s].first>>] \in StreamRecords
      BY <2>1, <3>2 DEF StreamRecords
    <3> QED
      BY <2>1, <2>2, <3>3 DEF Events!SendEnd, StreamRecords
  <2>3. CASE Events!Leave(s)
    <3>1. [stream[s] EXCEPT !.pc = "closed"] \in StreamRecords
      BY <2>1 DEF StreamRecords
    <3> QED
      BY <2>1, <2>3, <3>1 DEF Events!Leave, StreamRecords
  <2> QED
    BY <2>2, <2>3
<1>2. UNCHANGED <<committed, events, shut>>
  BY DEF Events!SendEnd, Events!Leave
<1>3. \A t \in Streams : t # s => (t \in subscribers' <=> t \in subscribers)
  BY DEF Events!SendEnd, Events!Leave, Events!Unsubscribe
<1> QED
  BY <1>1, <1>2, <1>3, StreamStep

LEMMA SubscribeEvents ==
  ASSUME EventsInv, NEW s \in Streams, Events!Subscribe(s)
  PROVE  EventsInv'
<1> DEFINE r == [stream[s] EXCEPT !.pc = "live", !.joined = Len(events)]
<1>1. stream[s] \in StreamRecords /\ events \in Seq(Told) /\ Len(events) \in Nat
  BY LenProperties DEF EventsInv, StreamsTyped
<1>2. r \in StreamRecords /\ r.pc = "live" /\ r.joined = Len(events)
      /\ r.queue = stream[s].queue /\ r.sent = stream[s].sent
  BY <1>1 DEF StreamRecords
<1>3. /\ stream' = [stream EXCEPT ![s] = r] /\ UNCHANGED <<committed, events, shut>>
      /\ subscribers' = subscribers \cup {s} /\ stream[s].pc = "answering"
  BY DEF Events!Subscribe, EventsInv, StreamsTyped
<1> HIDE DEF r
<1>4. r.queue = <<>> /\ r.sent = <<>>
  BY <1>2, <1>3 DEF EventsInv, StreamsFollowed
<1>5. SubSeq(events, Len(events) + 1, Len(events)) = <<>>
  BY <1>1, SubSeqEmpty
<1>6. r.sent \o r.queue = <<>>
  BY <1>4
<1>7. s \in subscribers' /\ \A t \in Streams : t # s => (t \in subscribers' <=> t \in subscribers)
  BY <1>3
<1>8. r.joined <= Len(events)
  BY <1>1, <1>2
<1>9. r.sent \o r.queue = SubSeq(events, r.joined + 1, Len(events))
  BY <1>2, <1>5, <1>6
<1> QED
  BY <1>2, <1>3, <1>7, <1>8, <1>9, StreamStep

LEMMA SendEvents ==
  ASSUME EventsInv, NEW s \in Streams, Events!Send(s)
  PROVE  EventsInv'
<1> DEFINE q == stream[s].queue
           a == stream[s].sent
           e == Head(q)
           next == [stream[s] EXCEPT !.queue = Tail(@), !.sent = Append(@, e)]
<1>1. /\ stream[s] \in StreamRecords /\ q \in Seq(QueuedEvents) /\ a \in Seq(QueuedEvents) /\ q # <<>>
      /\ stream[s].pc = "live" /\ UNCHANGED <<committed, events, shut>>
  BY DEF EventsInv, StreamsTyped, Events!Send, StreamRecords
<1>2. e \in QueuedEvents /\ Tail(q) \in Seq(QueuedEvents)
  BY <1>1, HeadTailProperties
<1>3. Append(a, e) \in Seq(QueuedEvents)
  BY <1>1, <1>2, AppendProperties
<1>4. /\ next \in StreamRecords /\ next.pc = "live" /\ next.queue = Tail(q)
      /\ next.sent = Append(a, e) /\ next.joined = stream[s].joined
  BY <1>1, <1>2, <1>3 DEF StreamRecords
<1>5. Append(a, e) \o Tail(q) = a \o q
  BY <1>1, HeadMoves
<1>6. \/ e = "progress" /\ stream' = [stream EXCEPT ![s] = next] /\ subscribers' = subscribers
      \/ /\ stream' = [stream EXCEPT ![s] = [stream[s] EXCEPT !.pc = "closed"]]
         /\ subscribers' = subscribers \ {s}
      \/ /\ stream' = [stream EXCEPT ![s] = [next EXCEPT !.pc = "closed"]]
         /\ subscribers' = subscribers \ {s}
  BY DEF Events!Send, Events!Unsubscribe, EventsInv, StreamsTyped
<1>7. CASE e = "progress" /\ stream' = [stream EXCEPT ![s] = next] /\ subscribers' = subscribers
  <2> HIDE DEF next, e, q, a
  <2>1. next.joined <= Len(events)
    BY <1>1, <1>4 DEF EventsInv, StreamsFollowed
  <2>2. ~shut => s \in subscribers' /\ a \o q = SubSeq(events, next.joined + 1, Len(events))
    BY <1>1, <1>4, <1>7 DEF EventsInv, StreamsFollowed, Events!ListenersMissNothing, q, a
  <2>3. next.sent \o next.queue = a \o q
    BY <1>4, <1>5
  <2> QED
    BY <1>1, <1>4, <1>7, <2>1, <2>2, <2>3, StreamStep
<1>8. CASE /\ stream' = [stream EXCEPT ![s] = [stream[s] EXCEPT !.pc = "closed"]]
           /\ subscribers' = subscribers \ {s}
  <2>1. [stream[s] EXCEPT !.pc = "closed"] \in StreamRecords
        /\ [stream[s] EXCEPT !.pc = "closed"].pc = "closed"
    BY <1>1 DEF StreamRecords
  <2> QED
    BY <1>1, <1>8, <2>1, StreamStep
<1>9. CASE /\ stream' = [stream EXCEPT ![s] = [next EXCEPT !.pc = "closed"]]
           /\ subscribers' = subscribers \ {s}
  <2>1. [next EXCEPT !.pc = "closed"] \in StreamRecords /\ [next EXCEPT !.pc = "closed"].pc = "closed"
    BY <1>4 DEF StreamRecords
  <2> HIDE DEF next
  <2> QED
    BY <1>1, <1>9, <2>1, StreamStep
<1> QED
  BY <1>6, <1>7, <1>8, <1>9

LEMMA CloseEvents ==
  ASSUME EventsInv, Events!Close
  PROVE  EventsInv'
<1>1. /\ UNCHANGED <<committed, events>> /\ shut' = TRUE /\ subscribers' = {}
      /\ stream' = [s \in Streams |-> IF s \in subscribers
                                      THEN [stream[s] EXCEPT !.queue = Append(@, "closed")]
                                      ELSE stream[s]]
      /\ stream \in [Streams -> StreamRecords]
  BY DEF Events!Close, EventsInv, StreamsTyped
<1>2. ASSUME NEW s \in Streams
      PROVE  /\ stream'[s] \in StreamRecords /\ stream'[s].pc = stream[s].pc
             /\ stream'[s].sent = stream[s].sent /\ stream'[s].joined = stream[s].joined
             /\ s \notin subscribers => stream'[s].queue = stream[s].queue
  <2>1. stream[s] \in StreamRecords /\ stream[s].queue \in Seq(QueuedEvents)
    BY <1>1 DEF StreamRecords
  <2>2. Append(stream[s].queue, "closed") \in Seq(QueuedEvents)
    BY <2>1, AppendProperties
  <2> QED
    BY <1>1, <2>1, <2>2 DEF StreamRecords
<1>3. StreamsTyped'
  BY <1>1, <1>2 DEF EventsInv, StreamsTyped
<1>4. StreamsFollowed'
  BY <1>1, <1>2 DEF EventsInv, StreamsFollowed
<1>5. Events!ListenersMissNothing'
  BY <1>1 DEF Events!ListenersMissNothing
<1> QED
  BY <1>3, <1>4, <1>5 DEF EventsInv

LEMMA EventsKept == EventsInv /\ [Events!Next]_(Events!vars) => EventsInv'
<1> SUFFICES ASSUME EventsInv, [Events!Next]_(Events!vars) PROVE EventsInv'
  OBVIOUS
<1>1. committed \subseteq Told
  BY DEF EventsInv, StreamsTyped
<1>2. CASE \/ Events!Promote \/ Events!Running \/ Events!DeleteAfterTtl \/ Events!Cancel
           \/ UNCHANGED Events!vars
  BY <1>1, <1>2, RowStep
     DEF Events!Promote, Events!Running, Events!DeleteAfterTtl, Events!Cancel, Events!vars
<1>3. ASSUME NEW e \in {"completed", "failed"}, Events!Ends(e) PROVE EventsInv'
  BY <1>1, <1>3, RowStep DEF Events!Ends
<1> QED
  BY <1>2, <1>3, PublishedEvents, RequestEvents, ClosedEvents, SubscribeEvents, SendEvents,
     CloseEvents
     DEF Events!Next

\* A browser whose stream is open misses nothing that happens to its job until
\* the site shuts down, however many streams open and leave beside it
\* (event_bus.py:69-106, jobs.py:745-770).
THEOREM ListenersHearAll ==
  (Events!Spec => []Events!ListenersMissNothing) /\ (ServicesSpec => []ListenersMissNothing)
<1>1. EventsInv => Events!ListenersMissNothing
  BY DEF EventsInv
<1>2. Events!Spec => []Events!ListenersMissNothing
  BY <1>1, EventsStart, EventsKept, PTL DEF Events!Spec
<1> DEFINE I == part = "events" => EventsInv
<1>3. ServicesInit => I
  BY EventsStart DEF ServicesInit, PartInit
<1>4. I /\ [PartNext]_allVars => I'
  BY EventsKept, PartStep
<1>5. I => ListenersMissNothing
  BY <1>1 DEF ListenersMissNothing
<1> HIDE DEF I
<1>6. ServicesSpec => []ListenersMissNothing
  BY <1>3, <1>4, <1>5, PTL DEF ServicesSpec
<1> QED
  BY <1>2, <1>6

-----------------------------------------------------------------------------
(* RuntimeSettings                                                         *)

Values == [Settings -> Updates \cup {None}]
Patches == [pc : {"new", "sending", "sent", "done", "failed"}, keys : SUBSET Settings,
            absent : SUBSET Settings]
UpdateLetters == [type : {"update"}, of : Updates]
AckLetters == [type : {"ack"}, config : Values]

SettingsTyped ==
  /\ patch \in [Updates -> Patches]
  /\ letters \subseteq UpdateLetters \cup AckLetters
  /\ stored \in Values /\ file \in Values /\ acked \in Values
  /\ turn \in [Updates -> Nat]

\* The turns of the updates that were applied are counted from 1.
Applied == {v \in Updates : turn[v] > 0}
TurnsCount == \A v \in Updates : turn[v] <= Cardinality(Applied)

\* An update is sent once, so one that is under way was not applied.
UpdatesOnce ==
  /\ \A u \in Updates : patch[u].pc \in {"new", "sending"} =>
       turn[u] = 0 /\ \A m \in letters : m.type = "update" => m.of # u
  /\ \A m \in letters : m.type = "update" => turn[m.of] = 0

\* What the worker holds or has acknowledged was applied.
ValuesApplied ==
  \A k \in Settings : \A v \in {stored[k], file[k], acked[k]} : v # None => turn[v] > 0

\* The settings f are no older than those acknowledged.
NoOlder(f) ==
  \A k \in Settings : acked[k] # None => f[k] # None /\ turn[f[k]] >= turn[acked[k]]

ConfigInv ==
  SettingsTyped /\ TurnsCount /\ UpdatesOnce /\ ValuesApplied /\ NoOlder(stored) /\ NoOlder(file)

LEMMA ConfigStart == Config!Init => ConfigInv
<1> SUFFICES ASSUME Config!Init PROVE ConfigInv
  OBVIOUS
<1>1. /\ patch = [u \in Updates |-> [pc |-> "new", keys |-> {}, absent |-> {}]] /\ letters = {}
      /\ stored = [k \in Settings |-> None] /\ file = stored /\ acked = stored
      /\ turn = [u \in Updates |-> 0]
  BY DEF Config!Init, Config!New, Config!Unset
<1>2. SettingsTyped
  BY <1>1 DEF SettingsTyped, Values, Patches
<1>3. Applied = {}
  BY <1>1 DEF Applied
<1>4. TurnsCount
  BY <1>1, <1>3, FS_EmptySet DEF TurnsCount
<1> QED
  BY <1>1, <1>2, <1>4 DEF ConfigInv, UpdatesOnce, ValuesApplied, NoOlder

\* The cardinality that RuntimeSettings counts with is the one of the theorems
\* about finite sets.
LEMMA SameCardinality ==
  ASSUME NEW S
  PROVE  Config!Cardinality(S) = Cardinality(S)
BY DEF Config!Cardinality, Cardinality

\* The turn of an update that is applied for the first time is the latest.
LEMMA TurnIsLatest ==
  ASSUME SettingsTyped, TurnsCount, NEW u \in Updates, turn[u] = 0, Config!Turn(u)
  PROVE  /\ turn' \in [Updates -> Nat]
         /\ turn'[u] > 0
         /\ \A v \in Updates \ {u} : turn'[v] = turn[v]
         /\ \A v \in Updates : turn'[v] <= turn'[u]
         /\ TurnsCount'
<1> DEFINE n == Cardinality(Applied)
<1>1. Applied \subseteq Updates /\ IsFiniteSet(Applied) /\ n \in Nat
  BY UpdatesAreFinite, FS_Subset, FS_CardinalityType DEF Applied
<1>2. turn' = [turn EXCEPT ![u] = 1 + n]
  BY SameCardinality DEF Config!Turn, Applied
<1>3. u \notin Applied /\ \A v \in Updates : turn[v] \in Nat
  BY DEF Applied, SettingsTyped
<1>4. Cardinality(Applied \cup {u}) = n + 1
  BY <1>1, <1>3, FS_AddElement
<1> HIDE DEF n
<1>5. /\ turn' \in [Updates -> Nat] /\ turn'[u] = 1 + n
      /\ \A v \in Updates \ {u} : turn'[v] = turn[v]
  BY <1>1, <1>2 DEF SettingsTyped
<1>6. \A v \in Updates : turn[v] <= n
  BY DEF TurnsCount, n
<1>7. Applied' = Applied \cup {u}
  BY <1>1, <1>3, <1>5 DEF Applied
<1>8. Cardinality(Applied') = n + 1
  BY <1>4, <1>7
<1>9. TurnsCount'
  BY <1>1, <1>3, <1>5, <1>6, <1>8 DEF TurnsCount
<1> QED
  BY <1>1, <1>3, <1>5, <1>6, <1>9

\* An update that the worker applies, wholly or in part, in memory, in the file
\* or in both: what it sets is newest, and what it leaves was no older.  What is
\* acknowledged is then in the file as well.
LEMMA UpdateApplied ==
  ASSUME ConfigInv, NEW m \in letters, m.type = "update", Config!Turn(m.of),
         UNCHANGED patch, letters' \subseteq (letters \ {m}) \cup AckLetters,
         NEW inMemory \in SUBSET Settings, NEW inFile \in SUBSET Settings,
         stored' \in {file, Config!After(m.of, inMemory), Config!After(m.of, inFile)},
         file' \in {file, Config!After(m.of, inFile)},
         acked' = acked \/ (acked' = file' /\ stored' = file')
  PROVE  ConfigInv'
<1> DEFINE u == m.of
<1>1. u \in Updates /\ turn[u] = 0
  BY DEF ConfigInv, SettingsTyped, UpdateLetters, AckLetters, UpdatesOnce
<1>2. /\ turn' \in [Updates -> Nat] /\ turn'[u] > 0
      /\ \A v \in Updates \ {u} : turn'[v] = turn[v]
      /\ \A v \in Updates : turn'[v] <= turn'[u]
      /\ TurnsCount'
  BY <1>1, TurnIsLatest DEF ConfigInv
<1> HIDE DEF u
<1>3. \A k \in Settings : /\ stored'[k] \in {stored[k], file[k], u}
                          /\ file'[k] \in {stored[k], file[k], u}
                          /\ acked'[k] = acked[k] \/ (acked'[k] = file'[k] /\ stored'[k] = file'[k])
  BY DEF Config!After, u
<1>4. stored' \in Values /\ file' \in Values /\ acked' \in Values
  <2>1. \A keys \in SUBSET Settings : Config!After(u, keys) \in Values
    BY <1>1 DEF Config!After, Values, ConfigInv, SettingsTyped
  <2> QED
    BY <2>1 DEF u, ConfigInv, SettingsTyped
<1>5. SettingsTyped'
  BY <1>2, <1>4 DEF ConfigInv, SettingsTyped
<1>6. \A k \in Settings : \A v \in {stored[k], file[k], acked[k]} :
        v # None => v \in Updates \ {u} /\ turn[v] > 0 /\ turn'[v] = turn[v]
  BY <1>1, <1>2 DEF ConfigInv, SettingsTyped, Values, ValuesApplied
<1>7. u # None
  BY <1>1, UpdatesAreFinite
<1>8. UpdatesOnce'
  <2>1. \A q \in letters' : q.type = "update" => q \in letters \ {m} /\ q \in UpdateLetters
    BY DEF ConfigInv, SettingsTyped, AckLetters
  <2>2. \A q \in UpdateLetters \cap (letters \ {m}) : q.of # u
    BY DEF ConfigInv, SettingsTyped, UpdateLetters, AckLetters, u
  <2>3. \A w \in Updates : patch[w].pc \in {"new", "sending"} => w # u
    BY DEF ConfigInv, UpdatesOnce, u
  <2> QED
    BY <1>2, <2>1, <2>2, <2>3 DEF ConfigInv, UpdatesOnce, UpdateLetters
<1>9. ValuesApplied'
  BY <1>2, <1>3, <1>6 DEF ValuesApplied
<1>10. NoOlder(stored)'
  <2> SUFFICES ASSUME NEW k \in Settings, acked'[k] # None
               PROVE  stored'[k] # None /\ turn'[stored'[k]] >= turn'[acked'[k]]
    BY DEF NoOlder
  <2>1. acked'[k] \in Updates /\ turn'[acked'[k]] \in Nat
    BY <1>2, <1>4 DEF Values
  <2>2. CASE acked'[k] = acked[k]
    <3>1. /\ stored[k] # None /\ turn[stored[k]] >= turn[acked[k]]
          /\ file[k] # None /\ turn[file[k]] >= turn[acked[k]]
      BY <2>2 DEF ConfigInv, NoOlder
    <3>2. /\ turn'[acked'[k]] = turn[acked[k]]
          /\ turn'[stored[k]] = turn[stored[k]] /\ turn'[file[k]] = turn[file[k]]
      BY <1>6, <2>2, <3>1
    <3>3. turn'[acked'[k]] <= turn'[u]
      BY <1>2, <2>1
    <3>4. turn'[u] \in Nat
      BY <1>1, <1>2
    <3> QED
      BY <1>3, <1>7, <2>1, <3>1, <3>2, <3>3, <3>4
  <2>3. CASE acked'[k] = file'[k] /\ stored'[k] = file'[k]
    BY <2>1, <2>3
  <2> QED
    BY <1>3, <2>2, <2>3
<1>11. NoOlder(file)'
  <2> SUFFICES ASSUME NEW k \in Settings, acked'[k] # None
               PROVE  file'[k] # None /\ turn'[file'[k]] >= turn'[acked'[k]]
    BY DEF NoOlder
  <2>1. acked'[k] \in Updates /\ turn'[acked'[k]] \in Nat
    BY <1>2, <1>4 DEF Values
  <2>2. CASE acked'[k] = acked[k]
    <3>1. /\ stored[k] # None /\ turn[stored[k]] >= turn[acked[k]]
          /\ file[k] # None /\ turn[file[k]] >= turn[acked[k]]
      BY <2>2 DEF ConfigInv, NoOlder
    <3>2. /\ turn'[acked'[k]] = turn[acked[k]]
          /\ turn'[stored[k]] = turn[stored[k]] /\ turn'[file[k]] = turn[file[k]]
      BY <1>6, <2>2, <3>1
    <3>3. turn'[acked'[k]] <= turn'[u]
      BY <1>2, <2>1
    <3>4. turn'[u] \in Nat
      BY <1>1, <1>2
    <3> QED
      BY <1>3, <1>7, <2>1, <3>1, <3>2, <3>3, <3>4
  <2>3. CASE acked'[k] = file'[k]
    BY <2>1, <2>3
  <2> QED
    BY <1>3, <2>2, <2>3
<1> QED
  BY <1>2, <1>5, <1>8, <1>9, <1>10, <1>11 DEF ConfigInv

\* The site's steps, and the loss of a message, leave what the worker holds; a
\* new letter is that of an update that was still to be sent.
LEMMA SettingsStand ==
  ASSUME ConfigInv, UNCHANGED <<stored, file, turn, acked>>,
         patch' \in [Updates -> Patches],
         \A u \in Updates : patch'[u].pc \in {"new", "sending"} => patch[u].pc \in {"new", "sending"},
         \A m \in letters' : \/ m \in letters
                             \/ /\ m \in UpdateLetters
                                /\ patch[m.of].pc = "sending" /\ patch'[m.of].pc = "sent"
  PROVE  ConfigInv'
<1>1. SettingsTyped'
  BY DEF ConfigInv, SettingsTyped
<1>2. UpdatesOnce'
  BY DEF ConfigInv, UpdatesOnce, UpdateLetters
<1> QED
  BY <1>1, <1>2 DEF ConfigInv, TurnsCount, Applied, ValuesApplied, NoOlder

LEMMA ConfigKept == ConfigInv /\ [Config!Next]_(Config!vars) => ConfigInv'
<1> SUFFICES ASSUME ConfigInv, [Config!Next]_(Config!vars) PROVE ConfigInv'
  OBVIOUS
<1> USE DEF Config!site, Config!worker
<1>1. patch \in [Updates -> Patches] /\ letters \subseteq UpdateLetters \cup AckLetters
  BY DEF ConfigInv, SettingsTyped
<1>2. CASE UNCHANGED Config!vars
  BY <1>1, <1>2, SettingsStand DEF Config!vars
<1>3. ASSUME NEW u \in Updates, Config!Patch(u) PROVE ConfigInv'
  BY <1>1, <1>3, SettingsStand DEF Config!Patch, Config!Absent, Patches
<1>4. ASSUME NEW u \in Updates, Config!Leaves(u) PROVE ConfigInv'
  <2>1. /\ patch' = [patch EXCEPT ![u].pc = "sent"] /\ patch[u].pc = "sending"
        /\ letters' = letters \cup {[type |-> "update", of |-> u]}
        /\ UNCHANGED <<stored, file, turn, acked>>
    BY <1>4 DEF Config!Leaves
  <2>2. patch' \in [Updates -> Patches] /\ patch'[u].pc = "sent"
        /\ \A w \in Updates \ {u} : patch'[w] = patch[w]
    BY <1>1, <2>1 DEF Patches
  <2>3. [type |-> "update", of |-> u] \in UpdateLetters
    BY DEF UpdateLetters
  <2> QED
    BY <2>1, <2>2, <2>3, SettingsStand
<1>5. ASSUME NEW u \in Updates, Config!SendRaises(u) \/ Config!Commit(u) PROVE ConfigInv'
  <2>1. PICK pc1 \in {"done", "failed"} : patch' = [patch EXCEPT ![u].pc = pc1]
    BY <1>5 DEF Config!SendRaises, Config!Commit
  <2>2. patch' \in [Updates -> Patches] /\ patch'[u].pc = pc1
        /\ \A w \in Updates \ {u} : patch'[w] = patch[w]
    BY <1>1, <2>1 DEF Patches
  <2>3. UNCHANGED <<stored, file, turn, acked, letters>>
    BY <1>5 DEF Config!SendRaises, Config!Commit
  <2> QED
    BY <2>2, <2>3, SettingsStand
<1>6. ASSUME NEW m \in letters, Config!OnAdminAck(m) \/ Config!Lost(m) PROVE ConfigInv'
  BY <1>1, <1>6, SettingsStand DEF Config!OnAdminAck, Config!Lost
<1>7. ASSUME NEW a \in acks, Config!AckCommits(a) PROVE ConfigInv'
  BY <1>1, <1>7, SettingsStand DEF Config!AckCommits
<1>8. CASE Config!Restart
  <2>1. stored' = file /\ UNCHANGED <<patch, letters, file, turn, acked>>
    BY <1>8 DEF Config!Restart
  <2> QED
    BY <2>1 DEF ConfigInv, SettingsTyped, TurnsCount, Applied, UpdatesOnce, ValuesApplied, NoOlder
<1>9. ASSUME NEW m \in letters, Config!Apply(m) PROVE ConfigInv'
  <2> DEFINE keys == patch[m.of].keys
  <2>1. m \in UpdateLetters /\ keys \in SUBSET Settings
    BY <1>1, <1>9 DEF Config!Apply, AckLetters, UpdateLetters, Patches
  <2>2. /\ stored' = Config!After(m.of, keys)
        /\ file' = IF keys = {} THEN file ELSE Config!After(m.of, keys)
        /\ Config!Turn(m.of) /\ m.type = "update" /\ UNCHANGED patch
    BY <1>9 DEF Config!Apply, Config!Sets
  <2>3. acked' = acked \/ (acked' = stored' /\ keys # {})
    BY <1>9 DEF Config!Apply
  <2>4. stored' \in Values
    <3>1. m.of \in Updates
      BY <2>1 DEF UpdateLetters
    <3> QED
      BY <2>1, <2>2, <3>1 DEF Config!After, Values, ConfigInv, SettingsTyped
  <2>5. letters' \subseteq (letters \ {m}) \cup AckLetters
    BY <1>9, <2>4 DEF Config!Apply, AckLetters
  <2> HIDE DEF keys
  <2> QED
    BY <2>1, <2>2, <2>3, <2>5, UpdateApplied
<1>10. ASSUME NEW m \in letters, Config!SaveFails(m) PROVE ConfigInv'
  <2>1. PICK k \in patch[m.of].keys : \E saved \in SUBSET (patch[m.of].keys \ {k}) :
          /\ stored' = Config!After(m.of, saved \cup {k})
          /\ file' = IF saved = {} THEN file ELSE Config!After(m.of, saved)
    BY <1>10 DEF Config!SaveFails
  <2>2. PICK saved \in SUBSET (patch[m.of].keys \ {k}) :
          /\ stored' = Config!After(m.of, saved \cup {k})
          /\ file' = IF saved = {} THEN file ELSE Config!After(m.of, saved)
    BY <2>1
  <2>3. m.of \in Updates /\ patch[m.of].keys \in SUBSET Settings
    BY <1>1, <1>10 DEF Config!SaveFails, AckLetters, UpdateLetters, Patches
  <2>4. saved \in SUBSET Settings /\ saved \cup {k} \in SUBSET Settings
    BY <2>3
  <2>5. /\ Config!Turn(m.of) /\ m.type = "update" /\ UNCHANGED <<patch, acked>>
        /\ letters' = letters \ {m}
    BY <1>10 DEF Config!SaveFails
  <2> QED
    BY <2>2, <2>4, <2>5, UpdateApplied
<1>11. ASSUME NEW m \in letters, Config!DiesApplying(m) PROVE ConfigInv'
  <2>1. PICK saved \in SUBSET patch[m.of].keys :
          file' = IF saved = {} THEN file ELSE Config!After(m.of, saved)
    BY <1>11 DEF Config!DiesApplying
  <2>2. saved \in SUBSET Settings
    BY <1>1, <1>11 DEF Config!DiesApplying, AckLetters, UpdateLetters, Patches
  <2>3. /\ Config!Turn(m.of) /\ m.type = "update" /\ UNCHANGED <<patch, acked>>
        /\ letters' = letters \ {m} /\ stored' = file'
    BY <1>11 DEF Config!DiesApplying
  <2> QED
    BY <2>1, <2>2, <2>3, UpdateApplied
<1> QED
  BY <1>2, <1>3, <1>4, <1>5, <1>6, <1>7, <1>8, <1>9, <1>10, <1>11 DEF Config!Next

\* A restart of the worker brings back no value older than one that it has
\* acknowledged, whatever saves fail and wherever it dies
\* (settings.py:156-160, 174-193).
THEOREM SettingsSurvive ==
  /\ Config!Spec => []Config!AcknowledgedSettingsSurvive
  /\ ServicesSpec => []AcknowledgedSettingsSurvive
<1>1. ConfigInv => Config!AcknowledgedSettingsSurvive
  BY DEF ConfigInv, NoOlder, Config!AcknowledgedSettingsSurvive
<1>2. Config!Spec => []Config!AcknowledgedSettingsSurvive
  BY <1>1, ConfigStart, ConfigKept, PTL DEF Config!Spec
<1> DEFINE I == part = "config" => ConfigInv
<1>3. ServicesInit => I
  BY ConfigStart DEF ServicesInit, PartInit
<1>4. I /\ [PartNext]_allVars => I'
  BY ConfigKept, PartStep
<1>5. I => AcknowledgedSettingsSurvive
  BY <1>1 DEF AcknowledgedSettingsSurvive
<1> HIDE DEF I
<1>6. ServicesSpec => []AcknowledgedSettingsSurvive
  BY <1>3, <1>4, <1>5, PTL DEF ServicesSpec
<1> QED
  BY <1>2, <1>6

-----------------------------------------------------------------------------
(* YtNotify                                                                *)

Polls == [pc : {"asleep", "fetching", "sending"}, seen : SUBSET Notify!Videos,
          new : SUBSET Notify!Videos, to : SUBSET Users]

NotifyTyped ==
  /\ published \in Nat
  /\ record \in Notify!Record \cup {None}
  /\ poll \in Polls
  /\ heard \in [Users -> [Notify!Videos -> 0 .. 2]]

\* The poll has announced v to u, and has still to note it.
JustTold(u, v) == poll.pc = "sending" /\ v \in poll.new /\ u \notin poll.to

\* Whoever heard of a video, heard of it once; if he still subscribes, the
\* record has noted it, or the poll is about to, and a poll that began since
\* knows of it.
HeardIsSeen ==
  \A u \in Users, v \in Notify!Videos :
    heard[u][v] > 0 =>
      /\ heard[u][v] = 1
      /\ u \in Notify!SubscribersOf(record) =>
           /\ v \in record.seen \/ JustTold(u, v)
           /\ poll.pc # "asleep" => v \in poll.seen \/ JustTold(u, v)
      /\ u \in poll.to =>
           /\ poll.pc = "fetching" => v \in poll.seen
           /\ poll.pc = "sending" => v \notin poll.new

AnnouncedInv == NotifyTyped /\ HeardIsSeen

LEMMA AnnouncedStart == Notify!Init => AnnouncedInv
<1> SUFFICES ASSUME Notify!Init PROVE AnnouncedInv
  OBVIOUS
<1>1. /\ published \in Nat /\ record \in Notify!Record \cup {None}
      /\ poll = [pc |-> "asleep", seen |-> {}, new |-> {}, to |-> {}]
      /\ heard = [u \in Users |-> [v \in Notify!Videos |-> 0]]
  BY DEF Notify!Init, Notify!Asleep, Notify!Unheard, Notify!Record, Notify!Latest,
     Notify!LatestOf, Notify!Videos
<1>2. NotifyTyped
  BY <1>1 DEF NotifyTyped, Polls
<1> QED
  BY <1>1, <1>2 DEF AnnouncedInv, HeardIsSeen

\* Subscribers go, with the record or without; those who stay find what the
\* record has seen.
LEMMA SubscribersGo ==
  ASSUME AnnouncedInv, UNCHANGED <<poll, heard>>, published' \in Nat,
         record' \in Notify!Record \cup {None},
         \A w \in Users : w \in Notify!SubscribersOf(record') =>
           w \in Notify!SubscribersOf(record) /\ record'.seen = record.seen
  PROVE  AnnouncedInv'
<1>1. NotifyTyped'
  BY DEF AnnouncedInv, NotifyTyped
<1>2. HeardIsSeen'
  BY DEF AnnouncedInv, HeardIsSeen, JustTold
<1> QED
  BY <1>1, <1>2 DEF AnnouncedInv

\* What the announcements depend on stays as it is.
LEMMA NobodyHears ==
  ASSUME AnnouncedInv, published' \in Nat, UNCHANGED <<record, poll, heard>>
  PROVE  AnnouncedInv'
BY SubscribersGo DEF AnnouncedInv, NotifyTyped

\* A subscription starts from nothing heard; the record keeps what it has seen.
LEMMA JoinAnnounced ==
  ASSUME AnnouncedInv, NEW u \in Users, Notify!Join(u)
  PROVE  AnnouncedInv'
<1>1. /\ record \in Notify!Record /\ record # None
      /\ UNCHANGED <<published, poll>> /\ published \in Nat
  BY DEF Notify!Join, AnnouncedInv, NotifyTyped
<1>2. CASE u \in record.subs
  BY <1>1, <1>2, NobodyHears DEF Notify!Join
<1>3. CASE u \notin record.subs
  <2>1. /\ record' = [record EXCEPT !.subs = @ \cup {u}]
        /\ heard' = [heard EXCEPT ![u] = Notify!Unheard]
    BY <1>3 DEF Notify!Join
  <2>2. /\ record' \in Notify!Record
        /\ record'.seen = record.seen /\ record'.subs = record.subs \cup {u}
    BY <1>1, <2>1 DEF Notify!Record
  <2>3. record' # None
    BY <2>2, NoneIsNoRecord
  <2>4. Notify!Unheard \in [Notify!Videos -> 0 .. 2]
        /\ \A v \in Notify!Videos : Notify!Unheard[v] = 0
    BY DEF Notify!Unheard
  <2>5. NotifyTyped'
    BY <1>1, <2>1, <2>2, <2>4 DEF AnnouncedInv, NotifyTyped
  <2>6. /\ \A v \in Notify!Videos : heard'[u][v] = 0
        /\ \A w \in Users \ {u} : heard'[w] = heard[w]
    BY <2>1, <2>4 DEF AnnouncedInv, NotifyTyped
  <2>7. HeardIsSeen'
    <3> SUFFICES ASSUME NEW w \in Users, NEW v \in Notify!Videos, heard'[w][v] > 0
                 PROVE  /\ heard'[w][v] = 1
                        /\ w \in Notify!SubscribersOf(record') =>
                             /\ v \in record'.seen \/ JustTold(w, v)'
                             /\ poll'.pc # "asleep" => v \in poll'.seen \/ JustTold(w, v)'
                        /\ w \in poll'.to =>
                             /\ poll'.pc = "fetching" => v \in poll'.seen
                             /\ poll'.pc = "sending" => v \notin poll'.new
      BY DEF HeardIsSeen
    <3>1. w # u /\ heard'[w] = heard[w]
      BY <2>6
    <3>2. JustTold(w, v)' = JustTold(w, v)
      BY <1>1 DEF JustTold
    <3>3. HeardIsSeen
      BY DEF AnnouncedInv
    <3>4. w \in Notify!SubscribersOf(record') => w \in Notify!SubscribersOf(record)
      BY <1>1, <2>2, <2>3, <3>1 DEF Notify!SubscribersOf
    <3> QED
      BY <1>1, <2>2, <3>1, <3>2, <3>3, <3>4 DEF HeardIsSeen
  <2> QED
    BY <2>5, <2>7 DEF AnnouncedInv
<1> QED
  BY <1>2, <1>3

LEMMA LeaveAnnounced ==
  ASSUME AnnouncedInv, NEW u \in Users, Notify!Leave(u)
  PROVE  AnnouncedInv'
<1>1. /\ UNCHANGED <<published, poll, heard>> /\ published \in Nat
      /\ record \in Notify!Record /\ record # None
  BY DEF Notify!Leave, AnnouncedInv, NotifyTyped
<1>2. CASE u \notin record.subs
  BY <1>1, <1>2, NobodyHears DEF Notify!Leave
<1>3. CASE u \in record.subs
  <2>1. record' = [record EXCEPT !.subs = @ \ {u}]
    BY <1>3 DEF Notify!Leave
  <2>2. /\ record' \in Notify!Record /\ record'.seen = record.seen
        /\ record'.subs = record.subs \ {u}
    BY <1>1, <2>1 DEF Notify!Record
  <2>3. \A w \in Users : w \in Notify!SubscribersOf(record') =>
          w \in Notify!SubscribersOf(record) /\ record'.seen = record.seen
    BY <1>1, <2>2 DEF Notify!SubscribersOf
  <2> QED
    BY <1>1, <2>2, <2>3, SubscribersGo
<1> QED
  BY <1>2, <1>3

\* A record is made anew, or removed: nobody subscribes.
LEMMA RecordAnnounced ==
  ASSUME AnnouncedInv, NEW u \in Users, Notify!MakeRecord(u) \/ Notify!Delete(u)
  PROVE  AnnouncedInv'
<1>1. UNCHANGED <<published, poll, heard>> /\ published \in Nat
  BY DEF Notify!MakeRecord, Notify!Delete, Notify!Replace, AnnouncedInv, NotifyTyped
<1>2. CASE Notify!MakeRecord(u)
  <2>1. PICK n \in 0 .. published : record' = [subs |-> {}, seen |-> Notify!LatestOf(n, SeedCount)]
    BY <1>2 DEF Notify!MakeRecord, Notify!Replace
  <2>2. record' \in Notify!Record /\ record'.subs = {}
    BY <2>1 DEF Notify!Record, Notify!LatestOf
  <2>3. record' # None
    BY <2>2, NoneIsNoRecord
  <2> QED
    BY <1>1, <2>2, <2>3, SubscribersGo DEF Notify!SubscribersOf
<1>3. CASE Notify!Delete(u)
  <2>1. record' = None
    BY <1>3 DEF Notify!Delete, Notify!Replace
  <2> QED
    BY <1>1, <2>1, SubscribersGo DEF Notify!SubscribersOf
<1> QED
  BY <1>2, <1>3

LEMMA PollAnnounced ==
  ASSUME AnnouncedInv, Notify!Poll
  PROVE  AnnouncedInv'
<1>1. /\ poll.pc = "asleep" /\ UNCHANGED <<published, record, heard>>
      /\ poll' = [pc |-> "fetching", seen |-> record.seen, new |-> {}, to |-> record.subs]
      /\ record # None
  BY DEF Notify!Poll, Notify!history, Notify!SubscribersOf
<1>2. NotifyTyped'
  BY <1>1 DEF AnnouncedInv, NotifyTyped, Polls, Notify!Record
<1>3. HeardIsSeen'
  BY <1>1 DEF AnnouncedInv, HeardIsSeen, JustTold, Notify!SubscribersOf
<1> QED
  BY <1>1, <1>2, <1>3 DEF AnnouncedInv

LEMMA FetchedAnnounced ==
  ASSUME AnnouncedInv, Notify!Fetched
  PROVE  AnnouncedInv'
<1>1. poll.pc = "fetching" /\ UNCHANGED <<published, record, heard>>
  BY DEF Notify!Fetched, Notify!history
<1>2. PICK videos \in {Notify!Latest(PollCount), {}} :
        poll' = IF videos \subseteq poll.seen THEN Notify!Asleep
                ELSE [poll EXCEPT !.pc = "sending", !.new = videos \ poll.seen]
  BY DEF Notify!Fetched
<1>3. videos \subseteq Notify!Videos
  BY DEF Notify!Latest, Notify!LatestOf
<1>4. poll \in Polls
  BY DEF AnnouncedInv, NotifyTyped
<1>5. CASE videos \subseteq poll.seen
  <2>1. poll' = [pc |-> "asleep", seen |-> {}, new |-> {}, to |-> {}]
    BY <1>2, <1>5 DEF Notify!Asleep
  <2>2. NotifyTyped'
    BY <1>1, <2>1 DEF AnnouncedInv, NotifyTyped, Polls
  <2>3. HeardIsSeen'
    BY <1>1, <2>1 DEF AnnouncedInv, HeardIsSeen, JustTold
  <2> QED
    BY <1>1, <2>2, <2>3 DEF AnnouncedInv
<1>6. CASE ~(videos \subseteq poll.seen)
  <2>1. poll' = [pc |-> "sending", seen |-> poll.seen, new |-> videos \ poll.seen, to |-> poll.to]
    BY <1>2, <1>4, <1>6 DEF Polls
  <2>2. NotifyTyped'
    BY <1>1, <1>3, <1>4, <2>1 DEF AnnouncedInv, NotifyTyped, Polls
  <2>3. HeardIsSeen'
    BY <1>1, <2>1 DEF AnnouncedInv, HeardIsSeen, JustTold
  <2> QED
    BY <1>1, <2>2, <2>3 DEF AnnouncedInv
<1> QED
  BY <1>5, <1>6

\* Whoever is told has not heard of the new videos; he has, once told.
LEMMA AnnounceAnnounced ==
  ASSUME AnnouncedInv, NEW u \in Users, Notify!Announce(u)
  PROVE  AnnouncedInv'
<1>1. /\ poll.pc = "sending" /\ u \in poll.to
      /\ poll' = [poll EXCEPT !.to = @ \ {u}]
      /\ UNCHANGED <<published, record>>
  BY DEF Notify!Announce
<1>2. poll \in Polls
  BY DEF AnnouncedInv, NotifyTyped
<1>3. /\ poll'.pc = "sending" /\ poll'.seen = poll.seen /\ poll'.new = poll.new
      /\ poll'.to = poll.to \ {u} /\ poll' \in Polls
  BY <1>1, <1>2 DEF Polls
<1>4. heard \in [Users -> [Notify!Videos -> 0 .. 2]]
  BY DEF AnnouncedInv, NotifyTyped
<1>5. CASE heard' = heard
  <2>1. NotifyTyped'
    BY <1>1, <1>3, <1>5 DEF AnnouncedInv, NotifyTyped
  <2>2. HeardIsSeen'
    BY <1>1, <1>3, <1>5 DEF AnnouncedInv, HeardIsSeen, JustTold
  <2> QED
    BY <1>1, <2>1, <2>2 DEF AnnouncedInv
<1>6. CASE heard' = [heard EXCEPT ![u] = [v \in Notify!Videos |->
                       IF v \in poll.new /\ @[v] < 2 THEN @[v] + 1 ELSE @[v]]]
  <2>1. /\ \A w \in Users \ {u} : heard'[w] = heard[w]
        /\ \A v \in Notify!Videos :
             heard'[u][v] = IF v \in poll.new /\ heard[u][v] < 2 THEN heard[u][v] + 1 ELSE heard[u][v]
    BY <1>4, <1>6
  <2>2. heard' \in [Users -> [Notify!Videos -> 0 .. 2]]
    <3>1. \A v \in Notify!Videos :
            (IF v \in poll.new /\ heard[u][v] < 2 THEN heard[u][v] + 1 ELSE heard[u][v]) \in 0 .. 2
      BY <1>4
    <3> QED
      BY <1>4, <1>6, <3>1
  <2>3. NotifyTyped'
    BY <1>1, <1>3, <2>2 DEF AnnouncedInv, NotifyTyped
  <2>4. ASSUME NEW w \in Users, NEW v \in Notify!Videos, heard'[w][v] > 0
        PROVE  /\ heard'[w][v] = 1
               /\ w \in Notify!SubscribersOf(record) => v \in record.seen \/ JustTold(w, v)'
               /\ w \in Notify!SubscribersOf(record) => v \in poll.seen \/ JustTold(w, v)'
               /\ w \in poll'.to => v \notin poll.new
    <3>1. HeardIsSeen
      BY <2>4 DEF AnnouncedInv
    <3>2. JustTold(w, v)' <=> v \in poll.new /\ (w \notin poll.to \/ w = u)
      BY <1>3 DEF JustTold
    <3>3. CASE w # u
      BY <1>1, <1>3, <2>1, <2>4, <3>1, <3>2, <3>3 DEF HeardIsSeen, JustTold
    <3>4. CASE w = u /\ v \in poll.new
      <4>1. heard[u][v] \in 0 .. 2 /\ ~(heard[u][v] > 0)
        BY <1>1, <1>4, <3>1, <3>4 DEF HeardIsSeen
      <4> QED
        BY <1>3, <2>1, <3>2, <3>4, <4>1
    <3>5. CASE w = u /\ v \notin poll.new
      BY <1>1, <1>3, <2>1, <2>4, <3>1, <3>2, <3>5 DEF HeardIsSeen, JustTold
    <3> QED
      BY <3>3, <3>4, <3>5
  <2>5. HeardIsSeen'
    BY <1>1, <1>3, <2>4 DEF HeardIsSeen
  <2> QED
    BY <1>1, <2>3, <2>5 DEF AnnouncedInv
<1> QED
  BY <1>5, <1>6 DEF Notify!Announce

\* The record that the poll writes back knows of what the poll announced.
LEMMA NotedAnnounced ==
  ASSUME AnnouncedInv, Notify!PollNotes
  PROVE  AnnouncedInv'
<1>1. /\ poll.pc = "sending" /\ poll.to = {}
      /\ poll' = [pc |-> "asleep", seen |-> {}, new |-> {}, to |-> {}]
      /\ UNCHANGED <<published, heard>>
  BY DEF Notify!PollNotes, Notify!Asleep, Notify!history
<1>2. CASE record = None
  <2>1. UNCHANGED record
    BY <1>2 DEF Notify!PollNotes
  <2>2. NotifyTyped'
    BY <1>1, <2>1 DEF AnnouncedInv, NotifyTyped, Polls
  <2>3. HeardIsSeen'
    BY <1>1, <1>2, <2>1 DEF AnnouncedInv, HeardIsSeen, Notify!SubscribersOf
  <2> QED
    BY <1>1, <2>2, <2>3 DEF AnnouncedInv
<1>3. CASE record # None
  <2>1. record \in Notify!Record /\ poll \in Polls
    BY <1>3 DEF AnnouncedInv, NotifyTyped
  <2>2. record' = [record EXCEPT !.seen = poll.new \cup poll.seen]
    BY <1>3 DEF Notify!PollNotes, Notify!SeenAfter
  <2>3. /\ record' \in Notify!Record
        /\ record'.subs = record.subs /\ record'.seen = poll.new \cup poll.seen
    BY <2>1, <2>2 DEF Notify!Record, Polls
  <2>4. NotifyTyped'
    BY <1>1, <2>2, <2>3 DEF AnnouncedInv, NotifyTyped, Polls
  <2>5. record' # None
    BY <2>3, NoneIsNoRecord
  <2>6. HeardIsSeen'
    BY <1>1, <1>3, <2>3, <2>5 DEF AnnouncedInv, HeardIsSeen, JustTold, Notify!SubscribersOf
  <2> QED
    BY <1>1, <2>4, <2>6 DEF AnnouncedInv
<1> QED
  BY <1>2, <1>3

LEMMA AnnouncedKept == AnnouncedInv /\ [Notify!Next]_(Notify!vars) => AnnouncedInv'
<1> SUFFICES ASSUME AnnouncedInv, [Notify!Next]_(Notify!vars) PROVE AnnouncedInv'
  OBVIOUS
<1>1. published \in Nat
  BY DEF AnnouncedInv, NotifyTyped
<1>2. CASE Notify!Publish
  BY <1>1, <1>2, NobodyHears DEF Notify!Publish
<1>3. ASSUME NEW u \in Users,
             \/ Notify!Subscribe(u) \/ Notify!Unsubscribe(u) \/ Notify!Unresolved(u) \/ Notify!Seed(u)
             \/ Notify!Hold(u) \/ Notify!JoinAstray(u) \/ Notify!LeaveAstray(u) \/ Notify!Confirm(u)
      PROVE  AnnouncedInv'
  BY <1>1, <1>3, NobodyHears
  DEF Notify!Subscribe, Notify!Unsubscribe, Notify!Command, Notify!Unresolved, Notify!Seed,
      Notify!Hold, Notify!JoinAstray, Notify!LeaveAstray, Notify!Confirm, Notify!history
<1>4. ASSUME NEW u \in Users, Notify!Join(u) PROVE AnnouncedInv'
  BY <1>4, JoinAnnounced
<1>5. ASSUME NEW u \in Users, Notify!MakeRecord(u) \/ Notify!Delete(u) PROVE AnnouncedInv'
  BY <1>5, RecordAnnounced
<1>6. ASSUME NEW u \in Users, Notify!Leave(u) PROVE AnnouncedInv'
  BY <1>6, LeaveAnnounced
<1>7. ASSUME NEW u \in Users, Notify!Announce(u) PROVE AnnouncedInv'
  BY <1>7, AnnounceAnnounced
<1>8. CASE UNCHANGED Notify!vars
  BY <1>1, <1>8, NobodyHears DEF Notify!vars, Notify!history
<1> QED
  BY <1>2, <1>3, <1>4, <1>5, <1>6, <1>7, <1>8, PollAnnounced, FetchedAnnounced, NotedAnnounced
  DEF Notify!Next

LEMMA HeardAtMostOnce == AnnouncedInv => Notify!AnnouncedOnce
<1> SUFFICES ASSUME AnnouncedInv, NEW u \in Users, NEW v \in Notify!Videos
             PROVE  heard[u][v] <= 1
  BY DEF Notify!AnnouncedOnce
<1>1. heard[u][v] \in 0 .. 2 /\ (heard[u][v] > 0 => heard[u][v] = 1)
  BY DEF AnnouncedInv, NotifyTyped, HeardIsSeen
<1> QED
  BY <1>1

\* One process announces no video twice to a user within one subscription,
\* although the poll works on a copy of the record that commands change, remove
\* and make anew meanwhile, however many of them run at once
\* (yt_notify.py:387-446).
THEOREM HeardOnce == (Notify!Spec => []Notify!AnnouncedOnce) /\ (ServicesSpec => []AnnouncedOnce)
<1>1. Notify!Spec => []Notify!AnnouncedOnce
  BY AnnouncedStart, AnnouncedKept, HeardAtMostOnce, PTL DEF Notify!Spec
<1>2. ServicesSpec => []AnnouncedOnce
  <2> DEFINE I == part = "notify" => AnnouncedInv
  <2>1. ServicesInit => I
    BY AnnouncedStart DEF ServicesInit, PartInit
  <2>2. I /\ [PartNext]_allVars => I'
    BY AnnouncedKept, PartStep
  <2>3. I => AnnouncedOnce
    BY HeardAtMostOnce DEF AnnouncedOnce
  <2> HIDE DEF I
  <2> QED
    BY <2>1, <2>2, <2>3, PTL DEF ServicesSpec
<1> QED
  BY <1>1, <1>2

\* Where a command is.
Calls == {"idle", "resolving", "seeding", "joining", "holding", "astray", "added",
          "leaving", "letting", "leaving astray", "deleting"}

ReachTyped ==
  /\ NotifyTyped
  /\ call \in [Users -> Calls]
  /\ confirmed \subseteq Users
  /\ due \in [Users -> SUBSET Notify!Videos]

\* No copy knows of a video that has not appeared.
Past(videos) == videos \subseteq 1 .. published

PastSeen == Past(Notify!SeenOf(record)) /\ Past(poll.seen) /\ Past(poll.new)

\* The record has u, and a poll that fetches will announce to him.
Listed(u) ==
  /\ u \in Notify!SubscribersOf(record)
  /\ poll.pc = "fetching" => u \in poll.to

\* What is due to u is noted nowhere, and the poll does not note it unannounced.
Unnoted(u) ==
  /\ due[u] \cap Notify!SeenOf(record) = {}
  /\ poll.pc # "asleep" => due[u] \cap poll.seen = {}
  /\ poll.pc = "sending" => u \in poll.to \/ due[u] \cap poll.new = {}

Served ==
  \A u \in Users \ overlooked :
    /\ call[u] = "added" \/ u \in confirmed => Listed(u)
    /\ u \in confirmed => Unnoted(u)

ReachInv == ReachTyped /\ PastSeen /\ Served

LEMMA ReachStart == Notify!Init => ReachInv
<1> SUFFICES ASSUME Notify!Init PROVE ReachInv
  OBVIOUS
<1>1. /\ published \in 0 .. MaxVideos
      /\ poll = [pc |-> "asleep", seen |-> {}, new |-> {}, to |-> {}]
      /\ call = [u \in Users |-> "idle"] /\ confirmed = {} /\ due = [u \in Users |-> {}]
  BY DEF Notify!Init, Notify!Asleep
<1>2. ReachTyped
  BY <1>1, AnnouncedStart DEF ReachTyped, Calls, AnnouncedInv
<1>3. Notify!SeenOf(record) \subseteq Notify!Latest(published)
  BY DEF Notify!Init, Notify!SeenOf
<1>4. Notify!Latest(published) \subseteq 1 .. published
  BY <1>1 DEF Notify!Latest, Notify!LatestOf, Notify!Videos
<1>5. PastSeen
  BY <1>1, <1>3, <1>4 DEF PastSeen, Past
<1>6. Served
  BY <1>1 DEF Served
<1> QED
  BY <1>2, <1>5, <1>6 DEF ReachInv

\* Nobody is confirmed, or added without being overlooked, who was not.
LEMMA ReachKept ==
  ASSUME ReachInv, NotifyTyped', UNCHANGED <<published, record, poll, due>>,
         call' \in [Users -> Calls], confirmed' \subseteq confirmed,
         \A u \in Users \ overlooked' :
           u \notin overlooked /\ (call'[u] = "added" => call[u] = "added")
  PROVE  ReachInv'
<1>1. ReachTyped'
  BY DEF ReachInv, ReachTyped
<1>2. PastSeen'
  BY DEF ReachInv, PastSeen, Past
<1>3. Served'
  BY DEF ReachInv, Served, Listed, Unnoted
<1> QED
  BY <1>1, <1>2, <1>3 DEF ReachInv

LEMMA CommandReach ==
  ASSUME ReachInv, NotifyTyped', NEW u \in Users,
         \/ Notify!Subscribe(u) \/ Notify!Unsubscribe(u) \/ Notify!Unresolved(u) \/ Notify!Seed(u)
         \/ Notify!Hold(u) \/ Notify!JoinAstray(u) \/ Notify!LeaveAstray(u)
  PROVE  ReachInv'
<1>1. call \in [Users -> Calls]
  BY DEF ReachInv, ReachTyped
<1>2. ASSUME NEW to \in Calls, call' = [call EXCEPT ![u] = to], to # "added" \/ u \in overlooked',
             UNCHANGED <<published, record, poll, due>>,
             confirmed' \subseteq confirmed, overlooked \subseteq overlooked'
      PROVE  ReachInv'
  BY <1>1, <1>2, ReachKept
<1>3. CASE Notify!JoinAstray(u)
  BY <1>2, <1>3 DEF Notify!JoinAstray, Notify!To, Calls
<1>4. CASE Notify!LeaveAstray(u)
  BY <1>2, <1>4 DEF Notify!LeaveAstray, Notify!To, Calls
<1>5. CASE Notify!Hold(u)
  BY <1>2, <1>5 DEF Notify!Hold, Notify!To, Notify!history, Calls
<1>6. CASE Notify!Subscribe(u) \/ Notify!Unsubscribe(u) \/ Notify!Unresolved(u) \/ Notify!Seed(u)
  BY <1>2, <1>6 DEF Notify!Subscribe, Notify!Unsubscribe, Notify!Command, Notify!Unresolved,
                    Notify!Seed, Notify!To, Notify!history, Calls
<1> QED
  BY <1>3, <1>4, <1>5, <1>6

LEMMA PublishReach ==
  ASSUME ReachInv, NotifyTyped', Notify!Publish
  PROVE  ReachInv'
<1>1. /\ published \in Nat /\ published < MaxVideos /\ published' = published + 1
      /\ due' = [u \in Users |-> IF u \in confirmed THEN due[u] \cup {published'} ELSE due[u]]
      /\ UNCHANGED <<record, call, poll, confirmed, heard, overlooked>>
  BY DEF Notify!Publish, ReachInv, ReachTyped, NotifyTyped
<1>2. published' \notin 1 .. published /\ 1 .. published \subseteq 1 .. published'
      /\ (MaxVideos \in Nat => published' \in Notify!Videos)
  BY <1>1 DEF Notify!Videos
<1>3. ReachTyped'
  BY <1>1, <1>2, VideosAreBounded DEF ReachInv, ReachTyped
<1>4. PastSeen'
  BY <1>1, <1>2 DEF ReachInv, PastSeen, Past
<1>5. Served'
  <2> SUFFICES ASSUME NEW u \in Users \ overlooked
               PROVE  /\ call[u] = "added" \/ u \in confirmed => Listed(u)'
                      /\ u \in confirmed => Unnoted(u)'
    BY <1>1 DEF Served
  <2>1. Listed(u)' <=> Listed(u)
    BY <1>1 DEF Listed
  <2>2. ASSUME u \in confirmed PROVE Unnoted(u)'
    <3>1. due'[u] = due[u] \cup {published'}
      BY <1>1, <2>2
    <3>2. Unnoted(u)
      BY <2>2 DEF ReachInv, Served
    <3>3. /\ published' \notin Notify!SeenOf(record)
          /\ published' \notin poll.seen /\ published' \notin poll.new
      BY <1>2 DEF ReachInv, PastSeen, Past
    <3> QED
      BY <1>1, <3>1, <3>2, <3>3 DEF Unnoted
  <2> QED
    BY <2>1, <2>2 DEF ReachInv, Served
<1> QED
  BY <1>3, <1>4, <1>5 DEF ReachInv

LEMMA JoinReach ==
  ASSUME ReachInv, NotifyTyped', NEW u \in Users, Notify!Join(u)
  PROVE  ReachInv'
<1>1. /\ record \in Notify!Record /\ record # None
      /\ UNCHANGED <<published, poll, due>> /\ call \in [Users -> Calls]
  BY DEF Notify!Join, ReachInv, ReachTyped, NotifyTyped
<1>2. CASE u \in record.subs
  <2>1. call' = [call EXCEPT ![u] = "idle"] /\ UNCHANGED <<record, confirmed, heard, overlooked>>
    BY <1>2 DEF Notify!Join, Notify!To
  <2> QED
    BY <1>1, <2>1, ReachKept DEF Calls
<1>3. CASE u \notin record.subs
  <2>1. /\ record' = [record EXCEPT !.subs = @ \cup {u}]
        /\ confirmed' = confirmed \ {u}
        /\ overlooked' = IF poll.pc = "asleep" THEN overlooked \ {u} ELSE overlooked \cup {u}
        /\ call' = [call EXCEPT ![u] = "added"]
    BY <1>3 DEF Notify!Join, Notify!To
  <2>2. /\ record' \in Notify!Record
        /\ record'.seen = record.seen /\ record'.subs = record.subs \cup {u}
    BY <1>1, <2>1 DEF Notify!Record
  <2>3. record' # None
    BY <2>2, NoneIsNoRecord
  <2>4. /\ Notify!SeenOf(record') = Notify!SeenOf(record)
        /\ Notify!SubscribersOf(record') = Notify!SubscribersOf(record) \cup {u}
    BY <1>1, <2>2, <2>3 DEF Notify!SeenOf, Notify!SubscribersOf
  <2>5. ReachTyped'
    BY <1>1, <2>1 DEF ReachInv, ReachTyped, Calls
  <2>6. PastSeen'
    BY <1>1, <2>4 DEF ReachInv, PastSeen, Past
  <2>7. ASSUME NEW v \in Users \ overlooked'
        PROVE  /\ call'[v] = "added" \/ v \in confirmed' => Listed(v)'
               /\ v \in confirmed' => Unnoted(v)'
    <3>1. CASE v = u
      BY <1>1, <2>1, <2>4, <2>7, <3>1 DEF Listed
    <3>2. CASE v # u
      <4>1. v \notin overlooked /\ call'[v] = call[v] /\ (v \in confirmed' <=> v \in confirmed)
        BY <1>1, <2>1, <2>7, <3>2
      <4> QED
        BY <1>1, <2>4, <4>1 DEF ReachInv, Served, Listed, Unnoted
    <3> QED
      BY <3>1, <3>2
  <2>8. Served'
    BY <2>7 DEF Served
  <2> QED
    BY <2>5, <2>6, <2>8 DEF ReachInv
<1> QED
  BY <1>2, <1>3

LEMMA LeaveReach ==
  ASSUME ReachInv, NotifyTyped', NEW u \in Users, Notify!Leave(u)
  PROVE  ReachInv'
<1>1. /\ record \in Notify!Record /\ record # None /\ confirmed' = confirmed \ {u}
      /\ UNCHANGED <<published, poll, due, overlooked>> /\ call \in [Users -> Calls]
      /\ call[u] = "letting"
  BY DEF Notify!Leave, ReachInv, ReachTyped, NotifyTyped
<1>2. CASE u \notin record.subs
  <2>1. call' = [call EXCEPT ![u] = "idle"] /\ UNCHANGED record
    BY <1>2 DEF Notify!Leave, Notify!To
  <2> QED
    BY <1>1, <2>1, ReachKept DEF Calls
<1>3. CASE u \in record.subs
  <2>1. /\ record' = [record EXCEPT !.subs = @ \ {u}]
        /\ call' = [call EXCEPT ![u] = IF record.subs = {u} THEN "deleting" ELSE "idle"]
    BY <1>3 DEF Notify!Leave, Notify!To
  <2>2. /\ record' \in Notify!Record
        /\ record'.seen = record.seen /\ record'.subs = record.subs \ {u}
    BY <1>1, <2>1 DEF Notify!Record
  <2>3. record' # None
    BY <2>2, NoneIsNoRecord
  <2>4. /\ Notify!SeenOf(record') = Notify!SeenOf(record)
        /\ Notify!SubscribersOf(record') = Notify!SubscribersOf(record) \ {u}
    BY <1>1, <2>2, <2>3 DEF Notify!SeenOf, Notify!SubscribersOf
  <2>5. ReachTyped'
    BY <1>1, <2>1 DEF ReachInv, ReachTyped, Calls
  <2>6. PastSeen'
    BY <1>1, <2>4 DEF ReachInv, PastSeen, Past
  <2>7. ASSUME NEW v \in Users \ overlooked', call'[v] = "added" \/ v \in confirmed'
        PROVE  Listed(v)' /\ (v \in confirmed' => Unnoted(v)')
    <3>1. v # u
      BY <1>1, <2>1, <2>7
    <3>2. v \notin overlooked /\ call'[v] = call[v] /\ (v \in confirmed' <=> v \in confirmed)
      BY <1>1, <2>1, <2>7, <3>1
    <3> QED
      BY <1>1, <2>4, <2>7, <3>1, <3>2 DEF ReachInv, Served, Listed, Unnoted
  <2>8. Served'
    BY <2>7 DEF Served
  <2> QED
    BY <2>5, <2>6, <2>8 DEF ReachInv
<1> QED
  BY <1>2, <1>3

\* Whom the record loses, or forgets the making of, is overlooked; the others
\* were not in it.
LEMMA RecordReach ==
  ASSUME ReachInv, NotifyTyped', NEW u \in Users, Notify!MakeRecord(u) \/ Notify!Delete(u)
  PROVE  ReachInv'
<1>1. /\ overlooked' = overlooked \cup Notify!SubscribersOf(record)
      /\ UNCHANGED <<published, poll, confirmed, due>> /\ published \in Nat
      /\ call \in [Users -> Calls]
  BY DEF Notify!MakeRecord, Notify!Delete, Notify!Replace, ReachInv, ReachTyped, NotifyTyped
<1>2. /\ call' \in [Users -> Calls]
      /\ \A v \in Users : call'[v] = "added" => call[v] = "added"
  <2>1. PICK to \in {"joining", "idle"} :
          call' = [v \in Users |-> IF v = u THEN to
                                   ELSE CASE call[v] = "holding" -> "astray"
                                          [] call[v] = "letting" -> "leaving astray"
                                          [] OTHER -> call[v]]
    BY DEF Notify!MakeRecord, Notify!Delete, Notify!Replace
  <2> QED
    BY <1>1, <2>1 DEF Calls
<1>3. Notify!SeenOf(record') \subseteq 1 .. published
  <2>1. CASE Notify!Delete(u)
    BY <2>1 DEF Notify!Delete, Notify!Replace, Notify!SeenOf
  <2>2. CASE Notify!MakeRecord(u)
    <3>1. PICK n \in 0 .. published : record' = [subs |-> {}, seen |-> Notify!LatestOf(n, SeedCount)]
      BY <2>2 DEF Notify!MakeRecord, Notify!Replace
    <3>2. Notify!LatestOf(n, SeedCount) \subseteq 1 .. published
      BY <1>1 DEF Notify!LatestOf, Notify!Videos
    <3>3. record' # None
      BY <3>1, NoneIsNoRecord DEF Notify!Record, Notify!LatestOf
    <3> QED
      BY <3>1, <3>2, <3>3 DEF Notify!SeenOf
  <2> QED
    BY <2>1, <2>2
<1>4. ReachTyped'
  BY <1>1, <1>2 DEF ReachInv, ReachTyped
<1>5. PastSeen'
  BY <1>1, <1>3 DEF ReachInv, PastSeen, Past
<1>6. ASSUME NEW v \in Users \ overlooked' PROVE call'[v] # "added" /\ v \notin confirmed'
  BY <1>1, <1>2, <1>6 DEF ReachInv, Served, Listed
<1>7. Served'
  BY <1>6 DEF Served
<1> QED
  BY <1>4, <1>5, <1>7 DEF ReachInv

LEMMA ConfirmReach ==
  ASSUME ReachInv, NotifyTyped', NEW u \in Users, Notify!Confirm(u)
  PROVE  ReachInv'
<1>1. /\ call[u] = "added" /\ call' = [call EXCEPT ![u] = "idle"]
      /\ confirmed' = confirmed \cup {u} /\ due' = [due EXCEPT ![u] = {}]
      /\ UNCHANGED <<published, record, poll, overlooked>>
  BY DEF Notify!Confirm, Notify!To
<1>2. call \in [Users -> Calls] /\ due \in [Users -> SUBSET Notify!Videos]
  BY DEF ReachInv, ReachTyped
<1>3. ReachTyped'
  BY <1>1, <1>2 DEF ReachInv, ReachTyped, Calls
<1>4. PastSeen'
  BY <1>1 DEF ReachInv, PastSeen, Past
<1>5. Served'
  BY <1>1, <1>2 DEF ReachInv, Served, Listed, Unnoted
<1> QED
  BY <1>3, <1>4, <1>5 DEF ReachInv

\* The copy has what the record has: whoever is listed is announced to, and
\* nothing that is due to him is seen.
LEMMA PollReach ==
  ASSUME ReachInv, NotifyTyped', Notify!Poll
  PROVE  ReachInv'
<1>1. /\ poll.pc = "asleep" /\ UNCHANGED <<published, record, call, confirmed, due, overlooked>>
      /\ poll' = [pc |-> "fetching", seen |-> record.seen, new |-> {}, to |-> record.subs]
      /\ record # None
  BY DEF Notify!Poll, Notify!history, Notify!SubscribersOf
<1>2. ReachTyped'
  BY <1>1 DEF ReachInv, ReachTyped
<1>3. PastSeen'
  BY <1>1 DEF ReachInv, PastSeen, Past, Notify!SeenOf
<1>4. Served'
  BY <1>1 DEF ReachInv, Served, Listed, Unnoted, Notify!SeenOf, Notify!SubscribersOf
<1> QED
  BY <1>2, <1>3, <1>4 DEF ReachInv

LEMMA FetchedReach ==
  ASSUME ReachInv, NotifyTyped', Notify!Fetched
  PROVE  ReachInv'
<1>1. /\ poll.pc = "fetching" /\ UNCHANGED <<published, record, call, confirmed, due, overlooked>>
      /\ published \in Nat /\ poll \in Polls
  BY DEF Notify!Fetched, Notify!history, ReachInv, ReachTyped, NotifyTyped
<1>2. PICK videos \in {Notify!Latest(PollCount), {}} :
        poll' = IF videos \subseteq poll.seen THEN Notify!Asleep
                ELSE [poll EXCEPT !.pc = "sending", !.new = videos \ poll.seen]
  BY DEF Notify!Fetched
<1>3. videos \subseteq 1 .. published
  BY <1>1 DEF Notify!Latest, Notify!LatestOf, Notify!Videos
<1>4. ReachTyped'
  BY <1>1 DEF ReachInv, ReachTyped
<1>5. \/ poll' = [pc |-> "asleep", seen |-> {}, new |-> {}, to |-> {}]
      \/ poll' = [pc |-> "sending", seen |-> poll.seen, new |-> videos \ poll.seen, to |-> poll.to]
  BY <1>1, <1>2 DEF Notify!Asleep, Polls
<1>6. PastSeen'
  <2>1. poll'.seen \subseteq poll.seen /\ poll'.new \subseteq videos
    BY <1>5
  <2> QED
    BY <1>1, <1>3, <2>1 DEF ReachInv, PastSeen, Past
<1>7. Served'
  BY <1>1, <1>5 DEF ReachInv, Served, Listed, Unnoted
<1> QED
  BY <1>4, <1>6, <1>7 DEF ReachInv

LEMMA AnnounceReach ==
  ASSUME ReachInv, NotifyTyped', NEW u \in Users, Notify!Announce(u)
  PROVE  ReachInv'
<1>1. /\ poll.pc = "sending" /\ u \in poll.to
      /\ poll' = [poll EXCEPT !.to = @ \ {u}]
      /\ due' = [due EXCEPT ![u] = @ \ poll.new]
      /\ UNCHANGED <<published, record, call, confirmed, overlooked>>
      /\ poll \in Polls /\ due \in [Users -> SUBSET Notify!Videos]
  BY DEF Notify!Announce, ReachInv, ReachTyped, NotifyTyped
<1>2. /\ poll'.pc = "sending" /\ poll'.seen = poll.seen /\ poll'.new = poll.new
      /\ poll'.to = poll.to \ {u}
  BY <1>1 DEF Polls
<1>3. /\ due'[u] = due[u] \ poll.new
      /\ \A v \in Users \ {u} : due'[v] = due[v]
  BY <1>1
<1>4. ReachTyped'
  BY <1>1 DEF ReachInv, ReachTyped
<1>5. PastSeen'
  BY <1>1, <1>2 DEF ReachInv, PastSeen, Past
<1>6. ASSUME NEW v \in Users \ overlooked
      PROVE  /\ call[v] = "added" \/ v \in confirmed => Listed(v)'
             /\ v \in confirmed => Unnoted(v)'
  BY <1>1, <1>2, <1>3, <1>6 DEF ReachInv, Served, Listed, Unnoted
<1>7. Served'
  BY <1>1, <1>6 DEF Served
<1> QED
  BY <1>4, <1>5, <1>7 DEF ReachInv

LEMMA NotedReach ==
  ASSUME ReachInv, NotifyTyped', Notify!PollNotes
  PROVE  ReachInv'
<1>1. /\ poll.pc = "sending" /\ poll.to = {}
      /\ poll' = [pc |-> "asleep", seen |-> {}, new |-> {}, to |-> {}]
      /\ UNCHANGED <<published, call, confirmed, due, overlooked>>
  BY DEF Notify!PollNotes, Notify!Asleep, Notify!history
<1>2. /\ Notify!SubscribersOf(record') = Notify!SubscribersOf(record)
      /\ Notify!SeenOf(record') \subseteq poll.new \cup poll.seen
  <2>1. CASE record = None
    BY <2>1 DEF Notify!PollNotes, Notify!SubscribersOf, Notify!SeenOf
  <2>2. CASE record # None
    <3>1. record' = [record EXCEPT !.seen = poll.new \cup poll.seen]
      BY <2>2 DEF Notify!PollNotes, Notify!SeenAfter
    <3>2. record \in Notify!Record /\ poll \in Polls
      BY <2>2 DEF ReachInv, ReachTyped, NotifyTyped
    <3>3. /\ record' \in Notify!Record
          /\ record'.subs = record.subs /\ record'.seen = poll.new \cup poll.seen
      BY <3>1, <3>2 DEF Notify!Record, Polls
    <3>4. record' # None
      BY <3>3, NoneIsNoRecord
    <3> QED
      BY <2>2, <3>3, <3>4 DEF Notify!SubscribersOf, Notify!SeenOf
  <2> QED
    BY <2>1, <2>2
<1>3. ReachTyped'
  BY <1>1 DEF ReachInv, ReachTyped
<1>4. PastSeen'
  BY <1>1, <1>2 DEF ReachInv, PastSeen, Past
<1>5. Served'
  BY <1>1, <1>2 DEF ReachInv, Served, Listed, Unnoted
<1> QED
  BY <1>3, <1>4, <1>5 DEF ReachInv

LEMMA ReachNext ==
  AnnouncedInv /\ ReachInv /\ [Notify!Next]_(Notify!vars) => ReachInv'
<1> SUFFICES ASSUME AnnouncedInv, ReachInv, [Notify!Next]_(Notify!vars) PROVE ReachInv'
  OBVIOUS
<1>1. NotifyTyped'
  BY AnnouncedKept DEF AnnouncedInv
<1>2. ASSUME NEW u \in Users,
             \/ Notify!Subscribe(u) \/ Notify!Unsubscribe(u) \/ Notify!Unresolved(u) \/ Notify!Seed(u)
             \/ Notify!Hold(u) \/ Notify!JoinAstray(u) \/ Notify!LeaveAstray(u)
      PROVE  ReachInv'
  BY <1>1, <1>2, CommandReach
<1>3. ASSUME NEW u \in Users, Notify!Join(u) PROVE ReachInv'
  BY <1>1, <1>3, JoinReach
<1>4. ASSUME NEW u \in Users, Notify!Leave(u) PROVE ReachInv'
  BY <1>1, <1>4, LeaveReach
<1>5. ASSUME NEW u \in Users, Notify!MakeRecord(u) \/ Notify!Delete(u) PROVE ReachInv'
  BY <1>1, <1>5, RecordReach
<1>6. ASSUME NEW u \in Users, Notify!Confirm(u) PROVE ReachInv'
  BY <1>1, <1>6, ConfirmReach
<1>7. ASSUME NEW u \in Users, Notify!Announce(u) PROVE ReachInv'
  BY <1>1, <1>7, AnnounceReach
<1>8. CASE UNCHANGED Notify!vars
  <2>1. /\ UNCHANGED <<published, record, poll, due, call, confirmed, overlooked>>
        /\ call \in [Users -> Calls]
    BY <1>8 DEF Notify!vars, Notify!history, ReachInv, ReachTyped
  <2> QED
    BY <1>1, <2>1, ReachKept
<1> QED
  BY <1>1, <1>2, <1>3, <1>4, <1>5, <1>6, <1>7, <1>8, PublishReach, PollReach, FetchedReach, NotedReach
  DEF Notify!Next

LEMMA ReachSuffices == ReachInv => Notify!NewVideosReachSubscribers
BY DEF ReachInv, ReachTyped, Served, Unnoted, Notify!NewVideosReachSubscribers

\* What a poll has noted as seen was announced to everybody whose subscription
\* had been confirmed when it appeared, for any number of users, videos and
\* commands at once, except to those who joined while a poll went on or whose
\* record was replaced or removed (rub.py:3265, yt_notify.py:387-446).
THEOREM VideosReachSubscribers ==
  /\ Notify!Spec => []Notify!NewVideosReachSubscribers
  /\ ServicesSpec => []NewVideosReachSubscribers
<1>1. Notify!Spec => []Notify!NewVideosReachSubscribers
  <2>1. AnnouncedInv /\ ReachInv /\ [Notify!Next]_(Notify!vars) => AnnouncedInv' /\ ReachInv'
    BY AnnouncedKept, ReachNext
  <2> QED
    BY AnnouncedStart, ReachStart, <2>1, ReachSuffices, PTL DEF Notify!Spec
<1>2. ServicesSpec => []NewVideosReachSubscribers
  <2> DEFINE I == part = "notify" => AnnouncedInv /\ ReachInv
  <2>1. ServicesInit => I
    BY AnnouncedStart, ReachStart DEF ServicesInit, PartInit
  <2>2. I /\ [PartNext]_allVars => I'
    BY AnnouncedKept, ReachNext, PartStep
  <2>3. I => NewVideosReachSubscribers
    BY ReachSuffices DEF NewVideosReachSubscribers
  <2> HIDE DEF I
  <2> QED
    BY <2>1, <2>2, <2>3, PTL DEF ServicesSpec
<1> QED
  BY <1>1, <1>2

-----------------------------------------------------------------------------
(* QobuzCredentials                                                        *)

Cached == [number : Nat, fresh : BOOLEAN]

Callers ==
  [pc : {"idle", "credentials", "calling", "token", "login", "logging in"},
   for : {"request", "stream"}, force : BOOLEAN, with : Nat, sick : BOOLEAN,
   outcome : {"none", "ok", "failed"}]

\* Whoever has been refused once calls with what Qobuz accepts, unless
\* something went wrong; a login is for a stream.
Healthy(c, now) ==
  /\ c.pc = "calling" /\ c.for = "request" /\ c.force => c.with = now \/ c.sick
  /\ c.pc \in {"token", "login", "logging in"} => c.for = "stream"
  /\ c.pc = "token" => ~c.force
  /\ c.pc = "idle" /\ c.outcome = "failed" /\ c.for = "request" => c.sick

QobuzInv ==
  /\ live \in Nat /\ shown \in Nat
  /\ cache \in Cached \cup {None} /\ disk \in Cached \cup {None} /\ token \in Nat \cup {None}
  /\ thread \in [Threads -> Callers]
  /\ \A t \in Threads : Healthy(thread[t], live)

LEMMA QobuzStart ==
  ASSUME Qobuz!Init
  PROVE  QobuzInv
<1>1. /\ live \in Nat /\ shown \in Nat /\ cache = None /\ token = None
      /\ disk \in Cached \cup {None}
  BY DEF Qobuz!Init, Qobuz!Numbers, Cached
<1>2. thread = [t \in Threads |-> Qobuz!Idle] /\ Qobuz!Idle \in Callers /\ Healthy(Qobuz!Idle, live)
  BY DEF Qobuz!Init, Qobuz!Idle, Callers, Healthy
<1> QED
  BY <1>1, <1>2 DEF QobuzInv

\* A step of one thread.
LEMMA QobuzSteps ==
  ASSUME QobuzInv, NEW t \in Threads, NEW c \in Callers, Qobuz!Step(t, c), Healthy(c, live),
         cache' \in Cached \cup {None}, disk' \in Cached \cup {None}, token' \in Nat \cup {None}
  PROVE  QobuzInv'
<1>1. thread' = [thread EXCEPT ![t] = c] /\ UNCHANGED <<live, shown>>
  BY DEF Qobuz!Step
<1>2. thread' \in [Threads -> Callers]
  BY <1>1 DEF QobuzInv
<1>3. \A u \in Threads : Healthy(thread'[u], live)
  BY <1>1 DEF QobuzInv, Healthy
<1> QED
  BY <1>1, <1>2, <1>3 DEF QobuzInv

LEMMA QobuzKept ==
  ASSUME QobuzInv, [Qobuz!Next]_(Qobuz!vars)
  PROVE  QobuzInv'
<1>1. /\ live \in Nat /\ shown \in Nat /\ thread \in [Threads -> Callers]
      /\ cache \in Cached \cup {None} /\ disk \in Cached \cup {None} /\ token \in Nat \cup {None}
      /\ \A t \in Threads : Healthy(thread[t], live)
  BY DEF QobuzInv
<1>2. CASE Qobuz!Rotate
  <2>1. live' \in Nat /\ UNCHANGED <<shown, cache, disk, token>>
    BY <1>1, <1>2 DEF Qobuz!Rotate, Qobuz!stored
  <2>2. \A t \in Threads : [thread[t] EXCEPT !.sick = TRUE] \in Callers
    BY <1>1 DEF Callers
  <2>3. thread' \in [Threads -> Callers]
    BY <1>2, <2>2 DEF Qobuz!Rotate
  <2>4. \A t \in Threads : Healthy([thread[t] EXCEPT !.sick = TRUE], live')
    BY <1>1 DEF Healthy, Callers
  <2>5. \A t \in Threads : Healthy(thread'[t], live')
    BY <1>2, <2>4 DEF Qobuz!Rotate
  <2> QED
    BY <1>1, <2>1, <2>3, <2>5 DEF QobuzInv
<1>3. CASE Qobuz!PlayerFollows \/ Qobuz!TokenExpires \/ UNCHANGED Qobuz!vars
  BY <1>1, <1>3 DEF Qobuz!PlayerFollows, Qobuz!TokenExpires, Qobuz!vars, Qobuz!stored, QobuzInv
<1>4. CASE Qobuz!DayPasses
  <2>1. \A c \in Cached \cup {None} : Qobuz!Aged(c) \in Cached \cup {None}
    BY DEF Qobuz!Aged, Cached
  <2> QED
    BY <1>1, <1>4, <2>1 DEF Qobuz!DayPasses, QobuzInv
<1>5. CASE Qobuz!Restart
  <2>1. Qobuz!Idle \in Callers /\ Healthy(Qobuz!Idle, live)
    BY DEF Qobuz!Idle, Callers, Healthy
  <2> QED
    BY <1>1, <1>5, <2>1 DEF Qobuz!Restart, QobuzInv
<1>6. ASSUME NEW t \in Threads, Qobuz!ThreadStep(t) PROVE QobuzInv'
  <2>1. thread[t] \in Callers /\ Healthy(thread[t], live)
    BY <1>1
  <2>2. ASSUME NEW n \in Nat, thread[t].force => n = live
        PROVE  Qobuz!Given(t, n) \in Callers /\ Healthy(Qobuz!Given(t, n), live)
    BY <2>1, <2>2 DEF Qobuz!Given, Callers, Healthy
  <2>3. ASSUME NEW c \in Callers, Qobuz!Step(t, c), Healthy(c, live),
               cache' \in Cached \cup {None}, disk' \in Cached \cup {None}, token' \in Nat \cup {None}
        PROVE  QobuzInv'
    BY <2>3, QobuzSteps
  <2>4. CASE Qobuz!FromMemory(t)
    BY <1>1, <2>2, <2>3, <2>4 DEF Qobuz!FromMemory, Qobuz!Wants, Qobuz!Fresh, Qobuz!stored, Cached
  <2>5. CASE Qobuz!FromDisk(t)
    BY <1>1, <2>2, <2>3, <2>5 DEF Qobuz!FromDisk, Qobuz!Wants, Qobuz!Fresh, Cached
  <2>6. CASE Qobuz!Scrape(t)
    <3> DEFINE c == [thread[t] EXCEPT !.sick = @ \/ shown # live]
    <3>1. c \in Callers /\ Healthy(c, live)
      BY <2>1 DEF Callers, Healthy
    <3> QED
      BY <1>1, <2>3, <2>6, <3>1 DEF Qobuz!Scrape, Qobuz!stored
  <2>7. CASE Qobuz!Scraped(t)
    <3>1. /\ cache' = [number |-> shown, fresh |-> TRUE] /\ disk' \in {disk, cache'}
          /\ token' = token /\ shown = live /\ Qobuz!Step(t, Qobuz!Given(t, shown))
      BY <2>7 DEF Qobuz!Scraped
    <3>2. \A n \in Nat : [number |-> n, fresh |-> TRUE] \in Cached
      BY DEF Cached
    <3>3. cache' \in Cached
      BY <1>1, <3>1, <3>2
    <3>4. disk' \in Cached \cup {None}
      BY <1>1, <3>1, <3>3
    <3> QED
      BY <1>1, <2>2, <2>3, <3>1, <3>3, <3>4
  <2>8. CASE Qobuz!NotScraped(t)
    <3> DEFINE c == [Qobuz!Given(t, Qobuz!Fallback.number) EXCEPT !.sick = TRUE]
    <3>1. Qobuz!Fallback \in Cached /\ Qobuz!Fallback.number \in Nat
      BY <1>1 DEF Qobuz!Fallback, Cached
    <3>2. c \in Callers /\ Healthy(c, live)
      BY <2>1, <3>1 DEF Qobuz!Given, Callers, Healthy
    <3> QED
      BY <1>1, <2>3, <2>8, <3>1, <3>2 DEF Qobuz!NotScraped
  <2>9. CASE Qobuz!Ask(t) \/ Qobuz!AskStream(t)
    <3>1. /\ [Qobuz!Idle EXCEPT !.pc = "credentials"] \in Callers
          /\ [Qobuz!Idle EXCEPT !.pc = "token", !.for = "stream"] \in Callers
          /\ Healthy([Qobuz!Idle EXCEPT !.pc = "credentials"], live)
          /\ Healthy([Qobuz!Idle EXCEPT !.pc = "token", !.for = "stream"], live)
      BY DEF Qobuz!Idle, Callers, Healthy
    <3> QED
      BY <1>1, <2>3, <2>9, <3>1 DEF Qobuz!Ask, Qobuz!AskStream, Qobuz!stored
  <2>10. CASE Qobuz!Answered(t)
    <3> DEFINE c == IF thread[t].with = live THEN Qobuz!Finish(t, "ok")
                    ELSE IF thread[t].force THEN Qobuz!Finish(t, "failed")
                    ELSE [thread[t] EXCEPT !.pc = "credentials", !.force = TRUE]
    <3>1. c \in Callers
      BY <2>1 DEF Qobuz!Finish, Callers
    <3>2. Healthy(c, live)
      BY <2>1, <2>10 DEF Qobuz!Answered, Qobuz!Finish, Callers, Healthy
    <3> QED
      BY <1>1, <2>3, <2>10, <3>1, <3>2 DEF Qobuz!Answered, Qobuz!stored
  <2>11. CASE Qobuz!NetworkFails(t)
    <3> DEFINE c == [Qobuz!Finish(t, "failed") EXCEPT !.sick = TRUE]
    <3>1. c \in Callers /\ Healthy(c, live)
      BY <2>1 DEF Qobuz!Finish, Callers, Healthy
    <3> QED
      BY <1>1, <2>3, <2>11, <3>1 DEF Qobuz!NetworkFails, Qobuz!stored
  <2>12. CASE Qobuz!TokenCached(t)
    <3> DEFINE c == [thread[t] EXCEPT !.pc = "calling", !.with = token]
    <3>1. token \in Nat
      BY <1>1, <2>12 DEF Qobuz!TokenCached
    <3>2. c \in Callers /\ Healthy(c, live)
      BY <2>1, <2>12, <3>1 DEF Qobuz!TokenCached, Callers, Healthy
    <3> QED
      BY <1>1, <2>3, <2>12, <3>2 DEF Qobuz!TokenCached, Qobuz!stored
  <2>13. CASE Qobuz!Login(t)
    <3> DEFINE c == [thread[t] EXCEPT !.pc = "login"]
    <3>1. c \in Callers /\ Healthy(c, live)
      BY <2>1, <2>13 DEF Qobuz!Login, Callers, Healthy
    <3> QED
      BY <1>1, <2>3, <2>13, <3>1 DEF Qobuz!Login, Qobuz!stored
  <2>14. CASE Qobuz!LoggedIn(t)
    <3> DEFINE in == [thread[t] EXCEPT !.pc = "calling"]
    <3>1. in \in Callers /\ Qobuz!Finish(t, "failed") \in Callers
      BY <2>1 DEF Qobuz!Finish, Callers
    <3>2. Healthy(in, live) /\ Healthy(Qobuz!Finish(t, "failed"), live)
      BY <2>1, <2>14 DEF Qobuz!LoggedIn, Qobuz!Finish, Callers, Healthy
    <3>3. token' \in Nat \cup {None} /\ UNCHANGED <<cache, disk>>
      BY <1>1, <2>1, <2>14 DEF Qobuz!LoggedIn, Callers
    <3> QED
      BY <1>1, <2>3, <2>14, <3>1, <3>2, <3>3 DEF Qobuz!LoggedIn
  <2>15. CASE Qobuz!StreamAnswered(t)
    <3>1. \A result \in {"ok", "failed"} :
            Qobuz!Finish(t, result) \in Callers /\ Healthy(Qobuz!Finish(t, result), live)
      BY <2>1, <2>15 DEF Qobuz!StreamAnswered, Qobuz!Finish, Callers, Healthy
    <3> QED
      BY <1>1, <2>3, <2>15, <3>1 DEF Qobuz!StreamAnswered, Qobuz!stored
  <2> QED
    BY <1>6, <2>4, <2>5, <2>6, <2>7, <2>8, <2>9, <2>10, <2>11, <2>12, <2>13, <2>14, <2>15
    DEF Qobuz!ThreadStep
<1> QED
  BY <1>2, <1>3, <1>4, <1>5, <1>6 DEF Qobuz!Next

\* A signed request during which Qobuz did not rotate, the web player showed
\* the valid credentials and the network worked succeeds, whatever memory and
\* file held when it began and whatever other threads put there meanwhile
\* (qobuz.py:594-620, 664-668).
THEOREM RequestsSucceed ==
  /\ Qobuz!Spec => []Qobuz!HealthyRequestsSucceed
  /\ ServicesSpec => []HealthyRequestsSucceed
<1>1. QobuzInv => Qobuz!HealthyRequestsSucceed
  BY DEF QobuzInv, Healthy, Qobuz!HealthyRequestsSucceed
<1>2. QobuzInv /\ [Qobuz!Next]_(Qobuz!vars) => QobuzInv'
  BY QobuzKept
<1>3. Qobuz!Init => QobuzInv
  BY QobuzStart
<1>4. Qobuz!Spec => []Qobuz!HealthyRequestsSucceed
  BY <1>1, <1>2, <1>3, PTL DEF Qobuz!Spec
<1> DEFINE I == part = "qobuz" => QobuzInv
<1>5. ServicesInit => I
  BY <1>3 DEF ServicesInit, PartInit
<1>6. I /\ [PartNext]_allVars => I'
  BY <1>2, PartStep
<1>7. I => HealthyRequestsSucceed
  BY <1>1 DEF HealthyRequestsSucceed
<1> HIDE DEF I
<1>8. ServicesSpec => []HealthyRequestsSucceed
  BY <1>5, <1>6, <1>7, PTL DEF ServicesSpec
<1> QED
  BY <1>4, <1>8

-----------------------------------------------------------------------------
(* MonochromeTracks                                                        *)

\* The callers that are inside "async with _token_lock".
Inside(t) == thread[t] \in {"holding", "fetch"}

\* As long as nobody took the lock when it was no longer free, whoever is
\* inside is alone and the lock is taken; whoever fetches has found no token.
OneInside ==
  /\ \A t \in TidalThreads : Inside(t) => locked
  /\ \A t, u \in TidalThreads : Inside(t) /\ Inside(u) => t = u
  /\ \A t \in TidalThreads : thread[t] = "fetch" => memory # "valid"

TracksInv ==
  /\ DOMAIN thread = TidalThreads
  /\ locked \in BOOLEAN /\ raced \in BOOLEAN
  /\ ~raced => OneInside

LEMMA TracksStart == Tracks!Init => TracksInv
BY DEF Tracks!Init, TracksInv, OneInside, Inside

\* A download moves on outside the lock.
LEMMA OutsideKept ==
  ASSUME TracksInv, NEW t \in TidalThreads, NEW where, where \notin {"holding", "fetch"},
         Tracks!To(t, where), UNCHANGED <<memory, locked, raced>>
  PROVE  TracksInv'
<1>1. /\ DOMAIN thread' = TidalThreads /\ thread'[t] = where
      /\ \A u \in TidalThreads \ {t} : thread'[u] = thread[u]
  BY DEF Tracks!To, TracksInv
<1>2. ~raced => OneInside'
  BY <1>1 DEF TracksInv, OneInside, Inside
<1> QED
  BY <1>1, <1>2 DEF TracksInv

\* The lock is taken.  If it was free, nobody is inside.
LEMMA TakeKept ==
  ASSUME TracksInv, NEW t \in TidalThreads, Tracks!Take(t), UNCHANGED memory
  PROVE  TracksInv'
<1>1. /\ DOMAIN thread' = TidalThreads /\ thread'[t] = "holding"
      /\ \A u \in TidalThreads \ {t} : thread'[u] = thread[u]
  BY DEF Tracks!Take, Tracks!To, TracksInv
<1>2. locked' = TRUE /\ raced' = (raced \/ locked)
  BY DEF Tracks!Take
<1>3. ASSUME ~raced' PROVE OneInside'
  <2>1. ~locked /\ OneInside
    BY <1>2, <1>3 DEF TracksInv
  <2>2. \A u \in TidalThreads \ {t} : ~Inside(u) /\ thread'[u] = thread[u]
    BY <1>1, <2>1 DEF OneInside
  <2>3. \A u \in TidalThreads : Inside(u)' => u = t
    BY <2>2 DEF Inside
  <2>4. \A u \in TidalThreads : thread'[u] # "fetch"
    BY <1>1, <2>2 DEF Inside
  <2> QED
    BY <1>2, <2>3, <2>4 DEF OneInside
<1> QED
  BY <1>1, <1>2, <1>3 DEF TracksInv

\* Whoever is inside leaves, and keeps the token it has found.
LEMMA ReleaseKept ==
  ASSUME TracksInv, NEW t \in TidalThreads, Inside(t), NEW where,
         where \notin {"holding", "fetch"}, Tracks!Release(t, where)
  PROVE  TracksInv'
<1>1. PICK there : there \notin {"holding", "fetch"} /\ Tracks!To(t, there)
  BY DEF Tracks!Release
<1>2. /\ DOMAIN thread' = TidalThreads /\ thread'[t] = there
      /\ \A u \in TidalThreads \ {t} : thread'[u] = thread[u]
  BY <1>1 DEF Tracks!To, TracksInv
<1>3. locked' = FALSE /\ raced' = raced
  BY DEF Tracks!Release
<1>4. ASSUME ~raced PROVE OneInside'
  <2>1. \A u \in TidalThreads \ {t} : ~Inside(u)
    BY <1>4 DEF TracksInv, OneInside
  <2>2. \A u \in TidalThreads : thread'[u] \notin {"holding", "fetch"}
    BY <1>1, <1>2, <2>1 DEF Inside
  <2> QED
    BY <2>2 DEF OneInside, Inside
<1> QED
  BY <1>2, <1>3, <1>4 DEF TracksInv

\* It fetches when neither the memory nor the disk has a token.
LEMMA LockedKept ==
  ASSUME TracksInv, NEW t \in TidalThreads, Tracks!Locked(t)
  PROVE  TracksInv'
<1>1. thread[t] = "holding" /\ Inside(t)
  BY DEF Tracks!Locked, Inside
<1>2. CASE Tracks!Release(t, "direct")
  BY <1>1, <1>2, ReleaseKept
<1>3. CASE Tracks!Fetch(t) /\ memory # "valid"
  <2>1. /\ DOMAIN thread' = TidalThreads /\ thread'[t] = "fetch"
        /\ \A u \in TidalThreads \ {t} : thread'[u] = thread[u]
        /\ UNCHANGED <<memory, locked, raced>>
    BY <1>3 DEF Tracks!Fetch, Tracks!To, Tracks!lock, TracksInv
  <2>2. ~raced => OneInside'
    BY <1>1, <1>3, <2>1 DEF TracksInv, OneInside, Inside
  <2> QED
    BY <2>1, <2>2 DEF TracksInv
<1> QED
  BY <1>2, <1>3 DEF Tracks!Locked, Tracks!Recheck

LEMMA TracksKept ==
  ASSUME TracksInv, [Tracks!Next]_(Tracks!vars)
  PROVE  TracksInv'
<1>1. ASSUME NEW t \in TidalThreads,
             \/ Tracks!Start(t) \/ Tracks!Searched(t) \/ Tracks!StreamAsked(t) \/ Tracks!Direct(t)
             \/ Tracks!AudioEnds(t) \/ Tracks!TokenInMemory(t)
      PROVE  TracksInv'
  <2>1. UNCHANGED <<memory, locked, raced>>
    BY <1>1 DEF Tracks!Start, Tracks!Searched, Tracks!StreamAsked, Tracks!Direct, Tracks!AudioEnds,
                Tracks!TokenInMemory, Tracks!token, Tracks!lock
  <2>2. PICK where : where \notin {"holding", "fetch"} /\ Tracks!To(t, where)
    BY <1>1 DEF Tracks!Start, Tracks!Searched, Tracks!StreamAsked, Tracks!Direct, Tracks!AudioEnds,
                Tracks!TokenInMemory
  <2> QED
    BY <2>1, <2>2, OutsideKept
<1>2. ASSUME NEW t \in TidalThreads, Tracks!Acquire(t) PROVE TracksInv'
  <2>1. UNCHANGED memory
    BY <1>2 DEF Tracks!Acquire, Tracks!token
  <2>2. CASE bound
    BY <1>2, <2>1, <2>2, OutsideKept DEF Tracks!Acquire
  <2>3. CASE ~bound
    BY <1>2, <2>1, <2>3, TakeKept DEF Tracks!Acquire
  <2> QED
    BY <2>2, <2>3
<1>3. ASSUME NEW t \in TidalThreads, Tracks!TakeLate(t) \/ Tracks!Wake(t) PROVE TracksInv'
  BY <1>3, TakeKept DEF Tracks!TakeLate, Tracks!Wake, Tracks!token
<1>4. ASSUME NEW t \in TidalThreads, Tracks!Wait(t) PROVE TracksInv'
  BY <1>4, OutsideKept DEF Tracks!Wait, Tracks!token, Tracks!lock
<1>5. ASSUME NEW t \in TidalThreads, Tracks!Locked(t) PROVE TracksInv'
  BY <1>5, LockedKept
<1>6. ASSUME NEW t \in TidalThreads, Tracks!Fetched(t) \/ Tracks!FetchFails(t) PROVE TracksInv'
  BY <1>6, ReleaseKept DEF Tracks!Fetched, Tracks!FetchFails, Inside
<1>7. CASE Tracks!TokenExpires
  <2>1. /\ UNCHANGED <<thread, locked, raced>>
        /\ memory # "valid" => memory' # "valid"
    BY <1>7 DEF Tracks!TokenExpires, Tracks!lock
  <2> QED
    BY <2>1 DEF TracksInv, OneInside, Inside
<1>8. CASE Tracks!Restart
  <2>1. /\ thread' = [t \in TidalThreads |-> "idle"] /\ locked' = FALSE /\ raced' = FALSE
    BY <1>8 DEF Tracks!Restart
  <2> QED
    BY <2>1 DEF TracksInv, OneInside, Inside
<1>9. CASE UNCHANGED Tracks!vars
  BY <1>9 DEF Tracks!vars, Tracks!token, Tracks!lock, TracksInv, OneInside, Inside
<1> QED
  BY <1>1, <1>2, <1>3, <1>4, <1>5, <1>6, <1>7, <1>8, <1>9 DEF Tracks!Next

\* One thread at a time refreshes the Tidal token, and only while none is valid
\* in memory: a thread that came to the lock without one has seen the token
\* that arrived while it waited (auth.py:120-133).  The exception, where two
\* threads found the lock free at once, is part of the property.
THEOREM OneRefresh ==
  (Tracks!Spec => []Tracks!OneRefreshAtATime) /\ (ServicesSpec => []OneRefreshAtATime)
<1>1. TracksInv => Tracks!OneRefreshAtATime
  BY DEF TracksInv, OneInside, Inside, Tracks!OneRefreshAtATime
<1>2. TracksInv /\ [Tracks!Next]_(Tracks!vars) => TracksInv'
  BY TracksKept
<1>3. Tracks!Spec => []Tracks!OneRefreshAtATime
  BY <1>1, <1>2, TracksStart, PTL DEF Tracks!Spec
<1> DEFINE I == part = "tracks" => TracksInv
<1>4. ServicesInit => I
  BY TracksStart DEF ServicesInit, PartInit
<1>5. I /\ [PartNext]_allVars => I'
  BY <1>2, PartStep
<1>6. I => OneRefreshAtATime
  BY <1>1 DEF OneRefreshAtATime
<1> HIDE DEF I
<1>7. ServicesSpec => []OneRefreshAtATime
  BY <1>4, <1>5, <1>6, PTL DEF ServicesSpec
<1> QED
  BY <1>3, <1>7

-----------------------------------------------------------------------------
(* ProviderWaterfall                                                       *)

\* A breaker counts no more failures than there were since the last success.
Breaker(b, failures) ==
  /\ DOMAIN b = {"state", "fails", "quiet", "opened"}
  /\ b.fails \in Nat /\ failures \in Nat /\ b.fails <= failures

WaterfallInv ==
  /\ DOMAIN breaker = Waterfall!Sources
  /\ DOMAIN streak = Waterfall!Sources
  /\ \A s \in Waterfall!Sources : Breaker(breaker[s], streak[s])

LEMMA MinOfTwo ==
  ASSUME NEW a \in Nat, NEW b \in Nat
  PROVE  Waterfall!Min({a, b}) = IF a <= b THEN a ELSE b
<1> DEFINE least == IF a <= b THEN a ELSE b
<1>1. least \in {a, b} /\ \A y \in {a, b} : least <= y
  OBVIOUS
<1>2. \A x \in {a, b} : (\A y \in {a, b} : x <= y) => x = least
  OBVIOUS
<1> QED
  BY <1>1, <1>2 DEF Waterfall!Min

\* A failure recorded of a source: its breaker opens on the threshold of them.
LEMMA FailureCounted ==
  ASSUME NEW b, NEW failures, Breaker(b, failures)
  PROVE  /\ Breaker(Waterfall!Failed(b), Waterfall!Min({failures + 1, Threshold}))
         /\ b.state = "closed" /\ Waterfall!Failed(b).state = "open" =>
              Waterfall!Min({failures + 1, Threshold}) = Threshold
<1>1. Waterfall!Min({failures + 1, Threshold}) = IF failures + 1 <= Threshold THEN failures + 1 ELSE Threshold
  BY MinOfTwo, ThresholdIsPositive DEF Breaker
<1>2. Waterfall!Min({b.fails + 1, Threshold}) = IF b.fails + 1 <= Threshold THEN b.fails + 1 ELSE Threshold
  BY MinOfTwo, ThresholdIsPositive DEF Breaker
<1>3. Waterfall!FailsNow(b) \in {1, Waterfall!Min({b.fails + 1, Threshold})}
  BY DEF Waterfall!FailsNow
<1>4. /\ Waterfall!FailsNow(b) \in Nat
      /\ Waterfall!FailsNow(b) <= Waterfall!Min({failures + 1, Threshold})
      /\ Waterfall!Min({failures + 1, Threshold}) \in Nat
      /\ Waterfall!Min({failures + 1, Threshold}) <= Threshold
  BY <1>1, <1>2, <1>3, ThresholdIsPositive DEF Breaker
<1>5. b.state = "closed" /\ Waterfall!Failed(b).state = "open" => Waterfall!FailsNow(b) = Threshold
  BY DEF Waterfall!Failed, Waterfall!Opens
<1>6. /\ DOMAIN Waterfall!Failed(b) = {"state", "fails", "quiet", "opened"}
      /\ Waterfall!Failed(b).fails = Waterfall!FailsNow(b)
  BY DEF Waterfall!Failed
<1> QED
  BY <1>4, <1>5, <1>6, ThresholdIsPositive DEF Breaker

LEMMA WaterfallStart == Waterfall!Init => WaterfallInv
BY DEF Waterfall!Init, WaterfallInv, Waterfall!Untouched, Breaker

\* A step of the waterfall keeps the counts, and opens circuits on evidence.
WaterfallMoves == WaterfallInv' /\ Waterfall!CircuitsOpenOnEvidence

\* A reading opens no circuit.
LEMMA CircuitsRead ==
  ASSUME WaterfallInv, NEW q, Waterfall!ReadCircuits(q), UNCHANGED streak
  PROVE  WaterfallMoves
<1>1. \A s \in Waterfall!Sources :
        /\ Breaker(Waterfall!Reading(breaker[s]), streak[s])
        /\ Waterfall!Reading(breaker[s]).state \in {breaker[s].state, "half_open"}
  BY DEF WaterfallInv, Breaker, Waterfall!Reading
<1>2. DOMAIN breaker' = Waterfall!Sources
      /\ \A s \in Waterfall!Sources : breaker'[s] \in {Waterfall!Reading(breaker[s]), breaker[s]}
  BY DEF Waterfall!ReadCircuits
<1> QED
  BY <1>1, <1>2 DEF WaterfallMoves, WaterfallInv, Waterfall!CircuitsOpenOnEvidence

LEMMA OutcomeRecorded ==
  ASSUME WaterfallInv, NEW s, NEW success \in BOOLEAN, Waterfall!Record(s, success)
  PROVE  WaterfallMoves
<1>1. /\ breaker' = [breaker EXCEPT ![s] = IF success THEN Waterfall!Succeeded(@) ELSE Waterfall!Failed(@)]
      /\ streak' = [streak EXCEPT ![s] = IF success THEN 0 ELSE Waterfall!Min({@ + 1, Threshold})]
  BY DEF Waterfall!Record
<1>2. /\ DOMAIN breaker' = Waterfall!Sources /\ DOMAIN streak' = Waterfall!Sources
      /\ \A r \in Waterfall!Sources \ {s} : breaker'[r] = breaker[r] /\ streak'[r] = streak[r]
  BY <1>1 DEF WaterfallInv
<1>3. ASSUME s \in Waterfall!Sources
      PROVE  /\ Breaker(breaker'[s], streak'[s])
             /\ breaker[s].state = "closed" /\ breaker'[s].state = "open" => streak'[s] = Threshold
  <2>1. /\ breaker'[s] = IF success THEN Waterfall!Succeeded(breaker[s]) ELSE Waterfall!Failed(breaker[s])
        /\ streak'[s] = IF success THEN 0 ELSE Waterfall!Min({streak[s] + 1, Threshold})
        /\ Breaker(breaker[s], streak[s])
    BY <1>1, <1>3 DEF WaterfallInv
  <2>2. CASE success
    BY <2>1, <2>2 DEF Waterfall!Succeeded, Breaker
  <2>3. CASE ~success
    BY <2>1, <2>3, FailureCounted
  <2> QED
    BY <2>2, <2>3
<1>4. \A r \in Waterfall!Sources : Breaker(breaker'[r], streak'[r])
  BY <1>2, <1>3 DEF WaterfallInv
<1>5. Waterfall!CircuitsOpenOnEvidence
  BY <1>2, <1>3 DEF Waterfall!CircuitsOpenOnEvidence
<1> QED
  BY <1>2, <1>4, <1>5 DEF WaterfallMoves, WaterfallInv

LEMMA TimePasses ==
  ASSUME WaterfallInv, Waterfall!Tick
  PROVE  WaterfallMoves
<1>1. /\ UNCHANGED streak
      /\ breaker' = [s \in Waterfall!Sources |->
           [breaker[s] EXCEPT !.quiet = Waterfall!Min({@ + 1, FailWindow}), !.opened = Waterfall!Min({@ + 1, OpenFor})]]
  BY DEF Waterfall!Tick
<1>2. \A s \in Waterfall!Sources :
        Breaker(breaker'[s], streak[s]) /\ breaker'[s].state = breaker[s].state
  BY <1>1 DEF WaterfallInv, Breaker
<1> QED
  BY <1>1, <1>2 DEF WaterfallMoves, WaterfallInv, Waterfall!CircuitsOpenOnEvidence

LEMMA WaterfallKept ==
  ASSUME WaterfallInv, [Waterfall!Next]_(Waterfall!vars)
  PROVE  WaterfallMoves
<1>1. ASSUME UNCHANGED <<breaker, streak>> PROVE WaterfallMoves
  BY <1>1 DEF WaterfallMoves, WaterfallInv, Waterfall!CircuitsOpenOnEvidence
<1>2. ASSUME NEW d \in Downloads, Waterfall!Ask(d) PROVE WaterfallMoves
  BY <1>2, CircuitsRead DEF Waterfall!Ask
<1>3. ASSUME NEW d \in Downloads, Waterfall!Pick(d) PROVE WaterfallMoves
  <2>1. CASE Waterfall!PickAuto(d)
    BY <2>1, CircuitsRead DEF Waterfall!PickAuto
  <2>2. CASE Waterfall!Dismiss(d) \/ \E s \in Waterfall!Sources : Waterfall!PickSource(d, s)
    BY <1>1, <2>2 DEF Waterfall!Dismiss, Waterfall!PickSource
  <2> QED
    BY <1>3, <2>1, <2>2 DEF Waterfall!Pick
<1>4. ASSUME NEW d \in Downloads, Waterfall!Step(d) PROVE WaterfallMoves
  BY <1>1, <1>4, OutcomeRecorded DEF Waterfall!Step, Waterfall!Got, Waterfall!Fail, Waterfall!Finish
<1> QED
  BY <1>1, <1>2, <1>3, <1>4, TimePasses DEF Waterfall!Next, Waterfall!vars

\* A closed circuit opens only on Threshold failures since the last success of
\* its source, in whatever order concurrent downloads record their outcomes
\* (circuit_breaker.py:165).
THEOREM CircuitsOpen ==
  (Waterfall!Spec => Waterfall!OpensOnEvidence) /\ (ServicesSpec => OpensOnEvidence)
<1>1. WaterfallInv /\ [Waterfall!Next]_(Waterfall!vars) => WaterfallInv'
  BY WaterfallKept DEF WaterfallMoves
<1>2. WaterfallInv /\ [Waterfall!Next]_(Waterfall!vars) =>
        [Waterfall!CircuitsOpenOnEvidence]_(Waterfall!vars)
  BY WaterfallKept DEF WaterfallMoves
<1>3. Waterfall!Spec => Waterfall!OpensOnEvidence
  BY <1>1, <1>2, WaterfallStart, PTL DEF Waterfall!Spec, Waterfall!OpensOnEvidence
<1> DEFINE I == part = "waterfall" => WaterfallInv
<1>4. ServicesInit => I
  BY WaterfallStart DEF ServicesInit, PartInit
<1>5. I /\ [PartNext]_allVars => I'
  BY <1>1, PartStep
<1>6. I /\ [PartNext]_allVars => [part = "waterfall" => Waterfall!CircuitsOpenOnEvidence]_allVars
  BY WaterfallKept, PartStep DEF WaterfallMoves
<1> HIDE DEF I
<1>7. ServicesSpec => OpensOnEvidence
  BY <1>4, <1>5, <1>6, PTL DEF ServicesSpec, OpensOnEvidence
<1> QED
  BY <1>3, <1>7

-----------------------------------------------------------------------------
(* RubikaLink                                                              *)

LinkTyped ==
  /\ dedup \in Seq(Keys) /\ Len(dedup) <= DedupSize
  /\ handling \in [Keys -> Nat]
  /\ others \in [Keys -> (SUBSET Keys) \cup {None}]

\* No key is twice in the window.
WindowOnce == \A i, j \in DOMAIN dedup : dedup[i] = dedup[j] => i = j

\* A key in the window has been handled, and those behind it since; one that
\* has left the window was followed by enough others to fill it.
Followers ==
  \A k \in Keys :
    /\ \A i \in DOMAIN dedup : dedup[i] = k =>
         others[k] # None /\ \A j \in DOMAIN dedup : i < j => dedup[j] \in others[k]
    /\ others[k] # None /\ (\A i \in DOMAIN dedup : dedup[i] # k) =>
         Cardinality(others[k]) >= DedupSize

LinkInv == LinkTyped /\ WindowOnce /\ Followers

LEMMA LinkStart == Link!Init => LinkInv
<1> SUFFICES ASSUME Link!Init PROVE LinkInv
  OBVIOUS
<1>1. /\ dedup = << >> /\ handling = [k \in Keys |-> 0] /\ others = [k \in Keys |-> None]
  BY DEF Link!Init
<1>2. dedup \in Seq(Keys) /\ Len(dedup) = 0 /\ DOMAIN dedup = {}
  BY <1>1
<1>3. LinkTyped
  BY <1>1, <1>2, WindowIsNatural DEF LinkTyped
<1> QED
  BY <1>1, <1>2, <1>3 DEF LinkInv, WindowOnce, Followers

\* A set with all of a window but its oldest has as many members.
LEMMA FollowersFill ==
  ASSUME NEW w \in Seq(Keys), NEW S \in SUBSET Keys, Len(w) >= 1,
         \A i, j \in DOMAIN w : w[i] = w[j] => i = j,
         \A i \in 2 .. Len(w) : w[i] \in S
  PROVE  Cardinality(S) >= Len(w) - 1
<1> DEFINE f == [i \in 2 .. Len(w) |-> w[i]]
<1>1. Len(w) \in Nat /\ DOMAIN w = 1 .. Len(w)
  BY LenProperties
<1>2. f \in [2 .. Len(w) -> S]
  OBVIOUS
<1>3. \A a, b \in DOMAIN f : f[a] = f[b] => a = b
  BY <1>1
<1>4. f \in Injection(2 .. Len(w), S)
  BY <1>2, <1>3 DEF Injection, IsInjective
<1>5. IsFiniteSet(S)
  BY WindowIsNatural, FS_Subset
<1>6. Cardinality(2 .. Len(w)) <= Cardinality(S)
  BY <1>4, <1>5, FS_Injection
<1>7. Cardinality(2 .. Len(w)) = Len(w) - 1
  BY <1>1, FS_Interval
<1>8. Cardinality(S) \in Nat
  BY <1>5, FS_CardinalityType
<1> QED
  BY <1>1, <1>6, <1>7, <1>8

LEMMA MessageHandled ==
  ASSUME LinkInv, NEW q \in Keys, Link!OnRawMessage(q)
  PROVE  LinkInv'
<1> DEFINE longer == Append(dedup, q)
           Out(S) == IF S = None THEN None ELSE S \cup {q}
<1>1. /\ dedup \in Seq(Keys) /\ Len(dedup) <= DedupSize /\ DedupSize \in Nat
      /\ others \in [Keys -> (SUBSET Keys) \cup {None}] /\ handling \in [Keys -> Nat]
      /\ WindowOnce /\ Followers
  BY WindowIsNatural DEF LinkInv, LinkTyped
<1>2. /\ Len(dedup) \in Nat /\ DOMAIN dedup = 1 .. Len(dedup)
      /\ longer \in Seq(Keys) /\ Len(longer) = Len(dedup) + 1 /\ DOMAIN longer = 1 .. (Len(dedup) + 1)
      /\ \A i \in 1 .. Len(dedup) : longer[i] = dedup[i]
      /\ longer[Len(dedup) + 1] = q /\ longer # << >>
  <2>1. longer \in Seq(Keys) /\ Len(longer) = Len(dedup) + 1 /\ longer # << >>
        /\ (\A i \in 1 .. Len(dedup) : longer[i] = dedup[i]) /\ longer[Len(dedup) + 1] = q
    BY <1>1, AppendProperties
  <2> QED
    BY <1>1, <2>1, LenProperties
<1>3. \A i \in DOMAIN dedup : dedup[i] # q
  BY DEF Link!OnRawMessage, Link!Contains
<1>4. \A i, j \in DOMAIN longer : longer[i] = longer[j] => i = j
  BY <1>1, <1>2, <1>3 DEF WindowOnce
<1>5. PICK cut \in {0, 1} :
        /\ dedup' \in Seq(Keys) /\ DOMAIN dedup' = 1 .. (Len(longer) - cut)
        /\ Len(dedup') = Len(longer) - cut /\ Len(dedup') <= DedupSize
        /\ \A i \in DOMAIN dedup' : dedup'[i] = longer[i + cut]
        /\ cut = 1 => Len(longer) = DedupSize + 1
  <2>1. dedup' = IF Len(longer) > DedupSize THEN Tail(longer) ELSE longer
    BY DEF Link!OnRawMessage, Link!Add
  <2>2. CASE Len(longer) > DedupSize
    <3>1. /\ Tail(longer) \in Seq(Keys) /\ Len(Tail(longer)) = Len(longer) - 1
          /\ \A i \in 1 .. Len(Tail(longer)) : Tail(longer)[i] = longer[i + 1]
      BY <1>2, HeadTailProperties
    <3>2. DOMAIN Tail(longer) = 1 .. (Len(longer) - 1)
      BY <3>1, LenProperties
    <3>3. Len(longer) = DedupSize + 1
      BY <1>1, <1>2, <2>2
    <3>4. dedup' = Tail(longer)
      BY <2>1, <2>2
    <3> HIDE DEF longer
    <3> WITNESS 1 \in {0, 1}
    <3> QED
      BY <1>1, <1>2, <3>1, <3>2, <3>3, <3>4
  <2>3. CASE ~(Len(longer) > DedupSize)
    <3>1. dedup' = longer
      BY <2>1, <2>3
    <3> HIDE DEF longer
    <3> WITNESS 0 \in {0, 1}
    <3> QED
      BY <1>1, <1>2, <2>3, <3>1
  <2> QED
    BY <2>2, <2>3
<1> HIDE DEF longer
<1>6. WindowOnce'
  BY <1>2, <1>4, <1>5 DEF WindowOnce
<1>7. /\ others' = [k \in Keys |-> IF k = q THEN {} ELSE Out(others[k])]
      /\ handling' = [handling EXCEPT ![q] = @ + 1]
  BY DEF Link!OnRawMessage
<1>8. \A k \in Keys : others[k] = None \/ (others[k] \in SUBSET Keys /\ others[k] # None)
  BY <1>1
<1>9. \A k \in Keys : Out(others[k]) \in (SUBSET Keys) \cup {None}
  BY <1>8
<1>10. LinkTyped'
  BY <1>1, <1>5, <1>7, <1>9 DEF LinkTyped
<1>11. ASSUME NEW k \in Keys, NEW i \in DOMAIN dedup', dedup'[i] = k
       PROVE  others'[k] # None /\ \A j \in DOMAIN dedup' : i < j => dedup'[j] \in others'[k]
  <2>1. CASE k = q
    <3>1. i + cut = Len(longer)
      BY <1>2, <1>4, <1>5, <1>11, <2>1
    <3>2. others'[k] = {} /\ {} # None
      BY <1>7, <2>1, NoneIsNoSetOfKeys
    <3> QED
      BY <1>2, <1>5, <3>1, <3>2
  <2>2. CASE k # q
    <3>1. i + cut \in DOMAIN dedup /\ dedup[i + cut] = k
      BY <1>2, <1>5, <1>11, <2>2
    <3>2. others[k] # None /\ \A j \in DOMAIN dedup : i + cut < j => dedup[j] \in others[k]
      BY <1>1, <3>1 DEF Followers
    <3>3. others'[k] = others[k] \cup {q} /\ others'[k] \in SUBSET Keys
      BY <1>7, <1>8, <2>2, <3>2
    <3>4. ASSUME NEW j \in DOMAIN dedup', i < j PROVE dedup'[j] \in others'[k]
      <4>1. CASE j + cut = Len(longer)
        BY <1>2, <1>5, <3>3, <4>1
      <4>2. CASE j + cut # Len(longer)
        BY <1>2, <1>5, <3>2, <3>3, <3>4, <4>2
      <4> QED
        BY <4>1, <4>2
    <3> QED
      BY <3>3, <3>4, NoneIsNoSetOfKeys
  <2> QED
    BY <2>1, <2>2
<1>12. ASSUME NEW k \in Keys, others'[k] # None, \A i \in DOMAIN dedup' : dedup'[i] # k
       PROVE  Cardinality(others'[k]) >= DedupSize
  <2>1. CASE k = q
    <3>1. others'[k] = {} /\ Cardinality({}) = 0
      BY <1>7, <2>1, FS_EmptySet
    <3>2. DedupSize = 0
      <4>1. Len(longer) - cut \notin DOMAIN dedup'
        BY <1>2, <1>5, <1>12, <2>1
      <4> QED
        BY <1>1, <1>2, <1>5, <4>1
    <3> QED
      BY <3>1, <3>2
  <2>2. CASE k # q
    <3>1. others[k] # None /\ others[k] \in SUBSET Keys /\ others'[k] = others[k] \cup {q}
      BY <1>7, <1>8, <1>12, <2>2
    <3>2. others'[k] \in SUBSET Keys
      BY <3>1
    <3>3. CASE \A i \in DOMAIN dedup : dedup[i] # k
      <4>1. Cardinality(others[k]) >= DedupSize
        BY <1>1, <3>1, <3>3 DEF Followers
      <4>2. IsFiniteSet(others'[k]) /\ others[k] \in SUBSET others'[k]
        BY <3>1, <3>2, WindowIsNatural, FS_Subset
      <4>3. /\ Cardinality(others[k]) <= Cardinality(others'[k])
            /\ Cardinality(others'[k]) \in Nat /\ Cardinality(others[k]) \in Nat
        BY <4>2, FS_Subset, FS_CardinalityType
      <4> QED
        BY <1>1, <4>1, <4>3
    <3>4. CASE \E i \in DOMAIN dedup : dedup[i] = k
      <4>1. PICK m \in DOMAIN dedup : dedup[m] = k
        BY <3>4
      <4>2. cut = 1 /\ m = 1
        <5>1. m \in 1 .. Len(dedup) /\ longer[m] = k
          BY <1>2, <4>1
        <5>2. \A i \in DOMAIN dedup' : i + cut # m
          BY <1>5, <1>12, <5>1
        <5>3. CASE cut = 0
          <6>1. m \in DOMAIN dedup' /\ m + cut = m
            BY <1>2, <1>5, <5>1, <5>3
          <6> QED
            BY <5>2, <6>1
        <5>4. CASE cut = 1 /\ m # 1
          <6>1. m - 1 \in DOMAIN dedup' /\ (m - 1) + cut = m
            BY <1>2, <1>5, <5>1, <5>4
          <6> QED
            BY <5>2, <6>1
        <5> QED
          BY <5>3, <5>4
      <4>3. \A i \in 2 .. Len(longer) : longer[i] \in others'[k]
        <5>1. \A j \in DOMAIN dedup : 1 < j => dedup[j] \in others[k]
          BY <1>1, <4>1, <4>2 DEF Followers
        <5> QED
          BY <1>2, <3>1, <5>1
      <4>4. Cardinality(others'[k]) >= Len(longer) - 1
        BY <1>2, <1>4, <3>2, <4>3, FollowersFill
      <4> QED
        BY <1>1, <1>2, <1>5, <4>2, <4>4
    <3> QED
      BY <3>3, <3>4
  <2> QED
    BY <2>1, <2>2
<1> QED
  BY <1>6, <1>10, <1>11, <1>12 DEF LinkInv, Followers

\* A step of the link keeps the window, and handles no message it still holds.
LinkMoves == LinkInv' /\ Link!HandledOnceStep

LEMMA LinkKept ==
  ASSUME LinkInv, [Link!Next]_(Link!vars)
  PROVE  LinkMoves
<1>1. ASSUME UNCHANGED <<dedup, handling, others>> PROVE LinkMoves
  <2>1. LinkInv'
    BY <1>1 DEF LinkInv, LinkTyped, WindowOnce, Followers
  <2>2. \A k \in Keys : ~(handling'[k] > handling[k])
    BY <1>1 DEF LinkInv, LinkTyped
  <2> QED
    BY <2>1, <2>2 DEF LinkMoves, Link!HandledOnceStep
<1>2. CASE \/ Link!Start \/ Link!Dials \/ Link!Connected \/ Link!Disconnected \/ Link!Wakes
           \/ Link!UpdatesEnd \/ Link!Stop \/ Link!Disconnect \/ UNCHANGED Link!vars
  BY <1>1, <1>2 DEF Link!Start, Link!Dials, Link!Connected, Link!Disconnected, Link!Wakes,
     Link!UpdatesEnd, Link!Stop, Link!Disconnect, Link!vars, Link!messages
<1>3. CASE Link!Restart
  <2>1. /\ dedup' = << >> /\ handling' = [k \in Keys |-> 0] /\ others' = [k \in Keys |-> None]
    BY <1>3 DEF Link!Restart
  <2>2. dedup' \in Seq(Keys) /\ Len(dedup') = 0 /\ DOMAIN dedup' = {}
    BY <2>1
  <2>3. LinkTyped'
    BY <2>1, <2>2, WindowIsNatural DEF LinkTyped
  <2>4. LinkInv'
    BY <2>1, <2>2, <2>3 DEF LinkInv, WindowOnce, Followers
  <2>5. \A k \in Keys : ~(handling'[k] > handling[k])
    BY <2>1 DEF LinkInv, LinkTyped
  <2> QED
    BY <2>4, <2>5 DEF LinkMoves, Link!HandledOnceStep
<1>4. ASSUME NEW q \in Keys, Link!OnRawMessage(q) PROVE LinkMoves
  <2>1. LinkInv'
    BY <1>4, MessageHandled
  <2>2. \A k \in Keys \ {q} : handling'[k] = handling[k] /\ handling[k] \in Nat
    BY <1>4 DEF Link!OnRawMessage, LinkInv, LinkTyped
  <2>3. others[q] # None => Cardinality(others[q]) >= DedupSize
    BY <1>4 DEF Link!OnRawMessage, Link!Contains, LinkInv, Followers
  <2>4. Link!Cardinality(others[q]) = Cardinality(others[q])
    BY DEF Link!Cardinality, Cardinality
  <2> QED
    BY <2>1, <2>2, <2>3, <2>4 DEF LinkMoves, Link!HandledOnceStep
<1>5. ASSUME NEW q \in Keys, Link!Dispatched(q) PROVE LinkMoves
  <2>1. /\ handling[q] \in Nat /\ handling[q] > 0 /\ handling' = [handling EXCEPT ![q] = @ - 1]
        /\ UNCHANGED <<dedup, others>> /\ handling \in [Keys -> Nat]
    BY <1>5 DEF Link!Dispatched, LinkInv, LinkTyped
  <2>2. handling[q] - 1 \in Nat
    BY <2>1
  <2>3. handling' \in [Keys -> Nat]
    BY <2>1, <2>2
  <2>4. LinkInv'
    BY <2>1, <2>3 DEF LinkInv, LinkTyped, WindowOnce, Followers
  <2>5. \A k \in Keys : ~(handling'[k] > handling[k])
    BY <2>1
  <2> QED
    BY <2>4, <2>5 DEF LinkMoves, Link!HandledOnceStep
<1> QED
  BY <1>2, <1>3, <1>4, <1>5 DEF Link!Next

\* Within one life of the process a message is handled again only after enough
\* others to fill the window, whatever is delivered again and however often the
\* link is lost in between (rubika_client.py:111-120, 316-323).
THEOREM MessagesHandledOnce == (Link!Spec => Link!HandledOnce) /\ (ServicesSpec => HandledOnce)
<1>1. LinkInv /\ [Link!Next]_(Link!vars) => LinkInv'
  BY LinkKept DEF LinkMoves
<1>2. LinkInv /\ [Link!Next]_(Link!vars) => [Link!HandledOnceStep]_(Link!vars)
  BY LinkKept DEF LinkMoves
<1>3. Link!Spec => Link!HandledOnce
  BY <1>1, <1>2, LinkStart, PTL DEF Link!Spec, Link!HandledOnce
<1> DEFINE I == part = "link" => LinkInv
<1>4. ServicesInit => I
  BY LinkStart DEF ServicesInit, PartInit
<1>5. I /\ [PartNext]_allVars => I'
  BY <1>1, PartStep
<1>6. I /\ [PartNext]_allVars => [part = "link" => Link!HandledOnceStep]_allVars
  BY LinkKept, PartStep DEF LinkMoves
<1> HIDE DEF I
<1>7. ServicesSpec => HandledOnce
  BY <1>4, <1>5, <1>6, PTL DEF ServicesSpec, HandledOnce
<1> QED
  BY <1>3, <1>7
=============================================================================
