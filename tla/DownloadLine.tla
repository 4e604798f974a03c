---------------------------- MODULE DownloadLine ----------------------------
(***************************************************************************)
(* What the bot's queue promises: one request is served at a time, the      *)
(* others are called in the order in which they joined, nobody is served    *)
(* twice, and a shutdown that has the time keeps the line for the next      *)
(* start.  How menus, announcements, runners and the flag bring that about  *)
(* is the matter of BotQueue, which implements this.                        *)
(***************************************************************************)
EXTENDS Naturals, Sequences

CONSTANTS Requests, None

VARIABLES
  line,     \* those who wait
  service,  \* what the server does, and for whom
  served,   \* those whose service has begun
  saved,    \* the line as it was kept, None if it was not
  open

Idle       == [does |-> "nothing", whom |-> None]
Stuck      == [does |-> "hangs", whom |-> None]
Serves(r)  == [does |-> "serves", whom |-> r]
Calls(r)   == [does |-> "calls", whom |-> r]

Waiting == {line[i] : i \in DOMAIN line}

\* A request that has not been served and does not wait or is called.
Fresh(r) == r \notin served \cup Waiting /\ service # Calls(r)

Init ==
  /\ line = <<>> /\ service = Idle /\ served = {}
  /\ saved = None /\ open = TRUE

Begin(r) ==
  /\ service' = Serves(r)
  /\ served' = served \cup {r}

\* Nobody is served: the request is served at once, although a line that was
\* kept may still wait.
Enter(r) ==
  /\ open /\ service = Idle /\ Fresh(r)
  /\ Begin(r)
  /\ UNCHANGED <<line, saved, open>>

Join(r) ==
  /\ open /\ Fresh(r)
  /\ line' = Append(line, r)
  /\ UNCHANGED <<service, served, saved, open>>

\* Some leave, and the others stay in order.
Leave ==
  /\ open
  /\ \E n \in 0 .. Len(line) : \E place \in [1 .. n -> DOMAIN line] :
       /\ \A i, j \in 1 .. n : i < j => place[i] < place[j]
       /\ line' = [i \in 1 .. n |-> line[place[i]]]
  /\ UNCHANGED <<service, served, saved, open>>

\* A service ends: the first of the line is called.
Call ==
  /\ service.does = "serves" /\ line # <<>>
  /\ service' = Calls(Head(line)) /\ line' = Tail(line)
  /\ UNCHANGED <<served, saved, open>>

Serve ==
  /\ service.does = "calls"
  /\ Begin(service.whom)
  /\ UNCHANGED <<line, saved, open>>

\* A service ends, and nobody waits.
Rest ==
  /\ service.does = "serves" /\ line = <<>>
  /\ service' = Idle
  /\ UNCHANGED <<line, served, saved, open>>

\* The one called is lost, and nobody is called any more until the next start.
Hang ==
  /\ service.does = "calls"
  /\ service' = Stuck
  /\ UNCHANGED <<line, served, saved, open>>

Close ==
  /\ open /\ open' = FALSE
  /\ service' = Idle /\ line' = <<>>
  /\ saved' \in {line, saved}
  /\ UNCHANGED served

Open ==
  /\ ~open /\ open' = TRUE
  /\ line' = IF saved = None THEN <<>> ELSE saved
  /\ saved' = None
  /\ UNCHANGED <<service, served>>

vars == <<line, service, served, saved, open>>

Next ==
  \/ \E r \in Requests : Enter(r) \/ Join(r)
  \/ Leave \/ Call \/ Serve \/ Rest \/ Hang \/ Close \/ Open

Spec == Init /\ [][Next]_vars
=============================================================================
