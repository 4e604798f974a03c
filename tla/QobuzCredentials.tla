-------------------------- MODULE QobuzCredentials --------------------------
(***************************************************************************)
(* The Qobuz application credentials and the user token that the download   *)
(* threads share (the definitions of rubetunes/providers/qobuz.py that are  *)
(* in force: 328-438 and 475-740; those before are replaced by these).      *)
(*                                                                         *)
(* Credentials are numbered: 0 are the embedded ones, a rotation at Qobuz   *)
(* makes the next number valid and the others invalid.  The web player may  *)
(* show the old ones for a while.  An action is what a thread does between  *)
(* two answers of the network, or up to a lock.                             *)
(***************************************************************************)
EXTENDS Naturals

CONSTANTS
  Threads,
  MaxRotations,  \* bound on the rotations
  MaxRestarts,   \* bound on the restarts of the bot
  None

VARIABLES
  live,    \* the credentials that Qobuz accepts
  shown,   \* the credentials that the web player shows
  cache,   \* _qobuz_creds_cache
  disk,    \* qobuz-api-credentials.json
  lock,    \* who holds _qobuz_creds_lock
  token,   \* _qobuz_auth_token_cache: the credentials it was made with, or None
  auth,    \* who holds _qobuz_auth_lock
  thread,  \* thread[t]: what t is doing
  restarts

stored == <<cache, disk, token>>
vars == <<live, shown, stored, lock, auth, thread, restarts>>

Numbers == 0 .. MaxRotations
Credentials == [number : Numbers, fresh : BOOLEAN]

\* "for": what the credentials are wanted for; "sick": since the request began
\* Qobuz rotated, the web player lagged behind, or the network failed.
Idle == [pc |-> "idle", for |-> "request", force |-> FALSE, with |-> 0, sick |-> FALSE,
         outcome |-> "none"]

Init ==
  /\ live \in Numbers /\ shown \in 0 .. live
  /\ cache = None
  /\ disk \in {None} \cup [number : 0 .. live, fresh : BOOLEAN]
  /\ lock = None /\ auth = None
  /\ token = None
  /\ thread = [t \in Threads |-> Idle]
  /\ restarts = 0

\* Qobuz rotates the credentials; the web player follows; a day passes; an hour
\* passes.
Rotate ==
  /\ live < MaxRotations
  /\ live' = live + 1
  /\ thread' = [t \in Threads |-> [thread[t] EXCEPT !.sick = TRUE]]
  /\ UNCHANGED <<shown, stored, lock, auth, restarts>>

PlayerFollows ==
  /\ shown' = live
  /\ UNCHANGED <<live, stored, lock, auth, thread, restarts>>

Aged(c) == IF c = None THEN None ELSE [c EXCEPT !.fresh = FALSE]

DayPasses ==
  /\ cache' = Aged(cache) /\ disk' = Aged(disk) /\ token' = None
  /\ UNCHANGED <<live, shown, lock, auth, thread, restarts>>

TokenExpires ==
  /\ token' = None
  /\ UNCHANGED <<live, shown, cache, disk, lock, auth, thread, restarts>>

Restart ==
  /\ restarts < MaxRestarts
  /\ restarts' = restarts + 1
  /\ cache' = None /\ token' = None /\ lock' = None /\ auth' = None
  /\ thread' = [t \in Threads |-> Idle]
  /\ UNCHANGED <<live, shown, disk>>

Step(t, changes) ==
  /\ thread' = [thread EXCEPT ![t] = changes]
  /\ UNCHANGED <<live, shown, restarts>>

----------------------------------------------------------------------------
(* _get_qobuz_api_credentials                                              *)

Fresh(c) == c # None /\ c.fresh

\* What the thread goes on to with the credentials.
Given(t, c) ==
  [thread[t] EXCEPT !.pc = IF @ = "login" THEN "logging in" ELSE "calling", !.with = c]

Wants(t) ==
  /\ thread[t].pc \in {"credentials", "login"}
  /\ lock = None

\* A bug for a mutant: a forced refresh takes what the memory has.
FromMemoryAnyway(t) ==
  /\ Wants(t)
  /\ Fresh(cache)
  /\ Step(t, Given(t, cache.number))
  /\ UNCHANGED <<stored, lock, auth>>

FromMemory(t) ==
  /\ Wants(t)
  /\ ~thread[t].force /\ Fresh(cache)
  /\ Step(t, Given(t, cache.number))
  /\ UNCHANGED <<stored, lock, auth>>

FromDisk(t) ==
  /\ Wants(t)
  /\ ~thread[t].force /\ ~Fresh(cache) /\ Fresh(disk)
  /\ cache' = disk
  /\ Step(t, Given(t, disk.number))
  /\ UNCHANGED <<disk, token, lock, auth>>

\* The web player is asked while the lock is held.
Scrape(t) ==
  /\ Wants(t)
  /\ thread[t].force \/ ~(Fresh(cache) \/ Fresh(disk))
  /\ lock' = t
  /\ Step(t, [thread[t] EXCEPT !.sick = @ \/ shown # live])
  /\ UNCHANGED <<stored, auth>>

\* What was scraped is used when a search with it finds something.  The file
\* may not be written.
Scraped(t) ==
  /\ lock = t
  /\ shown = live
  /\ cache' = [number |-> shown, fresh |-> TRUE]
  /\ disk' \in {disk, cache'}
  /\ lock' = None
  /\ Step(t, Given(t, shown))
  /\ UNCHANGED <<token, auth>>

\* Otherwise the file, however old, goes before the memory, and both before the
\* embedded credentials.
Fallback ==
  IF disk # None THEN disk
  ELSE IF cache # None THEN cache
  ELSE [number |-> 0, fresh |-> TRUE]

NotScraped(t) ==
  /\ lock = t
  /\ cache' = Fallback
  /\ lock' = None
  /\ Step(t, [Given(t, Fallback.number) EXCEPT !.sick = TRUE])
  /\ UNCHANGED <<disk, token, auth>>

----------------------------------------------------------------------------
(* Signed requests                                                         *)

Ask(t) ==
  /\ thread[t].pc = "idle"
  /\ Step(t, [Idle EXCEPT !.pc = "credentials"])
  /\ UNCHANGED <<stored, lock, auth>>

Finish(t, result) == [thread[t] EXCEPT !.pc = "idle", !.outcome = result]

\* A refusal (400, 401) is answered with a forced refresh, once.
Answered(t) ==
  /\ thread[t].pc = "calling" /\ thread[t].for = "request"
  /\ Step(t, IF thread[t].with = live THEN Finish(t, "ok")
             ELSE IF thread[t].force THEN Finish(t, "failed")
             ELSE [thread[t] EXCEPT !.pc = "credentials", !.force = TRUE])
  /\ UNCHANGED <<stored, lock, auth>>

NetworkFails(t) ==
  /\ thread[t].pc = "calling" /\ thread[t].for = "request"
  /\ Step(t, [Finish(t, "failed") EXCEPT !.sick = TRUE])
  /\ UNCHANGED <<stored, lock, auth>>

----------------------------------------------------------------------------
(* The user token                                                          *)

\* _get_qobuz_stream_url_auth: the thread wants the token.
AskStream(t) ==
  /\ thread[t].pc = "idle"
  /\ Step(t, [Idle EXCEPT !.pc = "token", !.for = "stream"])
  /\ UNCHANGED <<stored, lock, auth>>

TokenCached(t) ==
  /\ thread[t].pc = "token" /\ auth = None
  /\ token # None
  /\ Step(t, [thread[t] EXCEPT !.pc = "calling", !.with = token])
  /\ UNCHANGED <<stored, lock, auth>>

\* The login holds _qobuz_auth_lock while it takes _qobuz_creds_lock.
Login(t) ==
  /\ thread[t].pc = "token" /\ auth = None
  /\ token = None
  /\ auth' = t
  /\ Step(t, [thread[t] EXCEPT !.pc = "login"])
  /\ UNCHANGED <<stored, lock>>

LoggedIn(t) ==
  /\ thread[t].pc = "logging in"
  /\ auth' = None
  /\ \/ /\ thread[t].with = live
        /\ token' = thread[t].with
        /\ Step(t, [thread[t] EXCEPT !.pc = "calling"])
     \/ /\ Step(t, Finish(t, "failed"))
        /\ UNCHANGED token
  /\ UNCHANGED <<cache, disk, lock>>

\* The token is signed with the secret that it was made with; a refusal leaves
\* it where it is.
StreamAnswered(t) ==
  /\ thread[t].pc = "calling" /\ thread[t].for = "stream"
  /\ \E result \in {"ok", "failed"} :
       /\ result = "ok" => thread[t].with = live
       /\ Step(t, Finish(t, result))
  /\ UNCHANGED <<stored, lock, auth>>

ThreadStep(t) ==
  \/ FromMemory(t) \/ FromDisk(t) \/ Scrape(t) \/ Scraped(t) \/ NotScraped(t)
  \/ Ask(t) \/ Answered(t) \/ NetworkFails(t)
  \/ AskStream(t) \/ TokenCached(t) \/ Login(t) \/ LoggedIn(t) \/ StreamAnswered(t)

Next ==
  \/ Rotate \/ PlayerFollows \/ DayPasses \/ TokenExpires \/ Restart
  \/ \E t \in Threads : ThreadStep(t)

Spec == Init /\ [][Next]_vars

----------------------------------------------------------------------------
(* Properties                                                              *)

\* A signed request during which Qobuz did not rotate, the web player showed
\* the valid credentials and the network worked succeeds, whatever the memory
\* and the file held when it began and whatever other threads put there
\* meanwhile (qobuz.py:594-620, 664-668).
HealthyRequestsSucceed ==
  \A t \in Threads :
    thread[t].pc = "idle" /\ thread[t].outcome = "failed" /\ thread[t].for = "request"
      => thread[t].sick
=============================================================================
