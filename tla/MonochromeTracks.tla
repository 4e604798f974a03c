------------------------- MODULE MonochromeTracks -------------------------
(***************************************************************************)
(* Downloads over the Monochrome proxies of Tidal (downloader.py 461-500    *)
(* and rubetunes/providers/monochrome), and the access token of the last    *)
(* resort, which all download threads share.  Which proxies a request tries *)
(* and how often is left out: it ends with an answer or without.            *)
(*                                                                         *)
(* A download thread runs its own event loop (asyncio.run), the lock of the *)
(* token is one asyncio.Lock, which is made for one loop.  It is bound to   *)
(* the loop of the first waiter: any later caller that finds it taken gets  *)
(* a RuntimeError.  Its release, in another thread, may or may not wake the *)
(* waiter.  Once there has been a waiter, acquire calls a function between  *)
(* its look at the lock and taking it, where the interpreter (CPython 3.10  *)
(* to 3.12, which the tests run on) may change threads.                     *)
(***************************************************************************)
EXTENDS Naturals

CONSTANTS
  Threads,
  MaxRestarts,  \* bound on the restarts of the bot
  None

VARIABLES
  thread,   \* thread[t]: where the download of t is
  memory,   \* _cached_token: None, "valid" for more than a minute, or "stale"
  disk,     \* the token of monochrome_tidal_token.json
  locked,   \* _token_lock is taken
  waiter,   \* who waits for it
  woken,    \* the waiter has been told that it may have it
  bound,    \* the lock has been waited for: it belongs to that loop
  raced,    \* history: a thread took the lock when it was no longer free
  restarts

token == <<memory, disk>>
lock == <<locked, waiter, woken, bound, raced>>
vars == <<thread, token, lock, restarts>>

Tokens == {None, "valid", "stale"}

Init ==
  /\ thread = [t \in Threads |-> "idle"]
  /\ memory = None /\ disk \in Tokens
  /\ locked = FALSE /\ waiter = None /\ woken = FALSE
  /\ bound = FALSE /\ raced = FALSE
  /\ restarts = 0

To(t, pc) ==
  /\ thread' = [thread EXCEPT ![t] = pc]
  /\ UNCHANGED restarts

----------------------------------------------------------------------------
(* A download                                                              *)

Start(t) ==
  /\ thread[t] = "idle"
  /\ To(t, "search")
  /\ UNCHANGED <<token, lock>>

\* The search, by ISRC and then by title, finds a track or the download fails.
Searched(t) ==
  /\ thread[t] = "search"
  /\ To(t, "stream") \/ To(t, "idle")
  /\ UNCHANGED <<token, lock>>

\* The manifest or the stream names an address; otherwise Tidal is asked
\* directly.
StreamAsked(t) ==
  /\ thread[t] = "stream"
  /\ To(t, "audio") \/ To(t, "token")
  /\ UNCHANGED <<token, lock>>

\* Tidal answers with an address, or the download fails; a refused token stays.
Direct(t) ==
  /\ thread[t] = "direct"
  /\ To(t, "audio") \/ To(t, "idle")
  /\ UNCHANGED <<token, lock>>

\* The bytes are fetched, written and tagged, or the download fails.
AudioEnds(t) ==
  /\ thread[t] = "audio"
  /\ To(t, "idle")
  /\ UNCHANGED <<token, lock>>

----------------------------------------------------------------------------
(* get_token                                                               *)

TokenInMemory(t) ==
  /\ thread[t] = "token" /\ memory = "valid"
  /\ To(t, "direct")
  /\ UNCHANGED <<token, lock>>

Free == ~locked /\ waiter = None

Take(t) ==
  /\ To(t, "holding")
  /\ locked' = TRUE
  /\ raced' = (raced \/ locked)

\* The lock is free: it is taken at once, or after a change of threads.
Acquire(t) ==
  /\ thread[t] = "token" /\ memory # "valid"
  /\ Free
  /\ IF bound THEN To(t, "taking") /\ UNCHANGED <<locked, raced>> ELSE Take(t)
  /\ UNCHANGED <<token, waiter, woken, bound>>

TakeLate(t) ==
  /\ thread[t] = "taking"
  /\ Take(t)
  /\ UNCHANGED <<token, waiter, woken, bound>>

Wait(t) ==
  /\ thread[t] = "token" /\ memory # "valid"
  /\ ~Free
  /\ IF bound
       THEN To(t, "idle") /\ UNCHANGED lock
       ELSE To(t, "waiting") /\ waiter' = t /\ bound' = TRUE /\ UNCHANGED <<locked, woken, raced>>
  /\ UNCHANGED token

Wake(t) ==
  /\ waiter = t /\ woken
  /\ Take(t)
  /\ waiter' = None /\ woken' = FALSE
  /\ UNCHANGED <<token, bound>>

\* The end of "async with".  A lock that another has released meanwhile cannot
\* be released again (RuntimeError): the download fails.
Release(t, pc) ==
  /\ To(t, IF locked THEN pc ELSE "idle")
  /\ locked' = FALSE
  /\ woken' = (woken \/ (locked /\ waiter # None))
  /\ UNCHANGED <<waiter, bound, raced>>

Fetch(t) == To(t, "fetch") /\ UNCHANGED <<memory, lock>>

\* A bug for a mutant: the memory is not looked at again.
RecheckDisk(t) ==
  IF disk = "valid" THEN Release(t, "direct") /\ memory' = disk
  ELSE Fetch(t)

\* The caller that has the lock looks at the memory again, then at the disk.
Recheck(t) ==
  IF memory = "valid" THEN Release(t, "direct") /\ UNCHANGED memory
  ELSE IF disk = "valid" THEN Release(t, "direct") /\ memory' = disk
  ELSE Fetch(t)

Locked(t) ==
  /\ thread[t] = "holding"
  /\ Recheck(t)
  /\ UNCHANGED disk

\* The token is kept in memory, and on disk unless the write fails.
Fetched(t) ==
  /\ thread[t] = "fetch"
  /\ memory' = "valid" /\ disk' \in {"valid", disk}
  /\ Release(t, "direct")

FetchFails(t) ==
  /\ thread[t] = "fetch"
  /\ Release(t, "idle")
  /\ UNCHANGED token

TokenExpires ==
  /\ LET Aged(k) == IF k = "valid" THEN "stale" ELSE k IN
       memory' = Aged(memory) /\ disk' = Aged(disk)
  /\ UNCHANGED <<thread, lock, restarts>>

Restart ==
  /\ restarts < MaxRestarts
  /\ restarts' = restarts + 1
  /\ thread' = [t \in Threads |-> "idle"]
  /\ memory' = None
  /\ locked' = FALSE /\ waiter' = None /\ woken' = FALSE
  /\ bound' = FALSE /\ raced' = FALSE
  /\ UNCHANGED disk

Next ==
  \/ \E t \in Threads :
       \/ Start(t) \/ Searched(t) \/ StreamAsked(t) \/ Direct(t) \/ AudioEnds(t)
       \/ TokenInMemory(t) \/ Acquire(t) \/ TakeLate(t) \/ Wait(t) \/ Wake(t)
       \/ Locked(t) \/ Fetched(t) \/ FetchFails(t)
  \/ TokenExpires
  \/ Restart

Spec == Init /\ [][Next]_vars

----------------------------------------------------------------------------
(* Properties                                                              *)

\* One thread at a time refreshes the token, and only when none is valid in
\* memory, also when a token could not be saved and whoever waits for it
\* (auth.py:120-133): except where two threads found the lock free at once.
OneRefreshAtATime ==
  ~raced =>
    \A t \in Threads : thread[t] = "fetch" =>
      /\ memory # "valid"
      /\ \A u \in Threads \ {t} : thread[u] # "fetch"

----------------------------------------------------------------------------
(* What the documents of the repository say, and the code does not do.     *)

\* get_token: "concurrent callers wait for a single in-flight refresh rather
\* than each making their own" (auth.py:111-112).  No caller fails because of
\* the refresh of another.
CallersWait ==
  [][\A t, u \in Threads : thread[u] = "fetch" /\ thread'[u] = "fetch" =>
       ~(thread[t] = "token" /\ thread'[t] = "idle" /\ UNCHANGED restarts)]_vars
=============================================================================
