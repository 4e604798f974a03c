------------------------- MODULE ProviderWaterfall -------------------------
(***************************************************************************)
(* The choice of a music source and the waterfall over the sources          *)
(* (rubetunes/downloader.py), guarded by circuit breakers                    *)
(* (rubetunes/circuit_breaker.py) and remembered in the download history     *)
(* (rubetunes/history.py).  The downloads are the threads of a batch and the *)
(* single download of the bot; they share the breakers, the directory and   *)
(* the history.                                                             *)
(*                                                                         *)
(* Time is relative: each breaker carries the ticks since its last failure  *)
(* and since it opened, up to the durations they are compared with, so no   *)
(* clock is bounded.  One track is modelled: tracks meet in the breakers,   *)
(* not in the files, unless their names collide.                            *)
(***************************************************************************)
EXTENDS Integers, FiniteSets, SequencesExt

CONSTANTS
  Downloads,
  Ids,          \* what the metadata of the track has: IDs of stores, a title
  Qualities,    \* the qualities users ask for
  Threshold,    \* CIRCUIT_FAIL_THRESHOLD
  FailWindow,   \* CIRCUIT_FAIL_WINDOW_SEC
  OpenFor       \* CIRCUIT_OPEN_DURATION_SEC

VARIABLES
  breaker,   \* _circuit_breakers, for the service "download"
  streak,    \* history: failures recorded of a source since its last success
  dl         \* dl[d]: where download d is

vars == <<breaker, streak, dl>>

----------------------------------------------------------------------------
(* The ranked choices                                                      *)

Ranked == <<"qobuz", "tidal_alt", "deezer", "amazon", "youtube", "monochrome", "musicdl">>
Sources == ToSet(Ranked)

WantsFlac(quality) == quality \in {"flac_cd", "flac_hi", "any"}

LosslessOffers(quality) ==
  {s \in {"qobuz", "tidal_alt", "deezer"} : WantsFlac(quality) /\ s \in Ids}

\* YouTube serves MP3, and FLAC requests that no store serves.
Offered(quality) ==
  LET stores == LosslessOffers(quality) \cup ({"amazon"} \cap Ids)
  IN  UNION {stores,
        {s \in {"youtube"} : /\ ~WantsFlac(quality) \/ quality = "any" \/ stores = {}
                             /\ Ids \cap {"isrc", "title"} # {}},
        {s \in {"monochrome"} : Ids \cap {"track_id", "isrc", "title"} # {}},
        {s \in {"musicdl"} : "title" \in Ids}}

RankedChoices(quality) == SelectSeq(Ranked, LAMBDA s : s \in Offered(quality))

----------------------------------------------------------------------------
(* The circuit breakers                                                    *)

Untouched == [state |-> "closed", fails |-> 0, quiet |-> FailWindow, opened |-> OpenFor]

\* _is_circuit_open and what the reading does to the breaker.
IsOpen(b)  == b.state = "open" /\ b.opened < OpenFor
Reading(b) == IF b.state = "open" /\ ~IsOpen(b) THEN [b EXCEPT !.state = "half_open"] ELSE b

\* A bug for a mutant: a success closes the circuit and leaves the count.
SucceededKeeping(b) == [b EXCEPT !.state = "closed"]

Succeeded(b) == [b EXCEPT !.state = "closed", !.fails = 0]

\* The count stops at the threshold, with which alone it is compared.
FailsNow(b) == IF b.quiet < FailWindow THEN Min({b.fails + 1, Threshold}) ELSE 1
Opens(b)    == b.state = "half_open" \/ (b.state = "closed" /\ FailsNow(b) = Threshold)

\* Without force_open, which no download asks for.
Failed(b) ==
  [state  |-> IF Opens(b) THEN "open" ELSE b.state,
   fails  |-> FailsNow(b),
   quiet  |-> 0,
   opened |-> IF Opens(b) THEN 0 ELSE b.opened]

Record(s, success) ==
  /\ breaker' = [breaker EXCEPT ![s] = IF success THEN Succeeded(@) ELSE Failed(@)]
  /\ streak' = [streak EXCEPT ![s] = IF success THEN 0 ELSE Min({@ + 1, Threshold})]

Tick ==
  /\ breaker' = [s \in Sources |->
       [breaker[s] EXCEPT !.quiet = Min({@ + 1, FailWindow}), !.opened = Min({@ + 1, OpenFor})]]
  /\ breaker' # breaker
  /\ UNCHANGED <<streak, dl>>

----------------------------------------------------------------------------
(* A download                                                              *)

Nowhere == [pc |-> "idle"]

Init ==
  /\ breaker = [s \in Sources |-> Untouched]
  /\ streak = [s \in Sources |-> 0]
  /\ dl = [d \in Downloads |-> Nowhere]

\* build_platform_choices reads the circuits one by one, each under
\* _circuit_lock, and so fast that nothing happens to two of them meanwhile.
\* When every circuit is open the list is not filtered.
Closed(quality) == SelectSeq(RankedChoices(quality), LAMBDA s : ~IsOpen(breaker[s]))
ListOf(quality) == IF Closed(quality) = <<>> THEN RankedChoices(quality) ELSE Closed(quality)
ReadCircuits(quality) ==
  breaker' = [s \in Sources |-> IF s \in Offered(quality) THEN Reading(breaker[s]) ELSE breaker[s]]

\* A menu is built for a user, or a thread of a batch takes its next track.
Ask(d) ==
  /\ dl[d].pc = "idle"
  /\ \E q \in Qualities :
       /\ ListOf(q) # <<>>
       /\ ReadCircuits(q)
       /\ dl' = [dl EXCEPT ![d] = [pc |-> "menu", list |-> ListOf(q), quality |-> q]]
  /\ UNCHANGED <<streak>>

Trying(auto, list, quality) ==
  [pc |-> "trying", auto |-> auto, list |-> list, at |-> 1, quality |-> quality]

\* The "auto" entry, there when two sources are; _do_waterfall lists anew,
\* whatever the menu showed, and for the quality "any".
PickAuto(d) ==
  /\ dl[d].pc = "menu"
  /\ Len(dl[d].list) >= 2
  /\ ReadCircuits("any")
  /\ dl' = [dl EXCEPT ![d] = Trying(TRUE, ListOf("any"), "any")]
  /\ UNCHANGED <<streak>>

\* A single source, unless the history names a file of it that is still there.
PickSource(d, s) ==
  /\ dl[d].pc = "menu"
  /\ s \in ToSet(dl[d].list)
  /\ \E hit \in BOOLEAN :
       dl' = [dl EXCEPT ![d] = IF hit THEN Nowhere ELSE Trying(FALSE, <<s>>, dl[d].quality)]
  /\ UNCHANGED <<breaker, streak>>

Current(d) == dl[d].list[dl[d].at]

Dismiss(d) ==
  /\ dl[d].pc = "menu"
  /\ dl' = [dl EXCEPT ![d] = Nowhere]
  /\ UNCHANGED <<breaker, streak>>

\* The source answers with a file.  The waterfall records the success of
\* the source itself; after tagging, the caller records that of its choice,
\* "auto", under a key that no list reads.
Got(d) ==
  /\ dl[d].pc = "trying"
  /\ Record(Current(d), TRUE)
  /\ dl' = [dl EXCEPT ![d] = Nowhere]

\* The source fails.  An unexpected exception of a source in a waterfall is
\* not recorded.
Fail(d) ==
  /\ dl[d].pc = "trying"
  /\ \/ Record(Current(d), FALSE)
     \/ /\ dl[d].auto
        /\ UNCHANGED <<breaker, streak>>
  /\ dl' = [dl EXCEPT ![d] =
       IF dl[d].at < Len(dl[d].list) THEN [dl[d] EXCEPT !.at = @ + 1] ELSE [pc |-> "failed"]]

\* The failure is reported; with all of its sources.
Finish(d) ==
  /\ dl[d].pc = "failed"
  /\ dl' = [dl EXCEPT ![d] = Nowhere]
  /\ UNCHANGED <<breaker, streak>>

Step(d) == Got(d) \/ Fail(d) \/ Finish(d)
Pick(d) == PickAuto(d) \/ Dismiss(d) \/ \E s \in Sources : PickSource(d, s)

Next == Tick \/ \E d \in Downloads : Ask(d) \/ Pick(d) \/ Step(d)

Spec == Init /\ [][Next]_vars

----------------------------------------------------------------------------
(* Properties                                                              *)

\* A closed circuit opens only on Threshold failures that were recorded after
\* the last success of the source, in whatever order concurrent downloads
\* record their outcomes (circuit_breaker.py:165).
CircuitsOpenOnEvidence ==
  \A s \in Sources :
    breaker[s].state = "closed" /\ breaker'[s].state = "open" => streak'[s] = Threshold
OpensOnEvidence == [][CircuitsOpenOnEvidence]_vars

\* A circuit that is half open lets exactly one request through
\* (circuit_breaker.py:123): no two downloads are trying a source at once
\* while its circuit is half open.
OneProbe ==
  \A s \in Sources :
    breaker[s].state = "half_open" =>
      Cardinality({d \in Downloads : /\ dl[d].pc \in {"trying"}
                                     /\ Current(d) = s}) <= 1
=============================================================================
