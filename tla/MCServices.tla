---------------------------- MODULE MCServices ----------------------------
(***************************************************************************)
(* Components that share no state, for TLC: a behaviour runs one of them,    *)
(* "part" says which.  Variables of the same name belong to whichever runs;  *)
(* those of the others are None.  SearchRelay is extended, so that its       *)
(* definitions are those of the run: its variables keep their initial values *)
(* where it does not run.  Searches and pings share no state of the site     *)
(* either, so it runs once with each.                                        *)
(***************************************************************************)
EXTENDS SearchRelay, FiniteSets

CONSTANTS
  Downloads, Ids, Qualities, Threshold, FailWindow, OpenFor,           \* ProviderWaterfall
  Users, SeedCount, PollCount, MaxVideos,                              \* YtNotify
  MaxRotations,                                                        \* QobuzCredentials
  TidalThreads,                                                             \* MonochromeTracks
  Keys, DedupSize, MaxBackoff, MaxTasks,                               \* RubikaLink
  Streams, MaxEvents,                                                  \* EventStream
  Settings, Updates,                                                   \* RuntimeSettings
  Threads, MaxRestarts                                                 \* shared

VARIABLES
  part,
  breaker, streak, dl,
  published, record, call, poll, confirmed, due, heard, overlooked,
  live, shown, cache, lock, token, auth,
  memory, locked, waiter, woken, bound, raced,
  loop, client, backoff, dedup, handling, others,
  row, committed, events, stream, subscribers, shut,
  patch, table, letters, acks, stored, file, turn, acked,
  disk, thread, restarts

\* What the proofs assume of the constants.
ASSUME ThresholdIsPositive == Threshold \in Nat \ {0}
ASSUME WindowIsNatural == DedupSize \in Nat /\ IsFiniteSet(Keys)
ASSUME NoneIsNoSetOfKeys == \A S \in SUBSET Keys : S # None
ASSUME VideosAreBounded == MaxVideos \in Nat
ASSUME UpdatesAreFinite == IsFiniteSet(Updates) /\ None \notin Updates

Waterfall == INSTANCE ProviderWaterfall
Notify    == INSTANCE YtNotify
ASSUME NoneIsNoRecord == None \notin Notify!Record
Qobuz     == INSTANCE QobuzCredentials
Tracks    == INSTANCE MonochromeTracks WITH Threads <- TidalThreads
Link      == INSTANCE RubikaLink
Events    == INSTANCE EventStream
Config    == INSTANCE RuntimeSettings

waterfallVars == <<breaker, streak, dl>>
notifyVars == <<published, record, call, poll, confirmed, due, heard, overlooked>>
qobuzVars == <<live, shown, cache, lock, token, auth>>
tracksVars == <<memory, locked, waiter, woken, bound, raced>>
searchVars == <<pc, pending, set, results, answer, wire, handler, pictures,
                pong, storing, silent>>
linkVars == <<loop, client, backoff, dedup, handling, others>>
eventsVars == <<row, committed, events, stream, subscribers, shut>>
configVars == <<patch, table, letters, acks, stored, file, turn, acked>>
allVars == <<part, waterfallVars, notifyVars, qobuzVars, tracksVars, searchVars,
          linkVars, eventsVars, configVars, disk, thread, restarts, faults>>

\* A component that does not run.
NoWaterfall ==
  /\ breaker = None /\ streak = None /\ dl = None
NoNotify ==
  /\ published = None /\ record = None /\ call = None /\ poll = None
  /\ confirmed = None /\ due = None /\ heard = None /\ overlooked = None
NoQobuz ==
  /\ live = None /\ shown = None /\ cache = None /\ lock = None
  /\ token = None /\ auth = None
NoTracks ==
  /\ memory = None /\ locked = None /\ waiter = None /\ woken = None
  /\ bound = None /\ raced = None
NoLink ==
  /\ loop = None /\ client = None /\ backoff = None /\ dedup = None
  /\ handling = None /\ others = None
NoEvents ==
  /\ row = None /\ committed = None /\ events = None /\ stream = None
  /\ subscribers = None /\ shut = None
NoConfig ==
  /\ patch = None /\ table = None /\ letters = None /\ acks = None
  /\ stored = None /\ file = None /\ turn = None /\ acked = None

PartInit ==
  \/ /\ part = "waterfall" /\ Waterfall!Init
     /\ NoNotify /\ NoQobuz /\ NoTracks /\ NoLink /\ NoEvents
     /\ NoConfig
     /\ disk = None /\ thread = None /\ restarts = None
  \/ /\ part = "notify" /\ Notify!Init
     /\ NoWaterfall /\ NoQobuz /\ NoTracks /\ NoLink
     /\ NoEvents /\ NoConfig
     /\ disk = None /\ thread = None /\ restarts = None
  \/ /\ part = "qobuz" /\ Qobuz!Init
     /\ NoWaterfall /\ NoNotify /\ NoTracks /\ NoLink
     /\ NoEvents /\ NoConfig
  \/ /\ part = "tracks" /\ Tracks!Init
     /\ NoWaterfall /\ NoNotify /\ NoQobuz /\ NoLink
     /\ NoEvents /\ NoConfig
  \/ /\ part \in {"searches", "pings"}
     /\ NoWaterfall /\ NoNotify /\ NoQobuz /\ NoTracks /\ NoLink
     /\ NoEvents /\ NoConfig
     /\ disk = None /\ thread = None /\ restarts = None
  \/ /\ part = "link" /\ Link!Init
     /\ NoWaterfall /\ NoNotify /\ NoQobuz /\ NoTracks
     /\ NoEvents /\ NoConfig
     /\ disk = None /\ thread = None /\ restarts = None
  \/ /\ part = "events" /\ Events!Init
     /\ NoWaterfall /\ NoNotify /\ NoQobuz /\ NoTracks
     /\ NoLink /\ NoConfig
     /\ disk = None /\ thread = None /\ restarts = None
  \/ /\ part = "config" /\ Config!Init
     /\ NoWaterfall /\ NoNotify /\ NoQobuz /\ NoTracks
     /\ NoLink /\ NoEvents
     /\ disk = None /\ thread = None

WaterfallNext ==
  /\ part = "waterfall" /\ Waterfall!Next
  /\ UNCHANGED <<part, notifyVars, qobuzVars, tracksVars, searchVars,
                 linkVars, eventsVars, configVars, disk, thread, restarts,
                 faults>>

NotifyNext ==
  /\ part = "notify" /\ Notify!Next
  /\ UNCHANGED <<part, waterfallVars, qobuzVars, tracksVars, searchVars,
                 linkVars, eventsVars, configVars, disk, thread, restarts,
                 faults>>

QobuzNext ==
  /\ part = "qobuz" /\ Qobuz!Next
  /\ UNCHANGED <<part, waterfallVars, notifyVars, tracksVars, searchVars,
                 linkVars, eventsVars, configVars, faults>>

TracksNext ==
  /\ part = "tracks" /\ Tracks!Next
  /\ UNCHANGED <<part, waterfallVars, notifyVars, qobuzVars, searchVars,
                 linkVars, eventsVars, configVars, faults>>

SearchNext ==
  /\ part = "searches" /\ Next /\ \A p \in Pings : pc'[p] = pc[p]
  /\ UNCHANGED <<part, waterfallVars, notifyVars, qobuzVars, tracksVars,
                 linkVars, eventsVars, configVars, disk, thread, restarts>>

PingNext ==
  /\ part = "pings" /\ Next /\ \A s \in Searches : pc'[s] = pc[s]
  /\ UNCHANGED <<part, waterfallVars, notifyVars, qobuzVars, tracksVars,
                 linkVars, eventsVars, configVars, disk, thread, restarts>>

LinkNext ==
  /\ part = "link" /\ Link!Next
  /\ UNCHANGED <<part, waterfallVars, notifyVars, qobuzVars, tracksVars,
                 searchVars, eventsVars, configVars, disk, thread, restarts,
                 faults>>

EventsNext ==
  /\ part = "events" /\ Events!Next
  /\ UNCHANGED <<part, waterfallVars, notifyVars, qobuzVars, tracksVars,
                 searchVars, linkVars, configVars, disk, thread, restarts,
                 faults>>

ConfigNext ==
  /\ part = "config" /\ Config!Next
  /\ UNCHANGED <<part, waterfallVars, notifyVars, qobuzVars, tracksVars,
                 searchVars, linkVars, eventsVars, disk, thread>>

PartNext ==
  \/ WaterfallNext \/ NotifyNext \/ QobuzNext \/ TracksNext
  \/ SearchNext \/ PingNext \/ LinkNext \/ EventsNext \/ ConfigNext

ServicesInit == Init /\ PartInit

ServicesSpec == ServicesInit /\ [][PartNext]_allVars

----------------------------------------------------------------------------
(* The properties of each component, while it runs; those of SearchRelay are *)
(* its own.                                                                *)

\* A circuit opens only on enough failures since the last success
\* (circuit_breaker.py:165).
OpensOnEvidence == [][part = "waterfall" => Waterfall!CircuitsOpenOnEvidence]_allVars

\* No video is announced twice within a subscription (yt_notify.py:387-446).
AnnouncedOnce == part = "notify" => Notify!AnnouncedOnce

\* A confirmed subscriber was sent what a poll has noted as seen, unless he joined
\* during a poll or another command replaced the record (rub.py:3265,
\* yt_notify.py:387-446).
NewVideosReachSubscribers == part = "notify" => Notify!NewVideosReachSubscribers

\* A signed request during which nothing went wrong succeeds (qobuz.py:594-620,
\* 664-668).
HealthyRequestsSucceed == part = "qobuz" => Qobuz!HealthyRequestsSucceed

\* One thread at a time refreshes the Tidal token, and only when none is valid,
\* except where two found the lock free at once (auth.py:120-133).
OneRefreshAtATime == part = "tracks" => Tracks!OneRefreshAtATime

\* A message is handled again only after enough others to fill the window of
\* those handled, however often the link is lost
\* (rubika_client.py:111-120, 316-323).
HandledOnce == [][part = "link" => Link!HandledOnceStep]_allVars

\* A stream misses nothing that is published after it has subscribed
\* (event_bus.py:69-106).
ListenersMissNothing == part = "events" => Events!ListenersMissNothing

\* A restart of the worker brings back no value older than one it has
\* acknowledged (settings.py:156-160, 174-193).
AcknowledgedSettingsSurvive == part = "config" => Config!AcknowledgedSettingsSurvive
=============================================================================
