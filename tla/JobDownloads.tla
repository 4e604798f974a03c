---------------------------- MODULE JobDownloads ----------------------------
(***************************************************************************)
(* What the downloaders of the worker (kharej/downloaders/*.py) do between *)
(* job.accepted and the answer of a job: resolve, download with the        *)
(* attempts and fallbacks of the platform, zip, upload.                    *)
(*                                                                         *)
(* A job is of one of three kinds: a single track, a Spotify collection    *)
(* (its tracks one after the other, each uploaded on its own), or a batch  *)
(* (its tracks concurrently, one archive in one or more parts).  Its       *)
(* uploads are those of ObjectUpload; they run in a thread that a cancelled*)
(* job leaves behind, and so do the downloads of a batch.                  *)
(***************************************************************************)
EXTENDS Naturals, Sequences, FiniteSets, SequencesExt

CONSTANTS
  NTracks,       \* the tracks of a collection or a batch
  TrackSize,     \* TrackSize[i]: the size of the file of track i
  SplitSize,     \* zip_split_threshold_mb, or 0 if splitting is off
  Concurrency,   \* download_concurrency
  MaxProxyRetries, Size, Threshold, MaxTries, MaxUploads, None

Tracks == 1 .. NTracks

ASSUME NTracksIsPositive == NTracks \in Nat \ {0}
ASSUME SizesOfTracks == TrackSize \in [Tracks -> Nat] /\ SplitSize \in Nat
ASSUME ConcurrencyIsPositive == {Concurrency, MaxProxyRetries} \subseteq Nat \ {0}

VARIABLES
  kind,     \* what the job is
  jpc,      \* where the job is
  track,    \* the track a single or a collection is at
  tpc,      \* tpc[i]: where track i is
  at,       \* at[i]: the attempt that track i is at
  files,    \* downloaded_files, as track numbers
  archive,  \* the parts of the archive that are not uploaded, as files
  refs,     \* the keys of the uploaded objects
  \* of ObjectUpload
  upc, key, uid, parts, tries, store, opened, lost

upload == <<upc, key, uid, parts, tries, store, opened, lost>>
vars   == <<kind, jpc, track, tpc, at, files, archive, refs, upload>>

\* make_media_key, make_part_key, make_thumb_key, within one job.
Keys == ({"media", "part"} \X Tracks) \cup {<<"thumb", 0>>}

ASSUME SizesOfObjects == Size \in [Keys -> Nat] /\ Threshold \in Nat
ASSUME TriesArePositive == {MaxTries, MaxUploads} \subseteq Nat \ {0}

\* The job's call of upload_file.
Call == "call"
U == INSTANCE ObjectUpload WITH Uploaders <- {Call}

-----------------------------------------------------------------------------
(* Platforms.                                                              *)

Times(n, a) == [i \in 1 .. n |-> a]

\* The run() of a downloader: what may fail before the first attempt, the
\* attempts it makes one after the other, whether an attempt may fail in a
\* way that ends the job at once, and whether the cover is uploaded too.
\* (What spotify_dl.download_track tries is the subject of ProviderWaterfall.)
TidalRun      == [checks |-> {"track id", "metadata"}, attempts |-> <<"waterfall">>,
                  fatal |-> FALSE, cover |-> TRUE]
QobuzRun      == [checks |-> {"track id", "metadata"}, attempts |-> <<"waterfall">>,
                  fatal |-> FALSE, cover |-> TRUE]
AmazonRun     == [checks |-> {"track id", "metadata"}, attempts |-> <<"waterfall">>,
                  fatal |-> FALSE, cover |-> TRUE]
BandcampRun   == [checks |-> {"url"}, attempts |-> <<"once">>, fatal |-> FALSE, cover |-> FALSE]
InstagramRun  == [checks |-> {}, attempts |-> <<"once">>, fatal |-> FALSE, cover |-> FALSE]

\* One proxy after the other, the backup last.
SoundcloudRun == [checks |-> {"url"}, attempts |-> Times(MaxProxyRetries, "proxy"),
                  fatal |-> FALSE, cover |-> FALSE]

\* The same; yt-dlp may succeed without a file, which is not retried.
YoutubeRun    == [checks |-> {"binary"}, attempts |-> Times(MaxProxyRetries, "proxy"),
                  fatal |-> TRUE, cover |-> FALSE]

\* Three search results through the pool's proxy, then through the backup;
\* a search without results is not repeated through the backup.
MusicdlRun    == [checks |-> {"query"}, attempts |-> Times(2 * 3, "candidate"),
                  fatal |-> TRUE, cover |-> FALSE]

\* _download_spotify_track_locally: lossless qualities come from three
\* musicdl sources only; mp3 from one, and then from YouTube.  Each musicdl
\* source is tried with the pool's proxy and with the backup.
SpotifyLossless == Times(2, "qobuz") \o Times(2, "kuwo") \o Times(2, "qianqian")
SpotifyMp3      == Times(2, "spotify") \o Times(3, "ytdlp")
SpotifyRun(attempts) == [checks |-> {"collection", "track id", "metadata"},
                         attempts |-> attempts, fatal |-> FALSE, cover |-> TRUE]

\* One attempt without a proxy for each track of a batch that is not Spotify's.
BatchRun == [checks |-> {}, attempts |-> <<"once">>, fatal |-> FALSE, cover |-> FALSE]

Runs ==
  [tidal |-> TidalRun, qobuz |-> QobuzRun, amazon |-> AmazonRun,
   bandcamp |-> BandcampRun, instagram |-> InstagramRun, soundcloud |-> SoundcloudRun,
   youtube |-> YoutubeRun, musicdl |-> MusicdlRun,
   lossless |-> SpotifyRun(SpotifyLossless), mp3 |-> SpotifyRun(SpotifyMp3),
   batch |-> BatchRun]

Kinds == {[form |-> "single", platform |-> p] : p \in DOMAIN Runs \ {"batch"}}
         \cup {[form |-> "collection", platform |-> p] : p \in {"lossless", "mp3"}}
         \cup {[form |-> "batch", platform |-> p] : p \in {"lossless", "mp3", "batch"}}

MyRun == Runs[kind.platform]
MyAttempts == MyRun.attempts

\* Where a failed attempt leads: to the next one; past the second try of a
\* musicdl source if the pool's proxy was the backup; past all further ones
\* of yt-dlp if the error does not look like the proxy's.
Further(i) ==
  LET n == at[i]
      a == MyAttempts[n]
  IN {n + 1}
     \cup (IF a \in {"qobuz", "kuwo", "qianqian", "spotify"}
           THEN {m \in {n + 2} : n % 2 = 1} ELSE {})
     \cup (IF a = "ytdlp" THEN {Len(MyAttempts) + 1} ELSE {})

\* split_zip_from_files: a part is closed when the next file would exceed
\* the limit, so a larger file has a part of its own.
Sums(part) ==
  LET total[n \in 0 .. Len(part)] == IF n = 0 THEN 0 ELSE total[n - 1] + TrackSize[part[n]]
  IN  total
SumOf(part) == Sums(part)[Len(part)]

\* Mutant: the limit is looked at before the file is counted.
PackedLate(ps, i) ==
  IF ps = <<>> THEN <<<<i>>>>
  ELSE IF SumOf(Last(ps)) > SplitSize
  THEN Append(ps, <<i>>)
  ELSE Append(Front(ps), Append(Last(ps), i))

Packed(ps, i) ==
  IF ps = <<>> THEN <<<<i>>>>
  ELSE IF SumOf(Last(ps)) > 0 /\ SumOf(Last(ps)) + TrackSize[i] > SplitSize
  THEN Append(ps, <<i>>)
  ELSE Append(Front(ps), Append(Last(ps), i))

\* The parts after each file.
Packings(fs) ==
  LET packed[n \in 0 .. Len(fs)] == IF n = 0 THEN <<>> ELSE Packed(packed[n - 1], fs[n])
  IN  packed
SplitFiles(fs) == Packings(fs)[Len(fs)]

-----------------------------------------------------------------------------
Init ==
  /\ kind \in Kinds
  /\ jpc = "ready"
  /\ track = 1
  /\ tpc = [i \in Tracks |-> "waiting"]
  /\ at = [i \in Tracks |-> 1]
  /\ files = <<>>
  /\ archive = <<>>
  /\ refs = <<>>
  /\ U!Init

Ended == {"completed", "failed", "cancelled"}

\* The exception that leaves run() is reported by the dispatcher.
Fail == jpc' = "failed"

\* The URL is parsed and looked up.  A collection that cannot be resolved is
\* taken for a track, whose id cannot be parsed either.
Resolve ==
  /\ jpc = "ready"
  /\ \/ /\ jpc' = IF kind.form = "batch" THEN "gathering" ELSE "downloading"
        /\ tpc' = IF kind.form = "batch" THEN tpc ELSE [tpc EXCEPT ![1] = "running"]
     \/ kind.form # "batch" /\ MyRun.checks # {} /\ Fail /\ UNCHANGED tpc
  /\ UNCHANGED <<kind, track, at, files, archive, refs, upload>>

Running == {i \in Tracks : tpc[i] = "running"}

\* A track of a batch gets the semaphore.
TrackStarts(i) ==
  /\ jpc = "gathering"
  /\ tpc[i] = "waiting"
  /\ Cardinality(Running) < Concurrency
  /\ tpc' = [tpc EXCEPT ![i] = "running"]
  /\ UNCHANGED <<kind, jpc, track, at, files, archive, refs, upload>>

\* An attempt fails and another one follows.
AttemptFails(i) ==
  /\ jpc \in {"gathering", "downloading"}
  /\ tpc[i] = "running"
  /\ \E n \in Further(i) :
       /\ n <= Len(MyAttempts)
       /\ at' = [at EXCEPT ![i] = n]
  /\ UNCHANGED <<kind, jpc, track, tpc, files, archive, refs, upload>>

\* The track that comes after the present one of a collection, or the end.
NextTrack ==
  IF track < NTracks
  THEN track' = track + 1 /\ tpc' = [tpc EXCEPT ![track + 1] = "running"] /\ jpc' = "downloading"
  ELSE jpc' = (IF refs' = <<>> THEN "failed" ELSE "completed") /\ UNCHANGED <<track, tpc>>

\* No attempt is left, or the error is not one of those that are retried: a
\* single job fails, a collection and a batch go on without the track.
TrackFails(i) ==
  /\ jpc \in {"gathering", "downloading"}
  /\ tpc[i] = "running"
  /\ \/ \E n \in Further(i) : n > Len(MyAttempts)
     \/ MyRun.fatal
  /\ tpc' = [tpc EXCEPT ![i] = "failed"]
  /\ IF kind.form = "single" THEN Fail ELSE UNCHANGED jpc
  /\ UNCHANGED <<kind, track, at, files, archive, refs, upload>>

\* The file of a track is there; in a batch, yt-dlp may also end well without
\* a file, and the track still counts as done.  Should it leave several media
\* files, they are one here: all of them are taken at once (batch.py:297).
TrackDone(i) ==
  /\ jpc \in {"gathering", "downloading"}
  /\ tpc[i] = "running"
  /\ \/ /\ tpc' = [tpc EXCEPT ![i] = "done"]
        /\ files' = Append(files, i)
     \/ /\ kind.platform = "batch"
        /\ tpc' = [tpc EXCEPT ![i] = "empty"]
        /\ UNCHANGED files
  /\ IF kind.form = "batch" THEN UNCHANGED jpc ELSE jpc' = "uploading"
  /\ UNCHANGED <<kind, track, at, archive, refs, upload>>

\* The track of a collection that failed is skipped.
SkipTrack ==
  /\ jpc = "downloading"
  /\ tpc[track] = "failed"
  /\ UNCHANGED refs
  /\ NextTrack
  /\ UNCHANGED <<kind, at, files, archive, upload>>

\* gather() returns when every track is done or failed; the files are packed
\* into one archive, or into parts if they are larger than the threshold.
BuildArchive ==
  /\ jpc = "gathering"
  /\ \A i \in Tracks : tpc[i] \in {"done", "empty", "failed"}
  /\ IF files = <<>> THEN Fail /\ UNCHANGED archive
     ELSE /\ jpc' = "uploading"
          /\ archive' = IF SplitSize > 0 /\ SumOf(files) > SplitSize
                        THEN SplitFiles(files) ELSE <<files>>
  /\ UNCHANGED <<kind, track, tpc, at, files, refs, upload>>

-----------------------------------------------------------------------------
(* Uploads.                                                                *)

\* Mutant: the objects of a collection are named by their titles only, which
\* the tracks of a collection may share.
KeyByTitle == IF kind.form = "batch" THEN <<"part", Len(refs) + 1>> ELSE <<"media", 1>>

\* The key of the next object.  Each track of a collection has its index in
\* its key, and each part of an archive its number.
NextKey == IF kind.form = "batch" THEN <<"part", Len(refs) + 1>> ELSE <<"media", track>>

Upload ==
  /\ jpc = "uploading"
  /\ U!Begin(Call, NextKey)
  /\ jpc' = "sending"
  /\ UNCHANGED <<kind, track, tpc, at, files, archive, refs>>

\* The object is stored: the next track or part, the cover, or the end.
Sent ==
  /\ jpc = "sending"
  /\ upc[Call] = "ok"
  /\ refs' = Append(refs, key[Call])
  /\ archive' = IF kind.form = "batch" THEN Tail(archive) ELSE archive
  /\ CASE kind.form = "batch" ->
            jpc' = (IF Len(archive) > 1 THEN "uploading" ELSE "completed")
            /\ UNCHANGED <<track, tpc>>
       [] kind.form = "collection" -> NextTrack
       [] kind.form = "single" ->
            /\ \/ jpc' = "completed"
               \/ MyRun.cover /\ jpc' = "cover"
            /\ UNCHANGED <<track, tpc>>
  /\ UNCHANGED <<kind, at, files, upload>>

\* The upload failed.  A collection skips the track; musicdl tries the next
\* candidate; every other job fails, with the parts it uploaded left behind.
NotSent ==
  /\ jpc = "sending"
  /\ upc[Call] = "failed"
  /\ UNCHANGED refs
  /\ CASE kind.form = "collection" -> NextTrack /\ UNCHANGED <<at, files>>
       [] kind.platform = "musicdl" /\ at[1] < Len(MyAttempts) ->
            /\ at' = [at EXCEPT ![1] = @ + 1]
            /\ tpc' = [tpc EXCEPT ![1] = "running"]
            /\ jpc' = "downloading"
            /\ files' = <<>>
            /\ UNCHANGED track
       [] OTHER -> Fail /\ UNCHANGED <<track, tpc, at, files>>
  /\ UNCHANGED <<kind, archive, upload>>

\* _upload_thumbnail: the cover is fetched and uploaded, or not.
Cover ==
  /\ jpc = "cover"
  /\ \/ U!Begin(Call, <<"thumb", 0>>) /\ jpc' = "covering"
     \/ jpc' = "completed" /\ UNCHANGED upload
  /\ UNCHANGED <<kind, track, tpc, at, files, archive, refs>>

CoverSent ==
  /\ jpc = "covering"
  /\ upc[Call] \in {"ok", "failed"}
  /\ refs' = IF upc[Call] = "ok" THEN Append(refs, <<"thumb", 0>>) ELSE refs
  /\ jpc' = "completed"
  /\ UNCHANGED <<kind, track, tpc, at, files, archive, upload>>

\* A progress report that cannot be sent raises in the downloader, also the one
\* that follows the last upload.
ReportRaises ==
  /\ jpc \notin Ended
  /\ jpc \in {"sending", "covering"} => upc[Call] \in {"ok", "failed"}
  /\ Fail
  /\ UNCHANGED <<kind, track, tpc, at, files, archive, refs, upload>>

\* job.cancel, the timeout of the job or the shutdown cancel the task.  Its
\* threads go on: a download writes into a directory that is gone, and an
\* upload stores an object that nobody is told of.
Cancel ==
  /\ jpc \notin Ended
  /\ jpc' = "cancelled"
  /\ tpc' = [i \in Tracks |-> IF tpc[i] = "running" THEN "stray" ELSE tpc[i]]
  /\ UNCHANGED <<kind, track, at, files, archive, refs, upload>>

StrayEnds(i) ==
  /\ tpc[i] = "stray"
  /\ tpc' = [tpc EXCEPT ![i] = "failed"]
  /\ UNCHANGED <<kind, jpc, track, at, files, archive, refs, upload>>

UploadStep == U!Step(Call) /\ UNCHANGED <<kind, jpc, track, tpc, at, files, archive, refs>>

JobStep ==
  \/ Resolve \/ SkipTrack \/ BuildArchive \/ Upload \/ Sent \/ NotSent \/ Cover \/ CoverSent
  \/ \E i \in Tracks : TrackStarts(i) \/ AttemptFails(i) \/ TrackFails(i) \/ TrackDone(i)

Next ==
  \/ JobStep \/ UploadStep \/ ReportRaises \/ Cancel
  \/ \E i \in Tracks : StrayEnds(i)

Spec == Init /\ [][Next]_vars

-----------------------------------------------------------------------------
(* Properties.                                                             *)

\* A completed job delivers all that it downloaded: every object it names is
\* stored and whole, no two have the same name, and it names more than a cover.
\* Of a batch every part was uploaded, and the files of the tracks that were
\* downloaded, each once, are what was packed (PartsHoldTheFiles: how).
CompletedJobsDeliver ==
  jpc = "completed" =>
    /\ \E k \in Range(refs) : k[1] # "thumb"
    /\ \A k \in Range(refs) : store[k] = U!Whole(k)
    /\ IsInjective(refs)
    /\ kind.form = "batch" =>
         /\ archive = <<>>
         /\ \A i \in Tracks : tpc[i] = "done" <=> Cardinality({n \in DOMAIN files : files[n] = i}) = 1

\* The parts ps are the sequence fs, cut into stretches.
CutsOf(fs, ps) == [0 .. Len(ps) -> 0 .. Len(fs)]
CutInto(fs, ps) ==
  \E cut \in CutsOf(fs, ps) :
    /\ cut[0] = 0 /\ cut[Len(ps)] = Len(fs)
    /\ \A n \in 1 .. Len(ps) :
         cut[n - 1] < cut[n] /\ ps[n] = SubSeq(fs, cut[n - 1] + 1, cut[n])

\* The parts of an archive hold its files in order, each once, and none is
\* empty.  A part exceeds the limit only if it is one file, which files
\* without content may precede.
PartsHoldTheFiles ==
  jpc = "uploading" /\ kind.form = "batch" /\ refs = <<>> =>
    /\ CutInto(files, archive)
    /\ SplitSize > 0 =>
         \A n \in DOMAIN archive :
           SumOf(archive[n]) <= SplitSize \/ SumOf(Front(archive[n])) = 0

\* No multipart upload is left open, a cancelled job's neither.
UploadsAreClosed == U!UploadsAreClosed
=============================================================================
