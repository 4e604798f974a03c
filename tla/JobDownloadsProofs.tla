------------------------- MODULE JobDownloadsProofs -------------------------
(***************************************************************************)
(* What the downloaders promise for any number of tracks, any sizes, any   *)
(* number of attempts, and any limits of parts and uploads.                *)
(***************************************************************************)
EXTENDS JobDownloads, SequenceTheorems, FiniteSetTheorems, TLAPS

-----------------------------------------------------------------------------
(* The upload of an object.                                                *)

Busy    == {"part", "complete", "abort"}
Entries == [key : Keys, chunks : Seq(Nat)]

UploadTyped ==
  /\ upc \in [{Call} -> U!Requests \cup {"idle", "ok", "failed"}]
  /\ key \in [{Call} -> Keys \cup {None}]
  /\ upc[Call] # "idle" => key[Call] \in Keys
  /\ DOMAIN uid = {Call}
  /\ upc[Call] \in Busy => uid[Call] \in DOMAIN opened
  /\ parts \in [{Call} -> Seq(Nat)]
  /\ DOMAIN store = Keys
  /\ opened \in Seq(Entries \cup {None})

\* The parts that were answered are the first ones, in order; the store has
\* the same chunks under the same numbers.
PartsInOrder ==
  /\ upc[Call] \in {"put", "create"} => parts[Call] = <<>>
  /\ \A i \in DOMAIN parts[Call] : parts[Call][i] = i
  /\ upc[Call] = "complete" => Len(parts[Call]) = Size[key[Call]]
  /\ upc[Call] \in {"part", "complete"} /\ opened[uid[Call]] # None =>
       \A i \in DOMAIN parts[Call] :
         i \in DOMAIN opened[uid[Call]].chunks /\ opened[uid[Call]].chunks[i] = i

\* What is stored is whole, and what was uploaded is stored.
StoredWhole ==
  /\ \A k \in Keys : store[k] = None \/ store[k] = U!Whole(k)
  /\ upc[Call] = "ok" => store[key[Call]] = U!Whole(key[Call])

UploadInv == UploadTyped /\ PartsInOrder /\ StoredWhole /\ UploadsAreClosed

-----------------------------------------------------------------------------
(* The job.                                                                *)

JobPCs == {"ready", "gathering", "downloading", "uploading", "sending", "cover", "covering"}
          \cup Ended

JobTyped ==
  /\ kind \in Kinds
  /\ jpc \in JobPCs
  /\ track \in Tracks
  /\ tpc \in [Tracks -> {"waiting", "running", "stray", "done", "empty", "failed"}]
  /\ files \in Seq(Tracks)
  /\ archive \in Seq(Seq(Tracks))
  /\ refs \in Seq(Keys)

\* The kinds of jobs take different ways.
WaysOfKinds ==
  /\ jpc = "gathering" => kind.form = "batch"
  /\ jpc = "downloading" => kind.form # "batch"
  /\ jpc \in {"cover", "covering"} => kind.form = "single"
  /\ kind.form = "single" => track = 1
  /\ kind.form = "single" /\ jpc = "downloading" => tpc[1] = "running"

\* The files of a batch are those of its tracks that are done.
FilesOfBatch ==
  kind.form = "batch" =>
    /\ IsInjective(files)
    /\ \A i \in Tracks : tpc[i] = "done" <=> \E n \in DOMAIN files : files[n] = i

\* An archive fits into the keys of its parts.
PartsLeft ==
  kind.form = "batch" /\ jpc \in {"uploading", "sending"} =>
    archive # <<>> /\ Len(refs) + Len(archive) <= NTracks

\* The names of the objects so far, by the kind of the job.
NamesOfObjects ==
  /\ IsInjective(refs)
  /\ \A k \in Range(refs) : store[k] = U!Whole(k)
  /\ jpc \in {"ready", "gathering"} => refs = <<>>
  /\ kind.form = "batch" => \A n \in DOMAIN refs : refs[n] = <<"part", n>>
  /\ kind.form = "collection" => \A n \in DOMAIN refs : refs[n][1] = "media"
  /\ kind.form = "collection" /\ jpc \notin Ended => \A n \in DOMAIN refs : refs[n][2] < track
  /\ kind.form = "single" /\ jpc \notin {"cover", "covering"} \cup Ended => refs = <<>>
  /\ jpc \in {"cover", "covering"} => refs = <<<<"media", 1>>>>
  /\ jpc = "sending" => key[Call] = NextKey /\ key[Call] \in Keys
  /\ jpc = "covering" => key[Call] = <<"thumb", 0>>
  /\ jpc \in {"sending", "covering"} => upc[Call] # "idle"

\* A completed job has uploaded a track or a part, and left no part behind.
Delivered ==
  jpc = "completed" =>
    /\ refs # <<>> /\ refs[1][1] # "thumb"
    /\ kind.form = "batch" => archive = <<>>

DeliveryInv ==
  JobTyped /\ WaysOfKinds /\ FilesOfBatch /\ PartsLeft /\ NamesOfObjects /\ Delivered

-----------------------------------------------------------------------------
(* An upload keeps its promises.                                           *)

USE DEF U!Requests, U!Outcomes

UploadPCs == U!Requests \cup {"idle", "ok", "failed"}

\* An error repeats the request, aborts an upload that was opened, or ends
\* the call.
LEMMA ErrorsLead ==
  ASSUME UploadTyped, NEW error, U!Erred(Call, error)
  PROVE  /\ upc' \in [{Call} -> UploadPCs]
         /\ \/ upc' = upc
            \/ upc[Call] \in {"part", "complete"} /\ upc'[Call] = "abort"
            \/ upc[Call] \notin {"part", "complete"} /\ upc'[Call] = "failed"
BY DEF UploadTyped, UploadPCs, U!Erred, U!GoOn

LEMMA GoesOn ==
  ASSUME UploadTyped, NEW request \in UploadPCs, U!GoOn(Call, request)
  PROVE  upc' \in [{Call} -> UploadPCs] /\ upc'[Call] = request
BY DEF UploadTyped, UploadPCs, U!GoOn

LEMMA OpenedIsSequence ==
  ASSUME UploadTyped
  PROVE  /\ Len(opened) \in Nat
         /\ DOMAIN opened = 1 .. Len(opened)
         /\ \A i \in DOMAIN opened : opened[i] \in Entries \cup {None}
         /\ Len(parts[Call]) \in Nat
         /\ DOMAIN parts[Call] = 1 .. Len(parts[Call])
BY DEF UploadTyped

\* A step that leaves the parts and the store's data alone: it may move the
\* call, but into no request that relies on more than the present one.
LEMMA MoveKeepsUpload ==
  ASSUME UploadInv, UNCHANGED <<key, uid, parts, store, opened, lost>>,
         upc' \in [{Call} -> UploadPCs],
         \/ upc' = upc
         \/ upc[Call] \in {"part", "complete"} /\ upc'[Call] = "abort"
         \/ upc[Call] \in {"put", "create"} /\ upc'[Call] = "failed"
  PROVE  UploadInv'
<1>1. UploadTyped'
  BY DEF UploadInv, UploadTyped, UploadPCs, Busy
<1>2. PartsInOrder' /\ StoredWhole'
  BY DEF UploadInv, PartsInOrder, StoredWhole, UploadTyped, U!Whole
<1>3. UploadsAreClosed'
  BY DEF UploadInv, UploadsAreClosed, U!UploadsAreClosed
<1>4. QED
  BY <1>1, <1>2, <1>3 DEF UploadInv

LEMMA BeginKeepsUpload ==
  ASSUME UploadInv, NEW k \in Keys, U!Begin(Call, k)
  PROVE  UploadInv' /\ key'[Call] = k /\ upc'[Call] # "idle" /\ UNCHANGED store
<1>1. /\ key'[Call] = k
      /\ upc'[Call] \in {"create", "put"} /\ upc' \in [{Call} -> UploadPCs]
      /\ parts' = [parts EXCEPT ![Call] = <<>>]
      /\ UNCHANGED <<store, opened, lost>>
      /\ upc[Call] \notin Busy
  BY DEF U!Begin, UploadInv, UploadTyped, UploadPCs, Busy
<1>2. parts' \in [{Call} -> Seq(Nat)] /\ parts'[Call] = <<>>
  BY <1>1 DEF UploadInv, UploadTyped
<1>3. UploadTyped'
  <2>1. key' \in [{Call} -> Keys \cup {None}] /\ DOMAIN uid' = {Call}
    BY DEF U!Begin, UploadInv, UploadTyped
  <2>2. QED
    BY <1>1, <1>2, <2>1 DEF UploadInv, UploadTyped, UploadPCs, Busy
<1>4. PartsInOrder'
  BY <1>1, <1>2 DEF PartsInOrder
<1>5. StoredWhole'
  BY <1>1 DEF UploadInv, StoredWhole, U!Whole
<1>6. UploadsAreClosed'
  BY <1>1 DEF UploadInv, UploadsAreClosed, U!UploadsAreClosed, Busy
<1>7. QED
  BY <1>1, <1>3, <1>4, <1>5, <1>6 DEF UploadInv

LEMMA PutKeepsUpload ==
  ASSUME UploadInv, U!PutDone(Call)
  PROVE  UploadInv'
<1>1. /\ upc[Call] = "put"
      /\ store' = [store EXCEPT ![key[Call]] = U!Whole(key[Call])]
      /\ UNCHANGED <<key, uid, parts, opened, lost>>
  BY DEF U!PutDone
<1>2. upc' \in [{Call} -> UploadPCs] /\ upc'[Call] \in {"ok", "put", "failed"}
  BY <1>1, ErrorsLead, GoesOn DEF U!PutDone, UploadInv, UploadPCs
<1>3. UploadTyped'
  BY <1>1, <1>2 DEF UploadInv, UploadTyped, UploadPCs, Busy
<1>4. PartsInOrder' /\ UploadsAreClosed'
  BY <1>1, <1>2 DEF UploadInv, PartsInOrder, UploadsAreClosed, U!UploadsAreClosed
<1>5. StoredWhole'
  BY <1>1 DEF UploadInv, UploadTyped, StoredWhole, U!Whole
<1>6. QED
  BY <1>3, <1>4, <1>5 DEF UploadInv

LEMMA CreateKeepsUpload ==
  ASSUME UploadInv, U!CreateDone(Call)
  PROVE  UploadInv'
<1> DEFINE entry == [key |-> key[Call], chunks |-> <<>>]
<1>1. /\ upc[Call] = "create"
      /\ opened' = Append(opened, entry)
      /\ UNCHANGED <<key, parts, store>>
  BY DEF U!CreateDone
<1>2. entry \in Entries
  <2>1. key[Call] \in Keys
    BY <1>1 DEF UploadInv, UploadTyped
  <2>2. QED
    BY <2>1 DEF Entries
<1>3. /\ opened' \in Seq(Entries \cup {None})
      /\ DOMAIN opened' = 1 .. (Len(opened) + 1)
      /\ Len(opened) \in Nat
      /\ \A i \in 1 .. Len(opened) : opened'[i] = opened[i]
      /\ opened'[Len(opened) + 1] = entry
  <2> HIDE DEF entry
  <2>1. opened \in Seq(Entries \cup {None}) /\ entry \in Entries \cup {None}
    BY <1>2 DEF UploadInv, UploadTyped
  <2>2. QED
    BY <1>1, <2>1
<1>4. DOMAIN opened = 1 .. Len(opened)
  BY OpenedIsSequence DEF UploadInv
<1>5. CASE uid' = [uid EXCEPT ![Call] = Len(opened) + 1] /\ U!GoOn(Call, "part") /\ UNCHANGED lost
  <2>1. /\ uid'[Call] = Len(opened) + 1 /\ DOMAIN uid' = {Call}
        /\ upc' \in [{Call} -> UploadPCs] /\ upc'[Call] = "part"
    BY <1>5, GoesOn DEF UploadInv, UploadTyped, UploadPCs
  <2>2. UploadTyped'
    BY <1>1, <1>3, <2>1 DEF UploadInv, UploadTyped, UploadPCs
  <2>3. PartsInOrder'
    BY <1>1, <2>1 DEF UploadInv, PartsInOrder
  <2>4. StoredWhole'
    BY <1>1, <2>1 DEF UploadInv, StoredWhole, U!Whole
  <2>5. UploadsAreClosed'
    BY <1>1, <1>3, <1>4, <1>5, <2>1 DEF UploadInv, UploadsAreClosed, U!UploadsAreClosed
  <2>6. QED
    BY <2>2, <2>3, <2>4, <2>5 DEF UploadInv
<1>6. CASE U!Erred(Call, "transient") /\ lost' = TRUE /\ UNCHANGED uid
  <2>1. upc' \in [{Call} -> UploadPCs] /\ upc'[Call] \in {"create", "failed"}
    BY <1>1, <1>6, ErrorsLead DEF UploadInv, UploadPCs
  <2>2. UploadTyped'
    BY <1>1, <1>3, <1>6, <2>1 DEF UploadInv, UploadTyped, UploadPCs, Busy
  <2>3. PartsInOrder' /\ StoredWhole'
    BY <1>1, <2>1 DEF UploadInv, PartsInOrder, StoredWhole, U!Whole
  <2>4. UploadsAreClosed'
    BY <1>6 DEF UploadsAreClosed, U!UploadsAreClosed
  <2>5. QED
    BY <2>2, <2>3, <2>4 DEF UploadInv
<1>7. QED
  BY <1>5, <1>6 DEF U!CreateDone

\* The store puts the chunk where the client said, and keeps the others.
LEMMA StoreKeepsChunks ==
  ASSUME NEW chunks \in Seq(Nat), NEW n \in Nat \ {0}, NEW c \in Nat
  PROVE  /\ U!WithPart(chunks, n, c) \in Seq(Nat)
         /\ n \in DOMAIN U!WithPart(chunks, n, c) /\ U!WithPart(chunks, n, c)[n] = c
         /\ \A i \in DOMAIN chunks : i # n =>
              i \in DOMAIN U!WithPart(chunks, n, c) /\ U!WithPart(chunks, n, c)[i] = chunks[i]
<1> DEFINE m == IF n > Len(chunks) THEN n ELSE Len(chunks)
           after == [i \in 1 .. m |-> IF i = n THEN c ELSE IF i \in DOMAIN chunks THEN chunks[i] ELSE 0]
<1>1. Len(chunks) \in Nat /\ DOMAIN chunks = 1 .. Len(chunks) /\ \A i \in DOMAIN chunks : chunks[i] \in Nat
  OBVIOUS
<1>2. m \in Nat /\ n \in 1 .. m /\ \A i \in DOMAIN chunks : i \in 1 .. m
  BY <1>1
<1>3. U!WithPart(chunks, n, c) = after
  BY DEF U!WithPart
<1>4. \A i \in 1 .. m : after[i] \in Nat
  BY <1>1
<1>5. after \in Seq(Nat)
  <2> HIDE DEF m
  <2> QED
    BY <1>2, <1>4
<1>6. QED
  <2> HIDE DEF m
  <2> QED
    BY <1>2, <1>3, <1>5

LEMMA PartKeepsUpload ==
  ASSUME UploadInv, U!PartDone(Call)
  PROVE  UploadInv'
<1> DEFINE n == Len(parts[Call]) + 1
           id == uid[Call]
           after == U!WithPart(opened[id].chunks, n, n)
<1>1. /\ upc[Call] = "part" /\ n <= Size[key[Call]] /\ opened[id] # None
      /\ opened' = [opened EXCEPT ![id].chunks = after]
      /\ UNCHANGED <<key, uid, store, lost>>
  BY DEF U!PartDone
<1>2. n \in Nat \ {0} /\ id \in DOMAIN opened /\ opened[id] \in Entries
      /\ opened \in Seq(Entries \cup {None})
  BY <1>1, OpenedIsSequence DEF UploadInv, UploadTyped, Busy
<1>3. /\ after \in Seq(Nat)
      /\ n \in DOMAIN after /\ after[n] = n
      /\ \A i \in DOMAIN opened[id].chunks : i # n => i \in DOMAIN after /\ after[i] = opened[id].chunks[i]
  <2>1. opened[id].chunks \in Seq(Nat)
    BY <1>2 DEF Entries
  <2>2. QED
    BY <1>2, <2>1, StoreKeepsChunks
<1> HIDE DEF after, n, id
<1>4. /\ opened'[id] \in Entries /\ opened'[id].chunks = after
      /\ DOMAIN opened' = DOMAIN opened
      /\ \A i \in DOMAIN opened : i # id => opened'[i] = opened[i]
  BY <1>1, <1>2, <1>3 DEF Entries
<1>5. opened' \in Seq(Entries \cup {None})
  <2>1. \E k \in Nat : DOMAIN opened' = 1 .. k
    BY <1>4, OpenedIsSequence DEF UploadInv
  <2>2. \A i \in DOMAIN opened' : opened'[i] \in Entries \cup {None}
    BY <1>4, OpenedIsSequence DEF UploadInv
  <2>3. opened' = [i \in DOMAIN opened' |-> opened'[i]]
    BY <1>1, <1>2
  <2>4. QED
    BY <2>1, <2>2, <2>3
<1>6. DOMAIN parts[Call] = 1 .. (n - 1) /\ parts[Call] \in Seq(Nat) /\ Len(parts[Call]) = n - 1
  BY <1>2, OpenedIsSequence DEF UploadInv, UploadTyped, n
<1>7. \A i \in DOMAIN parts[Call] : i \in DOMAIN after /\ after[i] = i
  BY <1>1, <1>2, <1>3, <1>6 DEF UploadInv, PartsInOrder, id
<1>8. CASE /\ parts' = [parts EXCEPT ![Call] = Append(@, n)]
           /\ U!GoOn(Call, IF n = Size[key[Call]] THEN "complete" ELSE "part")
  <2>1. /\ upc' \in [{Call} -> UploadPCs]
        /\ upc'[Call] = IF n = Size[key[Call]] THEN "complete" ELSE "part"
    BY <1>8, GoesOn DEF UploadInv, UploadPCs
  <2>2. /\ parts' \in [{Call} -> Seq(Nat)]
        /\ DOMAIN parts'[Call] = 1 .. n /\ Len(parts'[Call]) = n
        /\ \A i \in 1 .. (n - 1) : parts'[Call][i] = parts[Call][i]
        /\ parts'[Call][n] = n
    <3>1. parts' = [parts EXCEPT ![Call] = Append(parts[Call], n)]
      BY <1>8
    <3>2. parts' \in [{Call} -> Seq(Nat)] /\ parts'[Call] = Append(parts[Call], n)
      BY <1>2, <1>6, <3>1 DEF UploadInv, UploadTyped
    <3>3. QED
      BY <1>2, <1>6, <3>2
  <2>3. UploadTyped'
    BY <1>1, <1>2, <1>4, <1>5, <2>1, <2>2 DEF UploadInv, UploadTyped, UploadPCs, Busy, id
  <2>4. PartsInOrder'
    <3>1. \A i \in DOMAIN parts'[Call] : parts'[Call][i] = i
      BY <1>2, <1>6, <2>2 DEF UploadInv, PartsInOrder
    <3>2. upc'[Call] = "complete" => Len(parts'[Call]) = Size'[key'[Call]]
      BY <1>1, <2>1, <2>2
    <3>3. \A i \in DOMAIN parts'[Call] : i \in DOMAIN after /\ after[i] = i
      BY <1>2, <1>3, <1>6, <1>7, <2>2
    <3>4. QED
      BY <1>1, <1>4, <2>1, <3>1, <3>2, <3>3 DEF PartsInOrder, id
  <2>5. StoredWhole'
    BY <1>1, <2>1 DEF UploadInv, StoredWhole, U!Whole
  <2>6. UploadsAreClosed'
    BY <1>1, <1>4, <2>1 DEF UploadInv, UploadsAreClosed, U!UploadsAreClosed, id
  <2>7. QED
    BY <2>3, <2>4, <2>5, <2>6 DEF UploadInv
<1>9. CASE U!Erred(Call, "transient") /\ UNCHANGED parts
  <2>1. upc' \in [{Call} -> UploadPCs] /\ upc'[Call] \in {"part", "abort"}
    BY <1>1, <1>9, ErrorsLead DEF UploadInv
  <2>2. UploadTyped'
    BY <1>1, <1>2, <1>4, <1>5, <1>9, <2>1 DEF UploadInv, UploadTyped, UploadPCs, Busy, id
  <2>3. PartsInOrder'
    BY <1>1, <1>4, <1>7, <1>9, <2>1 DEF UploadInv, PartsInOrder, id
  <2>4. StoredWhole'
    BY <1>1, <2>1 DEF UploadInv, StoredWhole, U!Whole
  <2>5. UploadsAreClosed'
    BY <1>1, <1>4, <2>1 DEF UploadInv, UploadsAreClosed, U!UploadsAreClosed, id
  <2>6. QED
    BY <2>2, <2>3, <2>4, <2>5 DEF UploadInv
<1>10. QED
  BY <1>8, <1>9 DEF U!PartDone, n

LEMMA CompleteKeepsUpload ==
  ASSUME UploadInv, U!CompleteDone(Call)
  PROVE  UploadInv'
<1> DEFINE id == uid[Call]
           k == key[Call]
<1>1. /\ upc[Call] = "complete" /\ opened[id] # None
      /\ store' = [store EXCEPT ![k] = [i \in DOMAIN parts[Call] |-> opened[id].chunks[parts[Call][i]]]]
      /\ opened' = [opened EXCEPT ![id] = None]
      /\ UNCHANGED <<key, uid, parts, lost>>
  BY DEF U!CompleteDone
<1>2. /\ id \in DOMAIN opened /\ k \in Keys
      /\ opened \in Seq(Entries \cup {None}) /\ DOMAIN store = Keys
  BY <1>1 DEF UploadInv, UploadTyped, Busy
<1>3. [i \in DOMAIN parts[Call] |-> opened[id].chunks[parts[Call][i]]] = U!Whole(k)
  <2>1. DOMAIN parts[Call] = 1 .. Size[k]
    BY <1>1, OpenedIsSequence DEF UploadInv, PartsInOrder
  <2>2. \A i \in DOMAIN parts[Call] : opened[id].chunks[parts[Call][i]] = i
    BY <1>1 DEF UploadInv, PartsInOrder
  <2>3. QED
    BY <2>1, <2>2 DEF U!Whole
<1>4. upc' \in [{Call} -> UploadPCs] /\ upc'[Call] \in {"ok", "complete", "abort"}
  BY <1>1, ErrorsLead, GoesOn DEF U!CompleteDone, UploadInv, UploadPCs
<1> HIDE DEF id, k
<1>5. /\ opened' \in Seq(Entries \cup {None}) /\ DOMAIN opened' = DOMAIN opened
      /\ opened'[id] = None /\ \A i \in DOMAIN opened : i # id => opened'[i] = opened[i]
  BY <1>1, <1>2
<1>6. UploadTyped'
  BY <1>1, <1>2, <1>4, <1>5 DEF UploadInv, UploadTyped, UploadPCs, Busy, id
<1>7. PartsInOrder'
  BY <1>1, <1>4, <1>5 DEF UploadInv, PartsInOrder, id
<1>8. StoredWhole'
  BY <1>1, <1>2, <1>3 DEF UploadInv, StoredWhole, U!Whole, k
<1>9. UploadsAreClosed'
  BY <1>1, <1>4, <1>5 DEF UploadInv, UploadsAreClosed, U!UploadsAreClosed, id
<1>10. QED
  BY <1>6, <1>7, <1>8, <1>9 DEF UploadInv

LEMMA AbortKeepsUpload ==
  ASSUME UploadInv, U!Abort(Call)
  PROVE  UploadInv'
<1> DEFINE id == uid[Call]
<1>1. /\ upc[Call] = "abort" /\ U!GoOn(Call, "failed")
      /\ \/ opened' = [opened EXCEPT ![id] = None] /\ UNCHANGED lost
         \/ opened[id] # None /\ lost' = TRUE /\ UNCHANGED opened
      /\ UNCHANGED <<key, uid, parts, store>>
  BY DEF U!Abort
<1>2. upc' \in [{Call} -> UploadPCs] /\ upc'[Call] = "failed"
  BY <1>1, GoesOn DEF UploadInv, UploadPCs
<1>3. id \in DOMAIN opened /\ opened \in Seq(Entries \cup {None})
  BY <1>1 DEF UploadInv, UploadTyped, Busy
<1> HIDE DEF id
<1>4. /\ opened' \in Seq(Entries \cup {None}) /\ DOMAIN opened' = DOMAIN opened
      /\ opened'[id] = None \/ lost'
      /\ \A i \in DOMAIN opened : i # id => opened'[i] = opened[i]
  BY <1>1, <1>3
<1>5. UploadTyped'
  BY <1>1, <1>2, <1>4 DEF UploadInv, UploadTyped, UploadPCs, Busy
<1>6. PartsInOrder' /\ StoredWhole'
  BY <1>1, <1>2 DEF UploadInv, PartsInOrder, StoredWhole, U!Whole
<1>7. UploadsAreClosed'
  BY <1>1, <1>4 DEF UploadInv, UploadsAreClosed, U!UploadsAreClosed, id
<1>8. QED
  BY <1>5, <1>6, <1>7 DEF UploadInv

\* A step of an upload: what is whole stays whole, and the call ends well only
\* when its object is.
LEMMA StepKeepsUpload ==
  ASSUME UploadInv, U!Step(Call)
  PROVE  UploadInv' /\ UNCHANGED key /\ upc'[Call] # "idle"
         /\ \A k \in Keys : store[k] = U!Whole(k) => store'[k] = U!Whole(k)
<1>1. UploadInv'
  <2>1. CASE U!CompleteAgain(Call)
    BY <2>1, ErrorsLead, MoveKeepsUpload DEF U!CompleteAgain, UploadInv
  <2>2. ASSUME NEW error \in {"transient", "denied"}, U!Refused(Call, error) PROVE UploadInv'
    BY <2>2, ErrorsLead, MoveKeepsUpload DEF U!Refused, UploadInv
  <2>3. QED
    BY <2>1, <2>2, PutKeepsUpload, CreateKeepsUpload, PartKeepsUpload, CompleteKeepsUpload,
       AbortKeepsUpload DEF U!Step
<1>2. UNCHANGED key
  BY DEF U!Step, U!PutDone, U!CreateDone, U!PartDone, U!CompleteDone, U!CompleteAgain, U!Abort, U!Refused
<1>3. upc'[Call] # "idle"
  <2>1. upc[Call] \in U!Requests
    BY DEF U!Step, U!PutDone, U!CreateDone, U!PartDone, U!CompleteDone, U!CompleteAgain, U!Abort, U!Refused
  <2>2. ASSUME NEW error, U!Erred(Call, error) PROVE upc'[Call] # "idle"
    BY <2>1, <2>2, ErrorsLead DEF UploadInv
  <2>3. ASSUME NEW request \in {"ok", "failed", "part", "complete"}, U!GoOn(Call, request)
        PROVE  upc'[Call] # "idle"
    BY <2>3, GoesOn DEF UploadInv, UploadPCs
  <2>4. QED
    BY <2>2, <2>3 DEF U!Step, U!PutDone, U!CreateDone, U!PartDone, U!CompleteDone,
       U!CompleteAgain, U!Abort, U!Refused
<1>4. ASSUME NEW k \in Keys, store[k] = U!Whole(k) PROVE store'[k] = U!Whole(k)
  <2>1. CASE U!CompleteDone(Call) /\ k = key[Call]
    <3>1. store'[k] = [i \in DOMAIN parts[Call] |-> opened[uid[Call]].chunks[parts[Call][i]]]
      BY <2>1 DEF U!CompleteDone, UploadInv, UploadTyped
    <3>2. DOMAIN parts[Call] = 1 .. Size[k]
      BY <2>1, OpenedIsSequence DEF UploadInv, PartsInOrder, U!CompleteDone
    <3>3. \A i \in DOMAIN parts[Call] : opened[uid[Call]].chunks[parts[Call][i]] = i
      BY <2>1 DEF UploadInv, PartsInOrder, U!CompleteDone
    <3>4. QED
      BY <3>1, <3>2, <3>3 DEF U!Whole
  <2>2. CASE U!CompleteDone(Call) /\ k # key[Call]
    BY <1>4, <2>2 DEF U!CompleteDone, UploadInv, UploadTyped
  <2>3. CASE U!PutDone(Call)
    BY <1>4, <2>3 DEF U!PutDone, UploadInv, UploadTyped
  <2>4. CASE UNCHANGED store
    BY <1>4, <2>4
  <2>5. QED
    BY <2>1, <2>2, <2>3, <2>4 DEF U!Step, U!CreateDone, U!PartDone, U!CompleteAgain, U!Abort, U!Refused
<1>5. QED
  BY <1>1, <1>2, <1>3, <1>4

-----------------------------------------------------------------------------
(* The job keeps what it is: its type, the way of its kind, its files.     *)

LEMMA KindFacts ==
  ASSUME kind \in Kinds
  PROVE  /\ kind.form \in {"single", "collection", "batch"}
         /\ kind.platform = "musicdl" => kind.form = "single"
BY DEF Kinds, Runs

LEMMA FirstTrack == 1 \in Tracks /\ NTracks \in Nat
BY NTracksIsPositive DEF Tracks

\* The next track of a collection, or its end.
LEMMA NextTrackTyped ==
  ASSUME JobTyped, NextTrack
  PROVE  /\ track' \in Tracks
         /\ tpc' \in [Tracks -> {"waiting", "running", "stray", "done", "empty", "failed"}]
         /\ \/ track' = track + 1 /\ jpc' = "downloading"
            \/ track' = track /\ jpc' = "failed"
            \/ track' = track /\ jpc' = "completed" /\ refs' # <<>>
BY NTracksIsPositive DEF NextTrack, JobTyped, Tracks

\* Steps of the job before it uploads, and those that end it.
LEMMA EarlyStepTyped ==
  ASSUME JobTyped,
         \/ Resolve \/ ReportRaises \/ Cancel
         \/ \E i \in Tracks : TrackStarts(i) \/ AttemptFails(i) \/ TrackFails(i) \/ StrayEnds(i)
  PROVE  JobTyped'
BY FirstTrack DEF JobTyped, JobPCs, Ended, Fail, Resolve, ReportRaises, Cancel, TrackStarts,
   AttemptFails, TrackFails, StrayEnds

LEMMA TrackDoneTyped ==
  ASSUME JobTyped, NEW i \in Tracks, TrackDone(i)
  PROVE  JobTyped'
<1>1. files' \in Seq(Tracks)
  <2>1. files' = Append(files, i) \/ files' = files
    BY DEF TrackDone
  <2>2. files \in Seq(Tracks)
    BY DEF JobTyped
  <2>3. Append(files, i) \in Seq(Tracks)
    BY <2>2, AppendProperties
  <2>4. QED
    BY <2>1, <2>2, <2>3
<1>2. QED
  BY <1>1 DEF JobTyped, JobPCs, TrackDone

-----------------------------------------------------------------------------
(* Induction, and the recursive functions of the packing.                  *)

\* Induction over the naturals, of a set instead of a predicate: were n missing
\* from T, the members of T below n would be in one-to-one correspondence with
\* their successors, of which there is one less.
LEMMA NaturalsBySteps ==
  ASSUME NEW T, 0 \in T, \A i \in Nat : i \in T => i + 1 \in T
  PROVE  Nat \subseteq T
<1> SUFFICES ASSUME NEW n \in Nat, n \notin T
             PROVE  FALSE
  OBVIOUS
<1> DEFINE S == {i \in 0 .. n : i \in T}
           next == [i \in S |-> i + 1]
<1>1. IsFiniteSet(0 .. n)
  BY FS_Interval
<1>2. IsFiniteSet(S) /\ 0 \in S
  BY <1>1, FS_Subset
<1>3. \A i \in S : i + 1 \in S \ {0}
  BY DEF S
<1>4. next \in Injection(S, S \ {0})
  BY <1>3 DEF Injection, IsInjective
<1>5. IsFiniteSet(S \ {0}) /\ Cardinality(S \ {0}) = Cardinality(S) - 1
  BY <1>2, FS_RemoveElement
<1>6. Cardinality(S) <= Cardinality(S \ {0})
  BY <1>4, <1>5, FS_Injection DEF ExistsInjection
<1>7. Cardinality(S) \in Nat
  BY <1>2, FS_CardinalityType
<1>8. QED
  BY <1>5, <1>6, <1>7

\* The running sums of a part up to its k-th file.
AreSums(f, part, k) ==
  f = [n \in 0 .. k |-> IF n = 0 THEN 0 ELSE f[n - 1] + TrackSize[part[n]]]

\* The recursive definition of Sums defines the running sums.
LEMMA SumsDefined ==
  ASSUME NEW part \in Seq(Tracks)
  PROVE  AreSums(Sums(part), part, Len(part))
<1> DEFINE T == {k \in Nat : \E f : AreSums(f, part, k)}
<1>1. 0 \in T
  <2>1. AreSums([n \in 0 .. 0 |-> 0], part, 0)
    BY DEF AreSums
  <2>2. QED
    BY <2>1
<1>2. ASSUME NEW k \in Nat, k \in T PROVE k + 1 \in T
  <2>1. PICK f : AreSums(f, part, k)
    BY <1>2
  <2> DEFINE g == [n \in 0 .. (k + 1) |-> IF n = k + 1 THEN f[k] + TrackSize[part[k + 1]] ELSE f[n]]
  <2>2. g = [n \in 0 .. (k + 1) |-> IF n = 0 THEN 0 ELSE g[n - 1] + TrackSize[part[n]]]
    BY <2>1 DEF AreSums
  <2>3. AreSums(g, part, k + 1)
    BY <2>2 DEF AreSums
  <2>4. QED
    BY <2>3
<1>3. Nat \subseteq T
  <2> HIDE DEF T
  <2> QED
    BY <1>1, <1>2, NaturalsBySteps
<1>4. Len(part) \in T
  BY <1>3, LenProperties
<1>5. \E f : f = [n \in 0 .. Len(part) |-> IF n = 0 THEN 0 ELSE f[n - 1] + TrackSize[part[n]]]
  BY <1>4 DEF AreSums
<1>6. QED
  BY <1>5 DEF AreSums, Sums

\* A longer part has the same sums as far as it is the same.
LEMMA SumsOfPrefix ==
  ASSUME NEW part \in Seq(Tracks), NEW i \in Tracks
  PROVE  /\ SumOf(part) \in Nat
         /\ SumOf(Append(part, i)) = SumOf(part) + TrackSize[i]
<1> DEFINE longer == Append(part, i)
           f == Sums(part)
           g == Sums(longer)
           l == Len(part)
           T == {n \in Nat : n <= l => f[n] \in Nat /\ g[n] = f[n]}
<1>1. /\ longer \in Seq(Tracks) /\ Len(longer) = l + 1 /\ l \in Nat /\ longer[l + 1] = i
      /\ \A n \in 1 .. l : longer[n] = part[n] /\ part[n] \in Tracks
  OBVIOUS
<1>2. AreSums(f, part, l) /\ AreSums(g, longer, l + 1)
  BY <1>1, SumsDefined
<1> HIDE DEF f, g, longer, l
<1>3. 0 \in T
  BY <1>1, <1>2 DEF AreSums
<1>4. ASSUME NEW n \in Nat, n \in T PROVE n + 1 \in T
  <2> SUFFICES ASSUME n + 1 <= l PROVE f[n + 1] \in Nat /\ g[n + 1] = f[n + 1]
    OBVIOUS
  <2>1. f[n] \in Nat /\ g[n] = f[n] /\ n + 1 \in 1 .. l
    BY <1>1, <1>4
  <2>2. f[n + 1] = f[n] + TrackSize[part[n + 1]] /\ g[n + 1] = g[n] + TrackSize[longer[n + 1]]
    <3>1. n + 1 \in 0 .. l /\ n + 1 \in 0 .. (l + 1) /\ n + 1 # 0 /\ (n + 1) - 1 = n
      BY <1>1, <2>1
    <3>2. QED
      BY <1>2, <3>1 DEF AreSums
  <2>3. QED
    BY <1>1, <2>1, <2>2, SizesOfTracks
<1>5. Nat \subseteq T
  <2> HIDE DEF T
  <2> QED
    BY <1>3, <1>4, NaturalsBySteps
<1>6. f[l] \in Nat /\ g[l] = f[l]
  BY <1>1, <1>5
<1>7. g[l + 1] = g[l] + TrackSize[longer[l + 1]]
  BY <1>1, <1>2 DEF AreSums
<1>8. QED
  BY <1>1, <1>6, <1>7 DEF SumOf, f, g, l, longer

ArePackings(f, fs, k) ==
  f = [n \in 0 .. k |-> IF n = 0 THEN <<>> ELSE Packed(f[n - 1], fs[n])]

\* The recursive definition of Packings defines the parts after each file.
LEMMA PackingsDefined ==
  ASSUME NEW fs \in Seq(Tracks)
  PROVE  ArePackings(Packings(fs), fs, Len(fs))
<1> DEFINE T == {k \in Nat : \E f : ArePackings(f, fs, k)}
<1>1. 0 \in T
  <2>1. ArePackings([n \in 0 .. 0 |-> <<>>], fs, 0)
    BY DEF ArePackings
  <2>2. QED
    BY <2>1
<1>2. ASSUME NEW k \in Nat, k \in T PROVE k + 1 \in T
  <2>1. PICK f : ArePackings(f, fs, k)
    BY <1>2
  <2> DEFINE g == [n \in 0 .. (k + 1) |-> IF n = k + 1 THEN Packed(f[k], fs[k + 1]) ELSE f[n]]
  <2>2. g = [n \in 0 .. (k + 1) |-> IF n = 0 THEN <<>> ELSE Packed(g[n - 1], fs[n])]
    BY <2>1 DEF ArePackings
  <2>3. ArePackings(g, fs, k + 1)
    BY <2>2 DEF ArePackings
  <2>4. QED
    BY <2>3
<1>3. Nat \subseteq T
  <2> HIDE DEF T
  <2> QED
    BY <1>1, <1>2, NaturalsBySteps
<1>4. Len(fs) \in T
  BY <1>3, LenProperties
<1>5. \E f : f = [n \in 0 .. Len(fs) |-> IF n = 0 THEN <<>> ELSE Packed(f[n - 1], fs[n])]
  BY <1>4 DEF ArePackings
<1>6. QED
  BY <1>5 DEF ArePackings, Packings

-----------------------------------------------------------------------------
(* The parts of an archive.                                                *)

\* The parts ps are the first n files, cut into stretches.
CutUpTo(fs, n, ps) ==
  \E cut \in [0 .. Len(ps) -> 0 .. n] :
    /\ cut[0] = 0 /\ cut[Len(ps)] = n
    /\ \A p \in 1 .. Len(ps) :
         cut[p - 1] < cut[p] /\ ps[p] = SubSeq(fs, cut[p - 1] + 1, cut[p])

WithinLimit(part) == SumOf(part) <= SplitSize \/ SumOf(Front(part)) = 0

WellPacked(fs, n, ps) ==
  /\ ps \in Seq(Seq(Tracks))
  /\ Len(ps) <= n
  /\ n > 0 => Len(ps) > 0
  /\ CutUpTo(fs, n, ps)
  /\ \A p \in 1 .. Len(ps) : WithinLimit(ps[p])

LEMMA FrontOfAppend ==
  ASSUME NEW S, NEW s \in Seq(S), NEW x \in S
  PROVE  Front(Append(s, x)) = s
BY DEF Front

LEMMA FrontProperties ==
  ASSUME NEW S, NEW s \in Seq(S), Len(s) > 0
  PROVE  /\ Front(s) \in Seq(S) /\ Len(Front(s)) = Len(s) - 1
         /\ \A p \in 1 .. (Len(s) - 1) : Front(s)[p] = s[p]
<1> DEFINE n == Len(s) - 1
<1>1. n \in Nat /\ \A p \in 1 .. n : s[p] \in S
  BY LenProperties, ElementOfSeq
<1> HIDE DEF n
<1>2. /\ SubSeq(s, 1, n) \in Seq(S)
      /\ Len(SubSeq(s, 1, n)) = IF 1 <= n THEN n - 1 + 1 ELSE 0
      /\ \A p \in 1 .. (n - 1 + 1) : SubSeq(s, 1, n)[p] = s[1 + p - 1]
  BY <1>1, SubSeqProperties
<1>3. Front(s) = SubSeq(s, 1, n)
  BY DEF Front, n
<1>4. Len(Front(s)) = n
  BY <1>1, <1>2, <1>3
<1>5. \A p \in 1 .. n : p \in 1 .. (n - 1 + 1) /\ 1 + p - 1 = p
  BY <1>1
<1>6. \A p \in 1 .. n : Front(s)[p] = s[p]
  BY <1>2, <1>3, <1>5
<1>7. QED
  BY <1>2, <1>3, <1>4, <1>6 DEF n

LEMMA SumOfNothing == SumOf(<<>>) = 0
<1>1. <<>> \in Seq(Tracks) /\ Len(<<>>) = 0
  BY EmptySeq
<1>2. AreSums(Sums(<<>>), <<>>, 0)
  BY <1>1, SumsDefined
<1>3. QED
  BY <1>1, <1>2 DEF AreSums, SumOf

\* A file gets a part of its own.
LEMMA NewPartIsWellPacked ==
  ASSUME NEW fs \in Seq(Tracks), NEW n \in Nat, n < Len(fs), NEW ps, WellPacked(fs, n, ps)
  PROVE  WellPacked(fs, n + 1, Append(ps, <<fs[n + 1]>>))
<1> DEFINE i == fs[n + 1]
           l == Len(ps)
           qs == Append(ps, <<i>>)
<1>1. i \in Tracks /\ n + 1 \in 1 .. Len(fs) /\ Len(fs) \in Nat
  OBVIOUS
<1>2. ps \in Seq(Seq(Tracks)) /\ l \in Nat /\ <<i>> \in Seq(Tracks) /\ <<i>> = Append(<<>>, i)
      /\ <<>> \in Seq(Tracks)
  BY <1>1 DEF WellPacked
<1> HIDE DEF i
<1>3. /\ qs \in Seq(Seq(Tracks)) /\ Len(qs) = l + 1 /\ qs[l + 1] = <<i>>
      /\ \A p \in 1 .. l : qs[p] = ps[p]
  BY <1>2
<1>4. WithinLimit(<<i>>)
  <2>1. Front(Append(<<>>, i)) = <<>>
    BY <1>1, <1>2, FrontOfAppend
  <2>2. SumOf(Front(<<i>>)) = 0
    BY <1>2, <2>1, SumOfNothing
  <2>3. QED
    BY <2>2 DEF WithinLimit
<1>5. CutUpTo(fs, n + 1, qs)
  <2>1. PICK cut \in [0 .. l -> 0 .. n] :
          /\ cut[0] = 0 /\ cut[l] = n
          /\ \A p \in 1 .. l : cut[p - 1] < cut[p] /\ ps[p] = SubSeq(fs, cut[p - 1] + 1, cut[p])
    BY DEF WellPacked, CutUpTo
  <2> DEFINE cut2 == [p \in 0 .. (l + 1) |-> IF p = l + 1 THEN n + 1 ELSE cut[p]]
  <2> HIDE DEF qs, l
  <2>2. cut2 \in [0 .. (l + 1) -> 0 .. (n + 1)] /\ cut2[0] = 0 /\ cut2[l + 1] = n + 1
    BY <1>2, <2>1
  <2>3. <<i>> = SubSeq(fs, n + 1, n + 1)
    BY <1>1 DEF i
  <2>4. ASSUME NEW p \in 1 .. (l + 1)
        PROVE  cut2[p - 1] < cut2[p] /\ qs[p] = SubSeq(fs, cut2[p - 1] + 1, cut2[p])
    <3>1. CASE p = l + 1
      <4>1. p - 1 \in 0 .. (l + 1) /\ p - 1 = l /\ l # l + 1
        BY <1>2, <3>1
      <4>2. cut2[p - 1] = n /\ cut2[p] = n + 1
        BY <2>1, <3>1, <4>1
      <4> HIDE DEF cut2
      <4>3. qs[p] = SubSeq(fs, cut2[p - 1] + 1, cut2[p])
        BY <1>3, <2>3, <3>1, <4>2
      <4>4. QED
        BY <4>2, <4>3
    <3>2. CASE p # l + 1
      <4>1. p \in 1 .. l /\ p - 1 \in 0 .. (l + 1) /\ p - 1 # l + 1
        BY <1>2, <3>2
      <4>2. cut2[p - 1] = cut[p - 1] /\ cut2[p] = cut[p]
        BY <3>2, <4>1
      <4>3. QED
        BY <1>3, <2>1, <4>1, <4>2
    <3>3. QED
      BY <3>1, <3>2
  <2> HIDE DEF cut2
  <2>5. QED
    BY <1>3, <2>2, <2>4 DEF CutUpTo
<1> HIDE DEF qs
<1>6. \A p \in 1 .. Len(qs) : WithinLimit(qs[p])
  <2>1. \A p \in 1 .. l : WithinLimit(ps[p])
    BY DEF WellPacked
  <2> HIDE DEF l
  <2>2. ASSUME NEW p \in 1 .. Len(qs) PROVE WithinLimit(qs[p])
    <3>1. CASE p = l + 1
      <4>1. qs[p] = <<i>>
        BY <1>3, <3>1
      <4>2. QED
        BY <1>4, <4>1
    <3>2. CASE p # l + 1
      <4>1. p \in 1 .. l
        BY <1>2, <1>3, <3>2
      <4>2. qs[p] = ps[p] /\ WithinLimit(ps[p])
        BY <1>3, <2>1, <4>1
      <4>3. QED
        BY <4>2
    <3>3. QED
      BY <3>1, <3>2
  <2>3. QED
    BY <2>2
<1>7. QED
  <2>1. Len(qs) <= n + 1 /\ Len(qs) > 0
    BY <1>2, <1>3 DEF WellPacked
  <2>2. WellPacked(fs, n + 1, qs)
    BY <1>3, <1>5, <1>6, <2>1 DEF WellPacked
  <2>3. QED
    BY <2>2 DEF qs, i

\* A file joins the last part, which stays within the limit or had no content.
LEMMA LongerPartIsWellPacked ==
  ASSUME NEW fs \in Seq(Tracks), NEW n \in Nat, n < Len(fs), NEW ps, WellPacked(fs, n, ps),
         Len(ps) > 0,
         ~ (SumOf(Last(ps)) > 0 /\ SumOf(Last(ps)) + TrackSize[fs[n + 1]] > SplitSize)
  PROVE  WellPacked(fs, n + 1, Append(Front(ps), Append(Last(ps), fs[n + 1])))
<1> DEFINE i == fs[n + 1]
           l == Len(ps)
           part == ps[l]
           longer == Append(part, i)
           qs == Append(Front(ps), longer)
<1>1. i \in Tracks /\ n + 1 \in 1 .. Len(fs) /\ Len(fs) \in Nat
  OBVIOUS
<1>2. ps \in Seq(Seq(Tracks)) /\ l \in Nat \ {0} /\ part \in Seq(Tracks)
  BY DEF WellPacked
<1> HIDE DEF i
<1>3. longer \in Seq(Tracks) /\ Front(longer) = part
  BY <1>1, <1>2, FrontOfAppend
<1> HIDE DEF longer
<1>4. /\ Front(ps) \in Seq(Seq(Tracks)) /\ Len(Front(ps)) = l - 1
      /\ \A p \in 1 .. (l - 1) : Front(ps)[p] = ps[p]
  BY <1>2, FrontProperties
<1>5. /\ qs \in Seq(Seq(Tracks)) /\ Len(qs) = l /\ qs[l] = longer
      /\ \A p \in 1 .. (l - 1) : qs[p] = ps[p]
  <2>1. /\ qs \in Seq(Seq(Tracks)) /\ Len(qs) = (l - 1) + 1 /\ qs[(l - 1) + 1] = longer
        /\ \A p \in 1 .. (l - 1) : qs[p] = Front(ps)[p]
    BY <1>3, <1>4, AppendProperties
  <2>2. (l - 1) + 1 = l
    BY <1>2
  <2>3. QED
    BY <1>4, <2>1, <2>2
<1>6. WithinLimit(longer)
  <2>1. SumOf(part) \in Nat /\ SumOf(longer) = SumOf(part) + TrackSize[i]
    BY <1>1, <1>2, SumsOfPrefix DEF longer
  <2>2. SumOf(part) = 0 \/ SumOf(longer) <= SplitSize
    BY <1>1, <2>1, SizesOfTracks DEF Last, i
  <2>3. QED
    BY <1>3, <2>2 DEF WithinLimit
<1>7. CutUpTo(fs, n + 1, qs)
  <2>1. PICK cut \in [0 .. l -> 0 .. n] :
          /\ cut[0] = 0 /\ cut[l] = n
          /\ \A p \in 1 .. l : cut[p - 1] < cut[p] /\ ps[p] = SubSeq(fs, cut[p - 1] + 1, cut[p])
    BY DEF WellPacked, CutUpTo
  <2> DEFINE cut2 == [p \in 0 .. l |-> IF p = l THEN n + 1 ELSE cut[p]]
  <2> HIDE DEF qs, part, l
  <2>2. cut2 \in [0 .. l -> 0 .. (n + 1)] /\ cut2[0] = 0 /\ cut2[l] = n + 1
    <3>1. \A p \in 0 .. l : (IF p = l THEN n + 1 ELSE cut[p]) \in 0 .. (n + 1)
      BY <2>1
    <3>2. 0 \in 0 .. l /\ l \in 0 .. l /\ 0 # l
      BY <1>2
    <3>3. QED
      BY <2>1, <3>1, <3>2
  <2>3. l \in 1 .. l /\ l - 1 \in 0 .. l /\ l - 1 # l
    BY <1>2
  <2> DEFINE m == cut[l - 1]
  <2>4. m \in 0 .. n /\ m < n /\ part = SubSeq(fs, m + 1, n)
    BY <2>1, <2>3 DEF part
  <2> HIDE DEF m
  <2>5. longer = SubSeq(fs, m + 1, n + 1)
    BY <1>1, <2>4 DEF longer, i
  <2>6. ASSUME NEW p \in 1 .. l
        PROVE  cut2[p - 1] < cut2[p] /\ qs[p] = SubSeq(fs, cut2[p - 1] + 1, cut2[p])
    <3>1. CASE p = l
      <4>1. cut2[p - 1] = m /\ cut2[p] = n + 1
        BY <2>3, <3>1 DEF m
      <4> HIDE DEF cut2
      <4>2. qs[p] = longer
        BY <1>5, <3>1
      <4>3. QED
        BY <2>4, <2>5, <4>1, <4>2
    <3>2. CASE p # l
      <4>1. p \in 1 .. (l - 1) /\ p \in 0 .. l /\ p - 1 \in 0 .. l /\ p - 1 # l
        BY <1>2, <3>2
      <4>2. cut2[p - 1] = cut[p - 1] /\ cut2[p] = cut[p]
        BY <3>2, <4>1
      <4> HIDE DEF cut2
      <4>3. QED
        BY <1>5, <2>1, <4>1, <4>2
    <3>3. QED
      BY <3>1, <3>2
  <2> HIDE DEF cut2
  <2>7. QED
    BY <1>5, <2>2, <2>6 DEF CutUpTo
<1> HIDE DEF qs, part, l
<1>8. ASSUME NEW p \in 1 .. Len(qs) PROVE WithinLimit(qs[p])
  <2>1. CASE p = l
    <3>1. qs[p] = longer
      BY <1>5, <2>1
    <3>2. QED
      BY <1>6, <3>1
  <2>2. CASE p # l
    <3>1. p \in 1 .. (l - 1) /\ p \in 1 .. Len(ps)
      BY <1>2, <1>5, <2>2 DEF l
    <3>2. qs[p] = ps[p] /\ WithinLimit(ps[p])
      BY <1>5, <3>1 DEF WellPacked
    <3>3. QED
      BY <3>2
  <2>3. QED
    BY <2>1, <2>2
<1>9. WellPacked(fs, n + 1, qs)
  <2>1. Len(qs) <= n + 1 /\ Len(qs) > 0
    BY <1>2, <1>5 DEF WellPacked, l
  <2>2. QED
    BY <1>5, <1>7, <1>8, <2>1 DEF WellPacked
<1>10. QED
  BY <1>9 DEF qs, part, l, longer, i, Last

\* The parts of an archive are the files in order, cut into stretches that
\* keep to the limit.
LEMMA SplitIsWellPacked ==
  ASSUME NEW fs \in Seq(Tracks)
  PROVE  WellPacked(fs, Len(fs), SplitFiles(fs))
<1> DEFINE f == Packings(fs)
           l == Len(fs)
           T == {n \in Nat : n <= l => WellPacked(fs, n, f[n])}
<1>1. ArePackings(f, fs, l) /\ l \in Nat
  BY PackingsDefined
<1> HIDE DEF f, l
<1>2. 0 \in T
  <2>1. f[0] = <<>>
    BY <1>1 DEF ArePackings
  <2>2. <<>> \in Seq(Seq(Tracks)) /\ Len(<<>>) = 0
    BY EmptySeq
  <2>3. CutUpTo(fs, 0, <<>>)
    <3> DEFINE cut == [p \in 0 .. 0 |-> 0]
    <3>1. cut \in [0 .. 0 -> 0 .. 0] /\ cut[0] = 0
      OBVIOUS
    <3> HIDE DEF cut
    <3>2. \A p \in 1 .. 0 : FALSE
      OBVIOUS
    <3>3. CutUpTo(fs, 0, <<>>) <=>
            \E c \in [0 .. 0 -> 0 .. 0] :
              /\ c[0] = 0 /\ c[0] = 0
              /\ \A p \in 1 .. 0 : c[p - 1] < c[p] /\ <<>>[p] = SubSeq(fs, c[p - 1] + 1, c[p])
      BY <2>2, Zenon DEF CutUpTo
    <3>4. QED
      BY <3>1, <3>2, <3>3
  <2>4. WellPacked(fs, 0, <<>>)
    BY <2>2, <2>3 DEF WellPacked
  <2>5. QED
    BY <2>1, <2>4
<1>3. ASSUME NEW n \in Nat, n \in T PROVE n + 1 \in T
  <2> SUFFICES ASSUME n + 1 <= l PROVE WellPacked(fs, n + 1, f[n + 1])
    OBVIOUS
  <2>1. n < l /\ WellPacked(fs, n, f[n])
    BY <1>1, <1>3
  <2>2. n + 1 \in 0 .. l /\ n + 1 # 0 /\ (n + 1) - 1 = n
    BY <1>1, <2>1
  <2>3. f[n + 1] = Packed(f[n], fs[n + 1])
    BY <1>1, <2>2 DEF ArePackings
  <2> DEFINE ps == f[n]
             i == fs[n + 1]
  <2>4. ps \in Seq(Seq(Tracks)) /\ Len(ps) \in Nat
    BY <2>1 DEF WellPacked
  <2>5. CASE ps = <<>>
    <3>1. Packed(ps, i) = Append(<<>>, <<i>>)
      BY <2>5 DEF Packed
    <3>2. QED
      BY <2>1, <2>3, <2>5, <3>1, NewPartIsWellPacked DEF l
  <2>6. CASE ps # <<>> /\ SumOf(Last(ps)) > 0 /\ SumOf(Last(ps)) + TrackSize[i] > SplitSize
    <3>1. Packed(ps, i) = Append(ps, <<i>>)
      BY <2>6 DEF Packed
    <3>2. QED
      BY <2>1, <2>3, <3>1, NewPartIsWellPacked DEF l
  <2>7. CASE ps # <<>> /\ ~ (SumOf(Last(ps)) > 0 /\ SumOf(Last(ps)) + TrackSize[i] > SplitSize)
    <3>1. Packed(ps, i) = Append(Front(ps), Append(Last(ps), i))
      BY <2>7 DEF Packed
    <3>2. Len(ps) > 0
      BY <2>4, <2>7, EmptySeq
    <3>3. QED
      BY <2>1, <2>3, <2>7, <3>1, <3>2, LongerPartIsWellPacked DEF l
  <2>8. QED
    BY <2>5, <2>6, <2>7
<1>4. Nat \subseteq T
  <2> HIDE DEF T
  <2> QED
    BY <1>2, <1>3, NaturalsBySteps
<1>5. WellPacked(fs, l, f[l])
  BY <1>1, <1>4
<1>6. QED
  BY <1>5 DEF SplitFiles, f, l

-----------------------------------------------------------------------------
(* Steps of the job.                                                       *)

\* The names given so far stay good while the job stays where it is, starts,
\* turns to the upload or gives up.
LEMMA NamesKept ==
  ASSUME DeliveryInv, UNCHANGED <<kind, track, refs, upload>>,
         \/ jpc' \in {"failed", "cancelled"}
         \/ jpc' = jpc
         \/ jpc = "ready" /\ jpc' \in {"gathering", "downloading"}
         \/ jpc \in {"gathering", "downloading"} /\ jpc' = "uploading"
  PROVE  NamesOfObjects'
<1>1. UNCHANGED <<upc, key, store>> /\ NextKey' = NextKey
  BY DEF upload, NextKey
<1>2. NamesOfObjects
  BY DEF DeliveryInv
<1>3. CASE jpc' \in {"failed", "cancelled"}
  BY <1>1, <1>2, <1>3 DEF NamesOfObjects, Ended, U!Whole
<1>4. CASE jpc' = jpc
  BY <1>1, <1>2, <1>4 DEF NamesOfObjects, U!Whole
<1>5. CASE jpc = "ready" /\ jpc' \in {"gathering", "downloading"}
  BY <1>1, <1>2, <1>5 DEF NamesOfObjects, Ended, U!Whole
<1>6. CASE jpc \in {"gathering", "downloading"} /\ jpc' = "uploading"
  BY <1>1, <1>2, <1>6 DEF NamesOfObjects, Ended, U!Whole
<1>7. QED
  BY <1>3, <1>4, <1>5, <1>6

\* Steps that finish no track and upload nothing.
LEMMA QuietKeepsDelivery ==
  ASSUME DeliveryInv, JobTyped', UNCHANGED <<kind, track, files, archive, refs, upload>>,
         kind.form = "batch" => \A i \in Tracks : tpc'[i] = "done" <=> tpc[i] = "done",
         \/ jpc' \in {"failed", "cancelled"}
         \/ jpc' = jpc /\ (kind.form = "single" /\ jpc = "downloading" => tpc'[1] = "running")
         \/ jpc = "ready" /\ jpc' = "gathering" /\ kind.form = "batch"
         \/ jpc = "ready" /\ jpc' = "downloading" /\ kind.form # "batch" /\ tpc'[1] = "running"
  PROVE  DeliveryInv'
<1>1. NamesOfObjects'
  BY NamesKept
<1>2. WaysOfKinds'
  BY DEF DeliveryInv, WaysOfKinds
<1>3. FilesOfBatch'
  BY DEF DeliveryInv, FilesOfBatch, IsInjective
<1>4. PartsLeft' /\ Delivered'
  BY DEF DeliveryInv, PartsLeft, Delivered
<1>5. QED
  BY <1>1, <1>2, <1>3, <1>4 DEF DeliveryInv

LEMMA EarlyStepKeepsDelivery ==
  ASSUME DeliveryInv,
         \/ Resolve \/ ReportRaises \/ Cancel
         \/ \E i \in Tracks : TrackStarts(i) \/ AttemptFails(i) \/ TrackFails(i) \/ StrayEnds(i)
  PROVE  DeliveryInv'
<1>1. JobTyped'
  BY EarlyStepTyped DEF DeliveryInv
<1>2. UNCHANGED <<kind, track, files, archive, refs, upload>>
  BY DEF Resolve, ReportRaises, Cancel, TrackStarts, AttemptFails, TrackFails, StrayEnds
<1>3. tpc \in [Tracks -> {"waiting", "running", "stray", "done", "empty", "failed"}] /\ 1 \in Tracks
  BY FirstTrack DEF DeliveryInv, JobTyped
<1>5. CASE Resolve
  BY <1>1, <1>2, <1>3, <1>5, QuietKeepsDelivery DEF Resolve, Fail
<1>6. CASE ReportRaises
  BY <1>1, <1>2, <1>6, QuietKeepsDelivery DEF ReportRaises, Fail
<1>7. CASE Cancel
  <2>1. \A i \in Tracks : tpc'[i] = "done" <=> tpc[i] = "done"
    BY <1>7 DEF Cancel
  <2>2. QED
    BY <1>1, <1>2, <1>7, <2>1, QuietKeepsDelivery DEF Cancel
<1>8. ASSUME NEW i \in Tracks, TrackStarts(i) \/ AttemptFails(i) PROVE DeliveryInv'
  <2>1. \A j \in Tracks : tpc'[j] = "done" <=> tpc[j] = "done"
    BY <1>3, <1>8 DEF TrackStarts, AttemptFails
  <2>2. jpc' = jpc /\ (jpc = "downloading" => tpc' = tpc)
    BY <1>8 DEF TrackStarts, AttemptFails
  <2>3. QED
    BY <1>1, <1>2, <2>1, <2>2, QuietKeepsDelivery DEF DeliveryInv, WaysOfKinds
<1>9. ASSUME NEW i \in Tracks, TrackFails(i) PROVE DeliveryInv'
  <2>1. \A j \in Tracks : tpc'[j] = "done" <=> tpc[j] = "done"
    BY <1>3, <1>9 DEF TrackFails
  <2>2. jpc' = "failed" \/ (jpc' = jpc /\ kind.form # "single")
    BY <1>9 DEF TrackFails, Fail
  <2>3. QED
    BY <1>1, <1>2, <2>1, <2>2, QuietKeepsDelivery
<1>10. ASSUME NEW i \in Tracks, StrayEnds(i) PROVE DeliveryInv'
  <2>1. \A j \in Tracks : tpc'[j] = "done" <=> tpc[j] = "done"
    BY <1>3, <1>10 DEF StrayEnds
  <2>2. jpc' = jpc /\ (kind.form = "single" /\ jpc = "downloading" => tpc'[1] = "running")
    BY <1>3, <1>10 DEF StrayEnds, DeliveryInv, WaysOfKinds
  <2>3. QED
    BY <1>1, <1>2, <2>1, <2>2, QuietKeepsDelivery
<1>11. QED
  BY <1>5, <1>6, <1>7, <1>8, <1>9, <1>10

\* A track of a batch is done when its file is there, and only then.
LEMMA TrackDoneKeepsDelivery ==
  ASSUME DeliveryInv, NEW i \in Tracks, TrackDone(i)
  PROVE  DeliveryInv'
<1>1. JobTyped'
  BY TrackDoneTyped DEF DeliveryInv
<1>2. /\ UNCHANGED <<kind, track, archive, refs, upload>>
      /\ jpc \in {"gathering", "downloading"} /\ tpc[i] = "running"
      /\ jpc' = IF kind.form = "batch" THEN jpc ELSE "uploading"
  BY DEF TrackDone
<1>3. NamesOfObjects'
  BY <1>2, NamesKept
<1>4. WaysOfKinds'
  BY <1>2 DEF DeliveryInv, WaysOfKinds
<1>5. FilesOfBatch'
  <2> SUFFICES ASSUME kind.form = "batch"
               PROVE  /\ IsInjective(files')
                      /\ \A k \in Tracks : tpc'[k] = "done" <=> \E n \in DOMAIN files' : files'[n] = k
    BY <1>2 DEF FilesOfBatch
  <2>1. /\ IsInjective(files) /\ files \in Seq(Tracks)
        /\ \A k \in Tracks : tpc[k] = "done" <=> \E n \in DOMAIN files : files[n] = k
        /\ tpc \in [Tracks -> {"waiting", "running", "stray", "done", "empty", "failed"}]
    BY DEF DeliveryInv, FilesOfBatch, JobTyped
  <2>2. CASE tpc' = [tpc EXCEPT ![i] = "empty"] /\ UNCHANGED files
    BY <1>2, <2>1, <2>2
  <2>3. CASE tpc' = [tpc EXCEPT ![i] = "done"] /\ files' = Append(files, i)
    <3>1. /\ Len(files) \in Nat /\ DOMAIN files = 1 .. Len(files)
          /\ DOMAIN files' = 1 .. (Len(files) + 1)
          /\ \A n \in 1 .. Len(files) : files'[n] = files[n]
          /\ files'[Len(files) + 1] = i
      BY <2>1, <2>3
    <3>2. \A n \in DOMAIN files : files[n] # i
      BY <1>2, <2>1
    <3>3. IsInjective(files')
      BY <2>1, <3>1, <3>2 DEF IsInjective
    <3>4. ASSUME NEW k \in Tracks
          PROVE  tpc'[k] = "done" <=> \E n \in DOMAIN files' : files'[n] = k
      <4>1. CASE k = i
        <5>1. Len(files) + 1 \in DOMAIN files' /\ tpc'[k] = "done"
          BY <2>1, <2>3, <3>1, <4>1
        <5>2. QED
          BY <3>1, <4>1, <5>1
      <4>2. CASE k # i
        <5>1. tpc'[k] = tpc[k]
          BY <2>1, <2>3, <4>2
        <5>2. (\E n \in DOMAIN files' : files'[n] = k) <=> \E n \in DOMAIN files : files[n] = k
          BY <3>1, <4>2
        <5>3. QED
          BY <2>1, <5>1, <5>2
      <4>3. QED
        BY <4>1, <4>2
    <3>5. QED
      BY <3>3, <3>4
  <2>4. QED
    BY <2>2, <2>3 DEF TrackDone
<1>6. PartsLeft' /\ Delivered'
  BY <1>2 DEF DeliveryInv, PartsLeft, Delivered
<1>7. QED
  BY <1>1, <1>3, <1>4, <1>5, <1>6 DEF DeliveryInv

\* A batch has no more files than tracks.
LEMMA FilesAreTracks ==
  ASSUME files \in Seq(Tracks), IsInjective(files)
  PROVE  Len(files) \in Nat /\ Len(files) <= NTracks
<1>1. Len(files) \in Nat /\ files \in [1 .. Len(files) -> Tracks]
  BY LenProperties
<1>2. files \in Injection(1 .. Len(files), Tracks)
  BY <1>1 DEF Injection
<1>3. IsFiniteSet(Tracks) /\ Cardinality(Tracks) = NTracks
  BY FirstTrack, FS_Interval, NTracksIsPositive DEF Tracks
<1>4. IsFiniteSet(1 .. Len(files)) /\ Cardinality(1 .. Len(files)) = Len(files)
  BY <1>1, FS_Interval
<1>5. Cardinality(1 .. Len(files)) <= Cardinality(Tracks)
  BY <1>2, <1>3, FS_Injection DEF ExistsInjection
<1>6. QED
  BY <1>1, <1>3, <1>4, <1>5

\* What the archive is after it was built.
LEMMA ArchiveIsWellPacked ==
  ASSUME files \in Seq(Tracks), files # <<>>,
         archive' = IF SplitSize > 0 /\ SumOf(files) > SplitSize
                    THEN SplitFiles(files) ELSE <<files>>
  PROVE  /\ archive' \in Seq(Seq(Tracks))
         /\ Len(archive') > 0 /\ Len(archive') <= Len(files)
         /\ CutUpTo(files, Len(files), archive')
         /\ SplitSize > 0 => \A p \in 1 .. Len(archive') : WithinLimit(archive'[p])
<1>1. Len(files) \in Nat /\ Len(files) > 0
  BY LenProperties, EmptySeq
<1>2. CASE SplitSize > 0 /\ SumOf(files) > SplitSize
  BY <1>1, <1>2, SplitIsWellPacked DEF WellPacked
<1>3. CASE ~ (SplitSize > 0 /\ SumOf(files) > SplitSize)
  <2>1. archive' = <<files>> /\ Len(<<files>>) = 1 /\ <<files>>[1] = files /\ <<files>> \in Seq(Seq(Tracks))
    BY <1>3
  <2>2. SumOf(files) \in Nat
    BY SumsOfPrefix, FirstTrack
  <2>3. SplitSize > 0 => WithinLimit(files)
    BY <1>3, <2>2, SizesOfTracks DEF WithinLimit
  <2>4. CutUpTo(files, Len(files), <<files>>)
    <3> DEFINE cut == [p \in 0 .. 1 |-> IF p = 0 THEN 0 ELSE Len(files)]
    <3>1. cut \in [0 .. 1 -> 0 .. Len(files)] /\ cut[0] = 0 /\ cut[1] = Len(files)
      BY <1>1
    <3> HIDE DEF cut
    <3>2. SubSeq(files, 1, Len(files)) = files
      BY <1>1
    <3>3. \A p \in 1 .. 1 : p = 1 /\ p - 1 = 0
      OBVIOUS
    <3>4. \A p \in 1 .. Len(<<files>>) :
            cut[p - 1] < cut[p] /\ <<files>>[p] = SubSeq(files, cut[p - 1] + 1, cut[p])
      BY <1>1, <2>1, <3>1, <3>2, <3>3
    <3>5. QED
      BY <2>1, <3>1, <3>4 DEF CutUpTo
  <2>5. SplitSize > 0 => \A p \in 1 .. Len(<<files>>) : WithinLimit(<<files>>[p])
    <3>1. \A p \in 1 .. Len(<<files>>) : <<files>>[p] = files
      BY <2>1
    <3>2. QED
      BY <2>3, <3>1
  <2> DEFINE one == <<files>>
  <2>6. /\ archive' = one /\ Len(one) = 1 /\ one \in Seq(Seq(Tracks))
        /\ CutUpTo(files, Len(files), one)
        /\ SplitSize > 0 => \A p \in 1 .. Len(one) : WithinLimit(one[p])
    BY <2>1, <2>4, <2>5
  <2> HIDE DEF one
  <2>7. Len(archive') > 0 /\ Len(archive') <= Len(files)
    <3>1. Len(archive') = 1
      BY <2>6
    <3> DEFINE l == Len(files)
    <3>2. l \in Nat /\ l > 0
      BY <1>1
    <3> HIDE DEF l
    <3>3. 1 > 0 /\ 1 <= l
      BY <3>2
    <3>4. QED
      BY <3>1, <3>3, Zenon DEF l
  <2>8. CutUpTo(files, Len(files), archive')
    BY <2>6
  <2>9. SplitSize > 0 => \A p \in 1 .. Len(archive') : WithinLimit(archive'[p])
    BY <2>6
  <2>10. QED
    BY <2>6, <2>7, <2>8, <2>9
<1>4. QED
  BY <1>2, <1>3

LEMMA BuildArchiveKeepsDelivery ==
  ASSUME DeliveryInv, BuildArchive
  PROVE  DeliveryInv'
<1>1. /\ UNCHANGED <<kind, track, tpc, files, refs, upload>> /\ jpc = "gathering"
      /\ kind.form = "batch" /\ refs = <<>> /\ files \in Seq(Tracks) /\ IsInjective(files)
  BY DEF BuildArchive, DeliveryInv, WaysOfKinds, NamesOfObjects, JobTyped, FilesOfBatch
<1>2. CASE files = <<>>
  <2>1. jpc' = "failed" /\ UNCHANGED archive
    BY <1>2 DEF BuildArchive, Fail
  <2>2. JobTyped'
    BY <1>1, <2>1 DEF DeliveryInv, JobTyped, JobPCs, Ended
  <2>3. QED
    BY <1>1, <2>1, <2>2, QuietKeepsDelivery
<1>3. CASE files # <<>>
  <2>1. /\ jpc' = "uploading"
        /\ archive' = IF SplitSize > 0 /\ SumOf(files) > SplitSize THEN SplitFiles(files) ELSE <<files>>
    BY <1>3 DEF BuildArchive
  <2>2. archive' \in Seq(Seq(Tracks)) /\ Len(archive') > 0 /\ Len(archive') <= Len(files)
    BY <1>1, <1>3, <2>1, ArchiveIsWellPacked
  <2>3. Len(files) \in Nat /\ Len(files) <= NTracks /\ Len(archive') \in Nat
    BY <1>1, <2>2, FilesAreTracks, LenProperties
  <2>4. JobTyped'
    BY <1>1, <2>1, <2>2 DEF DeliveryInv, JobTyped, JobPCs
  <2>5. NamesOfObjects'
    BY <1>1, <2>1, NamesKept
  <2>6. PartsLeft'
    <3>1. archive' # <<>> /\ refs' = <<>> /\ Len(<<>>) = 0
      BY <1>1, <2>2, EmptySeq
    <3>2. Len(refs') + Len(archive') <= NTracks
      BY <2>2, <2>3, <3>1, FirstTrack
    <3>3. QED
      BY <3>1, <3>2 DEF PartsLeft
  <2>7. WaysOfKinds' /\ FilesOfBatch' /\ Delivered'
    BY <1>1, <2>1 DEF DeliveryInv, WaysOfKinds, FilesOfBatch, Delivered, IsInjective
  <2>8. QED
    BY <2>4, <2>5, <2>6, <2>7 DEF DeliveryInv
<1>4. QED
  BY <1>2, <1>3

\* The next object has a key of its own.
LEMMA NextKeyIsKey ==
  ASSUME DeliveryInv, jpc \in {"uploading", "sending"}
  PROVE  NextKey \in Keys
<1>1. CASE kind.form = "batch"
  <2>1. archive # <<>> /\ Len(refs) + Len(archive) <= NTracks
        /\ archive \in Seq(Seq(Tracks)) /\ refs \in Seq(Keys)
    BY <1>1 DEF DeliveryInv, PartsLeft, JobTyped
  <2>2. Len(archive) \in Nat /\ Len(archive) > 0 /\ Len(refs) \in Nat
    BY <2>1, LenProperties, EmptySeq
  <2>3. Len(refs) + 1 \in Tracks
    BY <2>1, <2>2, FirstTrack DEF Tracks
  <2>4. QED
    BY <1>1, <2>3 DEF NextKey, Keys
<1>2. CASE kind.form # "batch"
  BY <1>2 DEF DeliveryInv, JobTyped, NextKey, Keys
<1>3. QED
  BY <1>1, <1>2

\* An upload that starts leaves the stored objects alone.
LEMMA UploadKeepsDelivery ==
  ASSUME UploadInv, DeliveryInv, Upload
  PROVE  DeliveryInv'
<1>1. /\ UNCHANGED <<kind, track, tpc, files, archive, refs>>
      /\ jpc = "uploading" /\ jpc' = "sending" /\ U!Begin(Call, NextKey)
  BY DEF Upload
<1>2. NextKey \in Keys
  BY <1>1, NextKeyIsKey
<1>3. key'[Call] = NextKey /\ upc'[Call] # "idle" /\ UNCHANGED store
  BY <1>1, <1>2, BeginKeepsUpload
<1>4. NextKey' = NextKey
  BY <1>1 DEF NextKey
<1>5. NamesOfObjects'
  BY <1>1, <1>2, <1>3, <1>4 DEF DeliveryInv, NamesOfObjects, Ended, U!Whole
<1>6. JobTyped' /\ WaysOfKinds' /\ FilesOfBatch' /\ PartsLeft' /\ Delivered'
  BY <1>1 DEF DeliveryInv, JobTyped, JobPCs, WaysOfKinds, FilesOfBatch, PartsLeft, Delivered, IsInjective
<1>7. QED
  BY <1>5, <1>6 DEF DeliveryInv

\* While the job does something else, or nothing, its objects stay whole.
LEMMA UploadStepKeepsDelivery ==
  ASSUME UploadInv, DeliveryInv, UploadStep
  PROVE  DeliveryInv'
<1>1. UNCHANGED <<kind, jpc, track, tpc, files, archive, refs>> /\ U!Step(Call)
  BY DEF UploadStep
<1>2. /\ UNCHANGED key /\ upc'[Call] # "idle"
      /\ \A k \in Keys : store[k] = U!Whole(k) => store'[k] = U!Whole(k)
  BY <1>1, StepKeepsUpload
<1>3. NextKey' = NextKey
  BY <1>1 DEF NextKey
<1>4. \A k \in Range(refs) : k \in Keys
  BY DEF DeliveryInv, JobTyped, Range
<1>5. \A k \in Range(refs) : store'[k] = U!Whole(k)
  BY <1>2, <1>4 DEF DeliveryInv, NamesOfObjects
<1>6. NamesOfObjects'
  BY <1>1, <1>2, <1>3, <1>5 DEF DeliveryInv, NamesOfObjects, U!Whole, Range
<1>7. JobTyped' /\ WaysOfKinds' /\ FilesOfBatch' /\ PartsLeft' /\ Delivered'
  BY <1>1 DEF DeliveryInv, JobTyped, JobPCs, WaysOfKinds, FilesOfBatch, PartsLeft, Delivered, IsInjective
<1>8. QED
  BY <1>6, <1>7 DEF DeliveryInv

\* The names stay distinct and whole when a new one of a stored object joins.
LEMMA NewName ==
  ASSUME NEW s \in Seq(Keys), IsInjective(s), \A k \in Range(s) : store[k] = U!Whole(k),
         NEW k \in Keys, \A n \in DOMAIN s : s[n] # k, store[k] = U!Whole(k), UNCHANGED store
  PROVE  /\ Append(s, k) \in Seq(Keys) /\ Len(Append(s, k)) = Len(s) + 1 /\ Len(s) \in Nat
         /\ DOMAIN Append(s, k) = 1 .. (Len(s) + 1)
         /\ \A n \in 1 .. Len(s) : Append(s, k)[n] = s[n]
         /\ Append(s, k)[Len(s) + 1] = k
         /\ IsInjective(Append(s, k))
         /\ \A x \in Range(Append(s, k)) : store'[x] = U!Whole(x)
         /\ Append(s, k) # <<>>
<1> DEFINE t == Append(s, k)
<1>1. /\ t \in Seq(Keys) /\ Len(t) = Len(s) + 1 /\ Len(s) \in Nat
      /\ DOMAIN t = 1 .. (Len(s) + 1) /\ DOMAIN s = 1 .. Len(s)
      /\ \A n \in 1 .. Len(s) : t[n] = s[n]
      /\ t[Len(s) + 1] = k
  OBVIOUS
<1> HIDE DEF t
<1>2. IsInjective(t)
  BY <1>1 DEF IsInjective
<1>3. \A x \in Range(t) : store'[x] = U!Whole(x)
  BY <1>1 DEF Range
<1>4. t # <<>>
  BY <1>1, EmptySeq
<1>5. QED
  BY <1>1, <1>2, <1>3, <1>4 DEF t

\* A collection goes on to its next track, or ends: completed only if it has
\* uploaded something.
LEMMA NextTrackKeepsDelivery ==
  ASSUME DeliveryInv, kind.form = "collection", NextTrack,
         UNCHANGED <<kind, archive, files, upload>>,
         refs' \in Seq(Keys), IsInjective(refs'),
         \A k \in Range(refs') : store'[k] = U!Whole(k),
         \A n \in DOMAIN refs' : refs'[n][1] = "media" /\ refs'[n][2] < track + 1
  PROVE  DeliveryInv'
<1>1. /\ track' \in Tracks
      /\ tpc' \in [Tracks -> {"waiting", "running", "stray", "done", "empty", "failed"}]
      /\ \/ track' = track + 1 /\ jpc' = "downloading"
         \/ track' = track /\ jpc' = "failed"
         \/ track' = track /\ jpc' = "completed" /\ refs' # <<>>
  BY NextTrackTyped DEF DeliveryInv
<1>2. JobTyped'
  BY <1>1 DEF DeliveryInv, JobTyped, JobPCs, Ended
<1>3. WaysOfKinds' /\ FilesOfBatch' /\ PartsLeft'
  BY <1>1 DEF DeliveryInv, WaysOfKinds, FilesOfBatch, PartsLeft
<1>4. NamesOfObjects'
  BY <1>1 DEF NamesOfObjects, Ended, U!Whole
<1>5. Delivered'
  <2>1. refs' # <<>> => 1 \in DOMAIN refs'
    BY EmptySeq, LenProperties
  <2>2. QED
    BY <1>1, <2>1 DEF Delivered
<1>6. QED
  BY <1>2, <1>3, <1>4, <1>5 DEF DeliveryInv

LEMMA SkipTrackKeepsDelivery ==
  ASSUME DeliveryInv, SkipTrack
  PROVE  DeliveryInv'
<1>1. /\ jpc = "downloading" /\ tpc[track] = "failed" /\ NextTrack
      /\ UNCHANGED <<refs, kind, files, archive, upload>>
  BY DEF SkipTrack
<1>2. kind.form = "collection"
  BY <1>1, KindFacts DEF DeliveryInv, JobTyped, WaysOfKinds
<1>3. /\ refs \in Seq(Keys) /\ IsInjective(refs) /\ track \in Tracks
      /\ \A k \in Range(refs) : store[k] = U!Whole(k)
      /\ \A n \in DOMAIN refs : refs[n][1] = "media" /\ refs[n][2] < track
  BY <1>1, <1>2 DEF DeliveryInv, JobTyped, NamesOfObjects, Ended
<1>4. \A n \in DOMAIN refs : refs[n][2] \in Nat
  <2>1. \A n \in DOMAIN refs : refs[n] \in Keys
    BY <1>3
  <2>2. \A k \in Keys : k[2] \in Nat
    BY FirstTrack DEF Keys, Tracks
  <2>3. QED
    BY <2>1, <2>2
<1>5. \A n \in DOMAIN refs' : refs'[n][1] = "media" /\ refs'[n][2] < track + 1
  BY <1>1, <1>3, <1>4 DEF Tracks
<1>6. refs' \in Seq(Keys) /\ IsInjective(refs') /\ \A k \in Range(refs') : store'[k] = U!Whole(k)
  BY <1>1, <1>3 DEF upload, U!Whole
<1>7. QED
  BY <1>1, <1>2, <1>5, <1>6, NextTrackKeepsDelivery

LEMMA KeysAreNumbered == \A k \in Keys : k[2] \in Nat
BY FirstTrack DEF Keys, Tracks

\* A part was uploaded: the next one follows, or the batch is complete.
LEMMA PartSentKeepsDelivery ==
  ASSUME UploadInv, DeliveryInv, Sent, kind.form = "batch"
  PROVE  DeliveryInv'
<1> DEFINE l == Len(refs)
<1>1. /\ UNCHANGED <<kind, track, tpc, files, upload>> /\ jpc = "sending" /\ upc[Call] = "ok"
      /\ refs' = Append(refs, key[Call]) /\ archive' = Tail(archive)
      /\ jpc' = IF Len(archive) > 1 THEN "uploading" ELSE "completed"
  BY DEF Sent
<1>2. /\ key[Call] = <<"part", l + 1>> /\ key[Call] \in Keys /\ store[key[Call]] = U!Whole(key[Call])
      /\ refs \in Seq(Keys) /\ IsInjective(refs) /\ \A k \in Range(refs) : store[k] = U!Whole(k)
      /\ \A n \in DOMAIN refs : refs[n] = <<"part", n>>
  BY <1>1 DEF UploadInv, StoredWhole, DeliveryInv, NamesOfObjects, NextKey, JobTyped
<1>3. \A n \in DOMAIN refs : refs[n] # key[Call]
  <2>1. l \in Nat /\ DOMAIN refs = 1 .. l
    BY <1>2
  <2>2. \A n \in 1 .. l : n # l + 1
    BY <2>1
  <2>3. QED
    BY <1>2, <2>1, <2>2
<1>4. UNCHANGED store
  BY <1>1 DEF upload
<1>5. /\ refs' \in Seq(Keys) /\ l \in Nat /\ Len(refs') = l + 1
      /\ DOMAIN refs' = 1 .. (l + 1) /\ refs' # <<>>
      /\ \A n \in 1 .. l : refs'[n] = refs[n]
      /\ refs'[l + 1] = key[Call]
      /\ IsInjective(refs') /\ \A k \in Range(refs') : store'[k] = U!Whole(k)
  BY <1>1, <1>2, <1>3, <1>4, NewName
<1> HIDE DEF l
<1>6. \A n \in DOMAIN refs' : refs'[n] = <<"part", n>>
  <2>1. \A n \in 1 .. l : n \in DOMAIN refs
    BY DEF l
  <2>2. QED
    BY <1>2, <1>5, <2>1
<1>7. NamesOfObjects'
  BY <1>1, <1>5, <1>6 DEF NamesOfObjects, Ended, U!Whole
<1>8. /\ archive \in Seq(Seq(Tracks)) /\ Len(archive) \in Nat /\ Len(archive) > 0
      /\ l + Len(archive) <= NTracks
  BY <1>1, EmptySeq, LenProperties DEF DeliveryInv, JobTyped, PartsLeft, l
<1>9. archive' \in Seq(Seq(Tracks)) /\ Len(archive') = Len(archive) - 1
  BY <1>1, <1>8, EmptySeq, HeadTailProperties
<1>10. JobTyped'
  BY <1>1, <1>5, <1>9 DEF DeliveryInv, JobTyped, JobPCs, Ended
<1>11. PartsLeft'
  <2>1. Len(archive) > 1 => archive' # <<>>
    BY <1>8, <1>9, EmptySeq
  <2>2. Len(refs') + Len(archive') <= NTracks
    BY <1>5, <1>8, <1>9, FirstTrack
  <2>3. QED
    BY <1>1, <2>1, <2>2 DEF PartsLeft
<1>12. Delivered'
  <2>1. refs'[1] = <<"part", 1>>
    BY <1>5, <1>6
  <2>2. ~ (Len(archive) > 1) => archive' = <<>>
    BY <1>8, <1>9, EmptySeq
  <2>3. QED
    BY <1>1, <1>5, <2>1, <2>2 DEF Delivered
<1>13. WaysOfKinds' /\ FilesOfBatch'
  BY <1>1 DEF DeliveryInv, WaysOfKinds, FilesOfBatch, IsInjective
<1>14. QED
  BY <1>7, <1>10, <1>11, <1>12, <1>13 DEF DeliveryInv

\* A track was uploaded: the next one of the collection, the cover, or the end.
LEMMA TrackSentKeepsDelivery ==
  ASSUME UploadInv, DeliveryInv, Sent, kind.form # "batch"
  PROVE  DeliveryInv'
<1> DEFINE l == Len(refs)
<1>1. /\ UNCHANGED <<kind, files, archive, upload, store>> /\ jpc = "sending" /\ upc[Call] = "ok"
      /\ refs' = Append(refs, key[Call])
  BY DEF Sent, upload
<1>2. /\ key[Call] = <<"media", track>> /\ key[Call] \in Keys /\ store[key[Call]] = U!Whole(key[Call])
      /\ refs \in Seq(Keys) /\ IsInjective(refs) /\ \A k \in Range(refs) : store[k] = U!Whole(k)
      /\ track \in Nat
  BY <1>1 DEF UploadInv, StoredWhole, DeliveryInv, NamesOfObjects, NextKey, JobTyped, Tracks
<1>3. CASE kind.form = "collection"
  <2>1. \A n \in DOMAIN refs : refs[n][1] = "media" /\ refs[n][2] < track /\ refs[n][2] \in Nat
    BY <1>1, <1>2, <1>3, KeysAreNumbered DEF DeliveryInv, NamesOfObjects, Ended
  <2>2. \A n \in DOMAIN refs : refs[n] # key[Call]
    BY <1>2, <2>1
  <2>3. /\ refs' \in Seq(Keys) /\ l \in Nat /\ DOMAIN refs' = 1 .. (l + 1)
        /\ \A n \in 1 .. l : refs'[n] = refs[n]
        /\ refs'[l + 1] = key[Call]
        /\ IsInjective(refs') /\ \A k \in Range(refs') : store'[k] = U!Whole(k)
    BY <1>1, <1>2, <2>2, NewName
  <2>4. \A n \in 1 .. l : n \in DOMAIN refs
    BY <1>2
  <2> HIDE DEF l
  <2>5. \A n \in DOMAIN refs' : refs'[n][1] = "media" /\ refs'[n][2] < track + 1
    BY <1>2, <2>1, <2>3, <2>4
  <2>6. NextTrack
    BY <1>3 DEF Sent
  <2>7. QED
    BY <1>1, <1>3, <2>3, <2>5, <2>6, NextTrackKeepsDelivery
<1>4. CASE kind.form = "single"
  <2>1. refs = <<>> /\ track = 1
    BY <1>1, <1>4 DEF DeliveryInv, NamesOfObjects, WaysOfKinds, Ended
  <2>2. /\ jpc' \in {"completed", "cover"} /\ UNCHANGED <<track, tpc>>
    BY <1>4 DEF Sent
  <2>3. refs' = <<<<"media", 1>>>> /\ refs' \in Seq(Keys)
    BY <1>1, <1>2, <2>1
  <2>4. IsInjective(refs') /\ \A k \in Range(refs') : store'[k] = U!Whole(k)
    <3>1. \A n \in DOMAIN refs : refs[n] # key[Call]
      BY <2>1
    <3>2. QED
      BY <1>1, <1>2, <3>1, NewName
  <2>5. NamesOfObjects'
    BY <1>4, <1>1, <2>2, <2>3, <2>4 DEF NamesOfObjects, Ended, U!Whole
  <2>6. JobTyped' /\ WaysOfKinds' /\ FilesOfBatch' /\ PartsLeft'
    BY <1>1, <1>4, <2>1, <2>2, <2>3 DEF DeliveryInv, JobTyped, JobPCs, Ended, WaysOfKinds, FilesOfBatch, PartsLeft
  <2>7. Delivered'
    <3>1. refs' # <<>> /\ refs'[1] = <<"media", 1>>
      BY <2>3
    <3>2. QED
      BY <1>1, <1>4, <3>1 DEF Delivered
  <2>8. QED
    BY <2>5, <2>6, <2>7 DEF DeliveryInv
<1>5. QED
  BY <1>3, <1>4, KindFacts DEF DeliveryInv, JobTyped

\* The upload failed: the next track, the next candidate, or the end.
LEMMA NotSentKeepsDelivery ==
  ASSUME DeliveryInv, NotSent
  PROVE  DeliveryInv'
<1>1. UNCHANGED <<kind, archive, refs, upload, store>> /\ jpc = "sending"
  BY DEF NotSent, upload
<1>2. /\ refs \in Seq(Keys) /\ IsInjective(refs) /\ \A k \in Range(refs) : store[k] = U!Whole(k)
      /\ track \in Nat
  BY DEF DeliveryInv, NamesOfObjects, JobTyped, Tracks
<1>3. CASE kind.form = "collection"
  <2>1. NextTrack /\ UNCHANGED files
    <3>1. kind.platform # "musicdl"
      BY <1>3, KindFacts DEF DeliveryInv, JobTyped
    <3>2. QED
      BY <1>3, <3>1 DEF NotSent
  <2>2. \A n \in DOMAIN refs : refs[n][1] = "media" /\ refs[n][2] < track /\ refs[n][2] \in Nat
    BY <1>1, <1>2, <1>3, KeysAreNumbered DEF DeliveryInv, NamesOfObjects, Ended
  <2>3. \A n \in DOMAIN refs' : refs'[n][1] = "media" /\ refs'[n][2] < track + 1
    BY <1>1, <1>2, <2>2
  <2>4. refs' \in Seq(Keys) /\ IsInjective(refs') /\ \A k \in Range(refs') : store'[k] = U!Whole(k)
    BY <1>1, <1>2 DEF U!Whole
  <2>5. QED
    BY <1>1, <1>3, <2>1, <2>3, <2>4, NextTrackKeepsDelivery
<1>4. CASE /\ kind.form = "single" /\ jpc' = "downloading"
           /\ tpc' = [tpc EXCEPT ![1] = "running"] /\ files' = <<>> /\ UNCHANGED track
  <2>1. files' \in Seq(Tracks)
    BY <1>4, EmptySeq
  <2>2. JobTyped' /\ tpc'[1] = "running"
    BY <1>1, <1>4, <2>1, FirstTrack DEF DeliveryInv, JobTyped, JobPCs
  <2>3. WaysOfKinds' /\ FilesOfBatch' /\ PartsLeft' /\ Delivered'
    BY <1>1, <1>4, <2>2 DEF DeliveryInv, WaysOfKinds, FilesOfBatch, PartsLeft, Delivered
  <2>4. NamesOfObjects'
    BY <1>1, <1>4 DEF DeliveryInv, NamesOfObjects, Ended, U!Whole
  <2>5. QED
    BY <2>2, <2>3, <2>4 DEF DeliveryInv
<1>5. CASE jpc' = "failed" /\ UNCHANGED <<track, tpc, files>>
  <2>1. JobTyped'
    BY <1>1, <1>5 DEF DeliveryInv, JobTyped, JobPCs, Ended
  <2>2. QED
    BY <1>1, <1>5, <2>1, QuietKeepsDelivery
<1>6. QED
  <2>1. kind.platform = "musicdl" => kind.form = "single"
    BY KindFacts DEF DeliveryInv, JobTyped
  <2>2. QED
    BY <1>3, <1>4, <1>5, <2>1 DEF NotSent, Fail

\* The cover is fetched and uploaded, or not.
LEMMA CoverKeepsDelivery ==
  ASSUME UploadInv, DeliveryInv, Cover
  PROVE  DeliveryInv'
<1>1. UNCHANGED <<kind, track, tpc, files, archive, refs>> /\ jpc = "cover"
  BY DEF Cover
<1>2. kind.form = "single" /\ refs = <<<<"media", 1>>>> /\ <<"thumb", 0>> \in Keys
  BY <1>1 DEF DeliveryInv, WaysOfKinds, NamesOfObjects, Keys
<1>3. CASE U!Begin(Call, <<"thumb", 0>>) /\ jpc' = "covering"
  <2>1. key'[Call] = <<"thumb", 0>> /\ upc'[Call] # "idle" /\ UNCHANGED store
    BY <1>2, <1>3, BeginKeepsUpload
  <2>2. NamesOfObjects'
    BY <1>1, <1>2, <1>3, <2>1 DEF DeliveryInv, NamesOfObjects, Ended, U!Whole
  <2>3. JobTyped' /\ WaysOfKinds' /\ FilesOfBatch' /\ PartsLeft' /\ Delivered'
    BY <1>1, <1>2, <1>3 DEF DeliveryInv, JobTyped, JobPCs, WaysOfKinds, FilesOfBatch, PartsLeft, Delivered
  <2>4. QED
    BY <2>2, <2>3 DEF DeliveryInv
<1>4. CASE jpc' = "completed" /\ UNCHANGED upload
  <2>1. NamesOfObjects'
    BY <1>1, <1>2, <1>4 DEF upload, DeliveryInv, NamesOfObjects, Ended, U!Whole
  <2>2. JobTyped' /\ WaysOfKinds' /\ FilesOfBatch' /\ PartsLeft'
    BY <1>1, <1>2, <1>4 DEF DeliveryInv, JobTyped, JobPCs, Ended, WaysOfKinds, FilesOfBatch, PartsLeft
  <2>3. Delivered'
    <3>1. refs' # <<>> /\ refs'[1] = <<"media", 1>>
      BY <1>1, <1>2
    <3>2. QED
      BY <1>1, <1>2, <3>1 DEF Delivered
  <2>4. QED
    BY <2>1, <2>2, <2>3 DEF DeliveryInv
<1>5. QED
  BY <1>3, <1>4 DEF Cover

LEMMA CoverSentKeepsDelivery ==
  ASSUME UploadInv, DeliveryInv, CoverSent
  PROVE  DeliveryInv'
<1>1. /\ UNCHANGED <<kind, track, tpc, files, archive, upload, store>> /\ jpc = "covering"
      /\ refs' = IF upc[Call] = "ok" THEN Append(refs, <<"thumb", 0>>) ELSE refs
      /\ jpc' = "completed"
  BY DEF CoverSent, upload
<1>2. /\ kind.form = "single" /\ refs = <<<<"media", 1>>>> /\ <<"thumb", 0>> \in Keys
      /\ refs \in Seq(Keys) /\ IsInjective(refs) /\ \A k \in Range(refs) : store[k] = U!Whole(k)
      /\ key[Call] = <<"thumb", 0>>
  BY <1>1 DEF DeliveryInv, WaysOfKinds, NamesOfObjects, JobTyped, Keys
<1>3. /\ refs' \in Seq(Keys) /\ IsInjective(refs')
      /\ \A k \in Range(refs') : store'[k] = U!Whole(k)
      /\ refs' # <<>> /\ refs'[1] = <<"media", 1>>
  <2>1. CASE upc[Call] = "ok"
    <3>1. store[<<"thumb", 0>>] = U!Whole(<<"thumb", 0>>)
      BY <1>2, <2>1 DEF UploadInv, StoredWhole
    <3>2. \A n \in DOMAIN refs : refs[n] # <<"thumb", 0>>
      BY <1>2
    <3>3. refs' = Append(refs, <<"thumb", 0>>) /\ UNCHANGED store
      BY <1>1, <2>1
    <3>4. refs' \in Seq(Keys) /\ IsInjective(refs') /\ (\A k \in Range(refs') : store'[k] = U!Whole(k))
          /\ refs' # <<>> /\ (\A n \in 1 .. Len(refs) : refs'[n] = refs[n])
      BY <1>2, <3>1, <3>2, <3>3, NewName
    <3>5. Len(refs) = 1 /\ refs[1] = <<"media", 1>>
      BY <1>2
    <3>6. QED
      BY <3>4, <3>5
  <2>2. CASE upc[Call] # "ok"
    <3>1. refs' = refs /\ UNCHANGED store
      BY <1>1, <2>2
    <3>2. refs # <<>> /\ refs[1] = <<"media", 1>>
      BY <1>2
    <3>3. QED
      BY <1>2, <3>1, <3>2
  <2>3. QED
    BY <2>1, <2>2
<1>4. NamesOfObjects'
  BY <1>1, <1>2, <1>3 DEF NamesOfObjects, Ended, U!Whole
<1>5. JobTyped' /\ WaysOfKinds' /\ FilesOfBatch' /\ PartsLeft'
  BY <1>1, <1>2, <1>3 DEF DeliveryInv, JobTyped, JobPCs, Ended, WaysOfKinds, FilesOfBatch, PartsLeft
<1>6. Delivered'
  BY <1>1, <1>2, <1>3 DEF Delivered
<1>7. QED
  BY <1>3, <1>4, <1>5, <1>6 DEF DeliveryInv

-----------------------------------------------------------------------------
(* The promises.                                                           *)

Inv == UploadInv /\ DeliveryInv

\* The upload moves when the job calls it, and in its own thread.
LEMMA NextKeepsUpload == Inv /\ [Next]_vars => UploadInv'
<1> SUFFICES ASSUME UploadInv, DeliveryInv, [Next]_vars PROVE UploadInv'
  BY DEF Inv
<1>1. CASE UNCHANGED upload
  BY <1>1 DEF upload, UploadInv, UploadTyped, PartsInOrder, StoredWhole, UploadsAreClosed,
     U!UploadsAreClosed, U!Whole
<1>2. CASE UploadStep
  BY <1>2, StepKeepsUpload DEF UploadStep
<1>3. CASE Upload
  <2>1. NextKey \in Keys
    BY <1>3, NextKeyIsKey DEF Upload
  <2>2. QED
    BY <1>3, <2>1, BeginKeepsUpload DEF Upload
<1>4. CASE Cover
  <2>1. <<"thumb", 0>> \in Keys
    BY DEF Keys
  <2>2. QED
    BY <1>1, <1>4, <2>1, BeginKeepsUpload DEF Cover
<1>5. CASE ~ (UploadStep \/ Upload \/ Cover)
  <2>1. UNCHANGED upload
    BY <1>5 DEF Next, JobStep, vars, Resolve, SkipTrack, BuildArchive, Sent, NotSent, CoverSent,
       TrackStarts, AttemptFails, TrackFails, TrackDone, ReportRaises, Cancel, StrayEnds
  <2>2. QED
    BY <1>1, <2>1
<1>6. QED
  BY <1>2, <1>3, <1>4, <1>5

LEMMA NextKeepsDelivery == Inv /\ [Next]_vars => DeliveryInv'
<1> SUFFICES ASSUME UploadInv, DeliveryInv, [Next]_vars PROVE DeliveryInv'
  BY DEF Inv
<1>1. CASE UNCHANGED vars
  <2>1. JobTyped'
    BY <1>1 DEF vars, DeliveryInv, JobTyped
  <2>2. QED
    BY <1>1, <2>1, QuietKeepsDelivery DEF vars, DeliveryInv, WaysOfKinds
<1>2. CASE Sent
  BY <1>2, PartSentKeepsDelivery, TrackSentKeepsDelivery
<1>3. CASE JobStep /\ ~Sent
  BY <1>3, EarlyStepKeepsDelivery, TrackDoneKeepsDelivery, BuildArchiveKeepsDelivery,
     UploadKeepsDelivery, SkipTrackKeepsDelivery, NotSentKeepsDelivery, CoverKeepsDelivery,
     CoverSentKeepsDelivery DEF JobStep
<1>4. QED
  BY <1>1, <1>2, <1>3, EarlyStepKeepsDelivery, UploadStepKeepsDelivery DEF Next

LEMMA InitInv == Init => Inv
<1> SUFFICES ASSUME Init PROVE Inv
  OBVIOUS
<1>1. UploadTyped
  <2>1. <<>> \in Seq(Nat) /\ <<>> \in Seq(Entries \cup {None})
    BY EmptySeq
  <2>2. QED
    BY <2>1 DEF Init, U!Init, UploadTyped, Busy
<1>2. PartsInOrder
  BY DEF Init, U!Init, PartsInOrder
<1>3. StoredWhole
  BY DEF Init, U!Init, StoredWhole
<1>4. UploadsAreClosed
  BY EmptySeq DEF Init, U!Init, UploadsAreClosed, U!UploadsAreClosed
<1>5. JobTyped
  <2>1. files \in Seq(Tracks) /\ archive \in Seq(Seq(Tracks)) /\ refs \in Seq(Keys)
    BY EmptySeq DEF Init
  <2>2. QED
    BY <2>1, FirstTrack DEF Init, JobTyped, JobPCs
<1>6. WaysOfKinds /\ FilesOfBatch /\ PartsLeft /\ Delivered
  BY EmptySeq DEF Init, WaysOfKinds, FilesOfBatch, PartsLeft, Delivered, IsInjective
<1>7. NamesOfObjects
  BY EmptySeq DEF Init, U!Init, NamesOfObjects, IsInjective, Range
<1>8. QED
  BY <1>1, <1>2, <1>3, <1>4, <1>5, <1>6, <1>7 DEF Inv, UploadInv, DeliveryInv

LEMMA InvHolds == Spec => []Inv
<1>1. Inv /\ [Next]_vars => Inv'
  BY NextKeepsUpload, NextKeepsDelivery DEF Inv
<1>2. QED
  BY <1>1, InitInv, PTL DEF Spec

\* A multipart upload that nobody works on is open only where the store's
\* answer was lost, whatever fails and whenever the job is cancelled.
THEOREM UploadsEnd == Spec => []UploadsAreClosed
<1>1. Inv => UploadsAreClosed
  BY DEF Inv, UploadInv
<1>2. QED
  BY <1>1, InvHolds, PTL

\* A completed job names distinct, whole objects, one of them more than a
\* cover, and a batch has every finished track in its files exactly once.
THEOREM JobsDeliver == Spec => []CompletedJobsDeliver
<1>1. Inv => CompletedJobsDeliver
  <2> SUFFICES ASSUME Inv, jpc = "completed"
               PROVE  /\ \E k \in Range(refs) : k[1] # "thumb"
                      /\ \A k \in Range(refs) : store[k] = U!Whole(k)
                      /\ IsInjective(refs)
                      /\ kind.form = "batch" =>
                           /\ archive = <<>>
                           /\ \A i \in Tracks :
                                tpc[i] = "done" <=> Cardinality({n \in DOMAIN files : files[n] = i}) = 1
    BY DEF CompletedJobsDeliver
  <2>1. refs \in Seq(Keys) /\ refs # <<>> /\ refs[1][1] # "thumb" /\ (kind.form = "batch" => archive = <<>>)
    BY DEF Inv, DeliveryInv, JobTyped, Delivered
  <2>2. 1 \in DOMAIN refs
    BY <2>1, EmptySeq, LenProperties
  <2>3. \E k \in Range(refs) : k[1] # "thumb"
    BY <2>1, <2>2 DEF Range
  <2>4. (\A k \in Range(refs) : store[k] = U!Whole(k)) /\ IsInjective(refs)
    BY DEF Inv, DeliveryInv, NamesOfObjects
  <2>5. ASSUME kind.form = "batch", NEW i \in Tracks
        PROVE  tpc[i] = "done" <=> Cardinality({n \in DOMAIN files : files[n] = i}) = 1
    <3> DEFINE S == {n \in DOMAIN files : files[n] = i}
    <3>1. IsInjective(files) /\ (tpc[i] = "done" <=> \E n \in DOMAIN files : files[n] = i)
      BY <2>5 DEF Inv, DeliveryInv, FilesOfBatch
    <3>2. CASE tpc[i] = "done"
      <4>1. PICK n \in DOMAIN files : files[n] = i
        BY <3>1, <3>2
      <4>2. S = {n}
        BY <3>1, <4>1 DEF IsInjective
      <4>3. Cardinality(S) = 1
        BY <4>2, FS_Singleton
      <4>4. QED
        BY <3>2, <4>3
    <3>3. CASE tpc[i] # "done"
      <4>1. S = {}
        BY <3>1, <3>3
      <4>2. Cardinality(S) = 0
        BY <4>1, FS_EmptySet
      <4>3. QED
        BY <3>3, <4>2
    <3>4. QED
      BY <3>2, <3>3
  <2>6. QED
    BY <2>1, <2>3, <2>4, <2>5
<1>2. QED
  BY <1>1, InvHolds, PTL

\* What the archive is when its upload starts is what BuildArchive made it.
LEMMA NextKeepsParts == Inv /\ PartsHoldTheFiles /\ [Next]_vars => PartsHoldTheFiles'
<1> SUFFICES ASSUME Inv, PartsHoldTheFiles, [Next]_vars,
                    jpc' = "uploading", kind'.form = "batch", refs' = <<>>
             PROVE  /\ CutInto(files', archive')
                    /\ SplitSize > 0 =>
                         \A n \in DOMAIN archive' :
                           SumOf(archive'[n]) <= SplitSize \/ SumOf(Front(archive'[n])) = 0
  BY DEF PartsHoldTheFiles
<1>1. UNCHANGED kind
  BY DEF Next, JobStep, UploadStep, vars, Resolve, SkipTrack, BuildArchive, Upload, Sent, NotSent, Cover,
     CoverSent, TrackStarts, AttemptFails, TrackFails, TrackDone, ReportRaises, Cancel, StrayEnds
<1>2. CASE BuildArchive
  <2>1. /\ files \in Seq(Tracks) /\ files # <<>> /\ UNCHANGED files
        /\ archive' = IF SplitSize > 0 /\ SumOf(files) > SplitSize THEN SplitFiles(files) ELSE <<files>>
    BY <1>2 DEF BuildArchive, Fail, Inv, DeliveryInv, JobTyped
  <2>2. /\ archive' \in Seq(Seq(Tracks))
        /\ CutUpTo(files, Len(files), archive')
        /\ SplitSize > 0 => \A p \in 1 .. Len(archive') : WithinLimit(archive'[p])
    BY <2>1, ArchiveIsWellPacked
  <2>3. CutInto(files', archive')
    BY <2>1, <2>2 DEF CutUpTo, CutInto, CutsOf
  <2>4. DOMAIN archive' = 1 .. Len(archive')
    BY <2>2, LenProperties
  <2>5. QED
    BY <2>2, <2>3, <2>4 DEF WithinLimit
<1>3. CASE ~BuildArchive
  <2>1. refs' # Append(refs, key[Call])
    <3>1. refs \in Seq(Keys)
      BY DEF Inv, DeliveryInv, JobTyped
    <3>2. Len(Append(refs, key[Call])) = Len(refs) + 1 /\ Len(refs) \in Nat
      BY <3>1
    <3>3. Len(refs') = 0
      BY EmptySeq
    <3>4. Len(refs) + 1 # 0
      BY <3>2
    <3>5. Len(refs') # Len(Append(refs, key[Call]))
      BY <3>2, <3>3, <3>4, Zenon
    <3>6. QED
      BY <3>5, Zenon
  <2>2. jpc = "uploading" /\ UNCHANGED <<refs, files, archive>>
    BY <1>1, <1>3, <2>1 DEF Next, JobStep, UploadStep, vars, Resolve, SkipTrack, Upload, Sent, NotSent,
       Cover, CoverSent, TrackStarts, AttemptFails, TrackFails, TrackDone, ReportRaises, Cancel,
       StrayEnds, Fail, NextTrack
  <2>3. QED
    BY <1>1, <2>2 DEF PartsHoldTheFiles, CutInto, CutsOf
<1>4. QED
  BY <1>2, <1>3

\* The parts of an archive are the files of the batch in their order, each
\* once, and within the limit but for a file that exceeds it by itself.
THEOREM PartsAreTheFiles == Spec => []PartsHoldTheFiles
<1>1. Init => PartsHoldTheFiles
  BY DEF Init, PartsHoldTheFiles
<1>2. QED
  BY <1>1, NextKeepsParts, InvHolds, PTL DEF Spec
=============================================================================
