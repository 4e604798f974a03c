---------------------------- MODULE ObjectUpload ----------------------------
(***************************************************************************)
(* Uploads of the worker to the object store (kharej/s2_client.py), and    *)
(* the store itself, as the client uses it.                                *)
(*                                                                         *)
(* An uploader is a thread that runs upload_file; it sends one request at  *)
(* a time.  The store may carry a request out and lose the answer, or      *)
(* refuse it for good or for now.  What may be repeated is repeated at     *)
(* most MaxTries times.  The retries that boto makes on its own are folded *)
(* into those of the client.                                               *)
(***************************************************************************)
EXTENDS Naturals, Sequences, FiniteSets

CONSTANTS
  Uploaders,
  Keys,
  Size,        \* Size[k]: the length of the file for key k, in chunks
  Threshold,   \* multipart_threshold_bytes, in chunks
  MaxTries,    \* max_attempts
  MaxUploads,  \* bound on the multipart uploads ever opened
  None

VARIABLES
  upc,     \* upc[u]: the request uploader u is at
  key,     \* key[u]: the key it uploads to
  uid,     \* uid[u]: its multipart upload, None before the first answer
  parts,   \* parts[u]: the parts it has the ETags of
  tries,   \* tries[u]: how often the present request was sent
  store,   \* store[k]: the chunks of the object, None if there is none
  opened,  \* multipart uploads of the store: [key, chunks], closed is None
  lost     \* an answer that closes or opens a multipart upload was lost

client == <<upc, key, uid, parts, tries>>
vars   == <<upc, key, uid, parts, tries, store, opened, lost>>

-----------------------------------------------------------------------------
Requests == {"put", "create", "part", "complete", "abort"}
Outcomes == {"ok", "failed"}
Ids      == 1 .. MaxUploads

\* A file, chunk by chunk.
Whole(k) == [i \in 1 .. Size[k] |-> i]

\* _should_retry: lost connections, timeouts, SlowDown and server errors may
\* be repeated; a missing key or upload, and a refused access, may not.
Repeatable(error) == error = "transient"

Init ==
  /\ upc = [u \in Uploaders |-> "idle"]
  /\ key = [u \in Uploaders |-> None]
  /\ uid = [u \in Uploaders |-> None]
  /\ parts = [u \in Uploaders |-> <<>>]
  /\ tries = [u \in Uploaders |-> 0]
  /\ store = [k \in Keys |-> None]
  /\ opened = <<>>
  /\ lost = FALSE

\* upload_file, _do_upload: single-shot or multipart by the size.
Begin(u, k) ==
  /\ upc[u] \in {"idle"} \cup Outcomes
  /\ upc' = [upc EXCEPT ![u] = IF Size[k] > Threshold THEN "create" ELSE "put"]
  /\ key' = [key EXCEPT ![u] = k]
  /\ uid' = [uid EXCEPT ![u] = None]
  /\ parts' = [parts EXCEPT ![u] = <<>>]
  /\ tries' = [tries EXCEPT ![u] = 0]
  /\ UNCHANGED <<store, opened, lost>>

\* The request after the one that was answered.
GoOn(u, request) ==
  /\ upc' = [upc EXCEPT ![u] = request]
  /\ tries' = [tries EXCEPT ![u] = 0]

\* The error of a request: it is sent again, or it leaves the loop.  A
\* multipart upload that was opened is then aborted.
Erred(u, error) ==
  IF Repeatable(error) /\ tries[u] + 1 < MaxTries
  THEN tries' = [tries EXCEPT ![u] = @ + 1] /\ UNCHANGED upc
  ELSE GoOn(u, IF upc[u] \in {"part", "complete"} THEN "abort" ELSE "failed")

\* _upload_single
PutDone(u) ==
  /\ upc[u] = "put"
  /\ store' = [store EXCEPT ![key[u]] = Whole(key[u])]
  /\ \/ GoOn(u, "ok")
     \/ Erred(u, "transient")
  /\ UNCHANGED <<key, uid, parts, opened, lost>>

\* The upload is opened; if the answer is lost, the client opens another one
\* and nobody knows of the first.
CreateDone(u) ==
  /\ upc[u] = "create"
  /\ Len(opened) < MaxUploads
  /\ opened' = Append(opened, [key |-> key[u], chunks |-> <<>>])
  /\ \/ /\ uid' = [uid EXCEPT ![u] = Len(opened) + 1]
        /\ GoOn(u, "part")
        /\ UNCHANGED lost
     \/ /\ Erred(u, "transient")
        /\ lost' = TRUE
        /\ UNCHANGED uid
  /\ UNCHANGED <<key, parts, store>>

\* The store keeps one chunk per part number.
WithPart(chunks, n, c) ==
  [i \in 1 .. (IF n > Len(chunks) THEN n ELSE Len(chunks)) |->
     IF i = n THEN c ELSE IF i \in DOMAIN chunks THEN chunks[i] ELSE 0]

\* The next chunk is read and sent under the next part number; a repeated
\* request overwrites the part.
PartDone(u) ==
  LET n == Len(parts[u]) + 1 IN
  /\ upc[u] = "part"
  /\ n <= Size[key[u]]
  /\ opened[uid[u]] # None
  /\ opened' = [opened EXCEPT ![uid[u]].chunks = WithPart(@, n, n)]
  /\ \/ /\ parts' = [parts EXCEPT ![u] = Append(@, n)]
        /\ GoOn(u, IF n = Size[key[u]] THEN "complete" ELSE "part")
     \/ /\ Erred(u, "transient")
        /\ UNCHANGED parts
  /\ UNCHANGED <<key, uid, store, lost>>

\* The object is assembled from the parts the client names.
CompleteDone(u) ==
  /\ upc[u] = "complete"
  /\ opened[uid[u]] # None
  /\ store' = [store EXCEPT ![key[u]] =
                 [i \in DOMAIN parts[u] |-> opened[uid[u]].chunks[parts[u][i]]]]
  /\ opened' = [opened EXCEPT ![uid[u]] = None]
  /\ \/ GoOn(u, "ok")
     \/ Erred(u, "transient")
  /\ UNCHANGED <<key, uid, parts, lost>>

\* The answer to the completion was lost, and the upload no longer exists.
\* The client takes the object that it has stored for a failure.
CompleteAgain(u) ==
  /\ upc[u] = "complete"
  /\ opened[uid[u]] = None
  /\ Erred(u, "missing")
  /\ UNCHANGED <<key, uid, parts, store, opened, lost>>

\* Mutant: a failed upload is left open.
AbortNothing(u) ==
  /\ upc[u] = "abort"
  /\ GoOn(u, "failed")
  /\ UNCHANGED <<key, uid, parts, store, opened, lost>>

\* The abort is tried once and its error is ignored.
Abort(u) ==
  /\ upc[u] = "abort"
  /\ \/ opened' = [opened EXCEPT ![uid[u]] = None] /\ UNCHANGED lost
     \/ opened[uid[u]] # None /\ lost' = TRUE /\ UNCHANGED opened
  /\ GoOn(u, "failed")
  /\ UNCHANGED <<key, uid, parts, store>>

\* A request that the store does not carry out.
Refused(u, error) ==
  /\ upc[u] \in Requests \ {"abort"}
  /\ Erred(u, error)
  /\ UNCHANGED <<key, uid, parts, store, opened, lost>>

Step(u) ==
  \/ PutDone(u) \/ CreateDone(u) \/ PartDone(u) \/ CompleteDone(u)
  \/ CompleteAgain(u) \/ Abort(u)
  \/ \E error \in {"transient", "denied"} : Refused(u, error)

Next == \E u \in Uploaders : Step(u) \/ \E k \in Keys : Begin(u, k)

Spec == Init /\ [][Next]_vars

-----------------------------------------------------------------------------
(* Properties.                                                             *)

\* A multipart upload that nobody works on is open only if the answer that
\* named it or the request that aborted it was lost: no error path of the
\* client leaves one behind.
UploadsAreClosed ==
  \A i \in DOMAIN opened :
    opened[i] # None =>
      lost \/ \E u \in Uploaders : uid[u] = i /\ upc[u] \in {"part", "complete", "abort"}
=============================================================================
