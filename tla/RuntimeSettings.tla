-------------------------- MODULE RuntimeSettings --------------------------
(***************************************************************************)
(* Settings that an administrator changes (PATCH /admin/settings in         *)
(* iran/api/admin.py), that the worker applies and saves                    *)
(* (kharej/settings.py), and that the site takes back from the worker's     *)
(* acknowledgement (on_admin_ack in iran/main.py).                          *)
(*                                                                         *)
(* A value is the update that set it.  Of the worker's settings the two     *)
(* that the site may set are modelled; the KHAREJ_* variables have other    *)
(* names.  An action is what a coroutine does between two awaits; applying  *)
(* an update and making its acknowledgement awaits nothing.                 *)
(***************************************************************************)
EXTENDS Naturals, FiniteSets

CONSTANTS
  Settings,    \* ALLOWED_SETTING_TYPES
  Updates,     \* requests of PATCH /admin/settings
  MaxFaults,   \* bound on sends that raise and files that cannot be written
  MaxRestarts, \* bound on restarts of the worker
  None

VARIABLES
  patch,    \* patch[u]: where the request u is
  table,    \* the settings table of the site
  letters,  \* messages under way
  acks,     \* on_admin_ack tasks that have read the table
  stored,   \* KharejSettings._disk, in the worker's memory
  file,     \* kharej_settings.json
  turn,     \* history: turn[u]: when u was applied, 0 if it was not
  acked,    \* history: the settings in the last acknowledgement sent, of an
            \* update that set something
  faults, restarts

site   == <<patch, table, acks>>
worker == <<stored, file, turn, acked>>
vars   == <<site, worker, letters, faults, restarts>>

Unset == [k \in Settings |-> None]
New   == [pc |-> "new", keys |-> {}, absent |-> {}]

Init ==
  /\ patch = [u \in Updates |-> New]
  /\ table = Unset
  /\ letters = {} /\ acks = {}
  /\ stored = Unset /\ file = Unset
  /\ turn = [u \in Updates |-> 0]
  /\ acked = Unset
  /\ faults = 0 /\ restarts = 0

Fault == faults < MaxFaults /\ faults' = faults + 1

Absent(keys) == {k \in keys : table[k] = None}

\* What the table becomes when the rows "keys" are written.
Written(keys, value) == [k \in Settings |-> IF k \in keys THEN value[k] ELSE table[k]]

----------------------------------------------------------------------------
(* The site                                                                *)

Patch(u) ==
  /\ patch[u].pc = "new"
  /\ \E keys \in SUBSET Settings :
       patch' = [patch EXCEPT ![u] = [pc |-> "sending", keys |-> keys, absent |-> Absent(keys)]]
  /\ UNCHANGED <<table, acks, worker, letters, faults, restarts>>

Leaves(u) ==
  /\ patch[u].pc = "sending"
  /\ patch' = [patch EXCEPT ![u].pc = "sent"]
  /\ letters' = letters \cup {[type |-> "update", of |-> u]}
  /\ UNCHANGED <<table, acks, worker, faults, restarts>>

\* The send raises, before or after the message has left: a rollback.
SendRaises(u) ==
  /\ patch[u].pc \in {"sending", "sent"}
  /\ Fault
  /\ patch' = [patch EXCEPT ![u].pc = "failed"]
  /\ UNCHANGED <<table, acks, worker, letters, restarts>>

\* The rows found absent are inserted, which fails where an acknowledgement or
\* another request has inserted them meanwhile.
Commit(u) ==
  /\ patch[u].pc = "sent"
  /\ \/ /\ patch[u].absent \subseteq Absent(Settings)
        /\ patch' = [patch EXCEPT ![u].pc = "done"]
        /\ table' = Written(patch[u].keys, [k \in Settings |-> u])
     \/ /\ ~(patch[u].absent \subseteq Absent(Settings))
        /\ patch' = [patch EXCEPT ![u].pc = "failed"]
        /\ UNCHANGED table
  /\ UNCHANGED <<acks, worker, letters, faults, restarts>>

OnAdminAck(m) ==
  /\ m.type = "ack"
  /\ letters' = letters \ {m}
  /\ LET keys == {k \in Settings : m.config[k] # None} IN
     acks' = acks \cup {[config |-> m.config, keys |-> keys, absent |-> Absent(keys)]}
  /\ UNCHANGED <<patch, table, worker, faults, restarts>>

AckCommits(a) ==
  /\ acks' = acks \ {a}
  /\ table' = IF a.absent \subseteq Absent(Settings) THEN Written(a.keys, a.config) ELSE table
  /\ UNCHANGED <<patch, worker, letters, faults, restarts>>

----------------------------------------------------------------------------
(* The worker                                                              *)

\* The settings after u has set "keys".
After(u, keys) == [k \in Settings |-> IF k \in keys THEN u ELSE stored[k]]

\* Mutant: only what the update sets is saved.
SetsAlone(u, keys) ==
  /\ stored' = After(u, keys)
  /\ file' = [k \in Settings |-> IF k \in keys THEN u ELSE None]

\* set of every key: each is saved with all that is in memory.
Sets(u, keys) ==
  /\ stored' = After(u, keys)
  /\ file' = IF keys = {} THEN file ELSE After(u, keys)

Turn(u) == turn' = [turn EXCEPT ![u] = 1 + Cardinality({v \in Updates : turn[v] > 0})]

\* The acknowledgement holds the settings of this moment; its send may raise.
Apply(m) ==
  /\ m.type = "update"
  /\ Sets(m.of, patch[m.of].keys)
  /\ Turn(m.of)
  /\ \/ /\ letters' = (letters \ {m}) \cup {[type |-> "ack", config |-> stored']}
        /\ acked' = IF patch[m.of].keys = {} THEN acked ELSE stored'
        /\ UNCHANGED faults
     \/ /\ Fault
        /\ letters' = letters \ {m}
        /\ UNCHANGED acked
  /\ UNCHANGED <<site, restarts>>

\* The file cannot be written for one of the keys: those before it are saved,
\* it is in memory only, and there is no acknowledgement.
SaveFails(m) ==
  /\ m.type = "update"
  /\ Fault
  /\ \E k \in patch[m.of].keys : \E saved \in SUBSET (patch[m.of].keys \ {k}) :
       /\ stored' = After(m.of, saved \cup {k})
       /\ file' = IF saved = {} THEN file ELSE After(m.of, saved)
  /\ Turn(m.of)
  /\ letters' = letters \ {m}
  /\ UNCHANGED <<site, acked, restarts>>

\* The worker starts again, where it died while it applied an update with some
\* of its keys saved.
DiesApplying(m) ==
  /\ m.type = "update"
  /\ restarts < MaxRestarts /\ restarts' = restarts + 1
  /\ \E saved \in SUBSET patch[m.of].keys :
       file' = IF saved = {} THEN file ELSE After(m.of, saved)
  /\ stored' = file'
  /\ Turn(m.of)
  /\ letters' = letters \ {m}
  /\ UNCHANGED <<site, acked, faults>>

Restart ==
  /\ restarts < MaxRestarts /\ restarts' = restarts + 1
  /\ stored' = file
  /\ UNCHANGED <<site, file, turn, acked, letters, faults>>

\* A message under way is lost.
Lost(m) ==
  /\ Fault
  /\ letters' = letters \ {m}
  /\ UNCHANGED <<site, worker, restarts>>

Next ==
  \/ \E u \in Updates : Patch(u) \/ Leaves(u) \/ SendRaises(u) \/ Commit(u)
  \/ \E m \in letters : Apply(m) \/ SaveFails(m) \/ DiesApplying(m) \/ OnAdminAck(m) \/ Lost(m)
  \/ \E a \in acks : AckCommits(a)
  \/ Restart

Spec == Init /\ [][Next]_vars

----------------------------------------------------------------------------
(* Properties                                                              *)

\* What the variables hold.
TypeOK ==
  /\ \A u \in Updates :
       /\ patch[u].pc \in {"new", "sending", "sent", "done", "failed"}
       /\ patch[u].absent \subseteq patch[u].keys /\ patch[u].keys \subseteq Settings
  /\ \A f \in {table, stored, file, acked} : f \in [Settings -> Updates \cup {None}]
  /\ turn \in [Updates -> 0 .. Cardinality(Updates)]
  /\ faults \in 0 .. MaxFaults /\ restarts \in 0 .. MaxRestarts

\* A value that the worker has acknowledged is in its file, or a later one is:
\* a restart does not bring an older one back, whatever writes failed between
\* (settings.py:156-160, 174-193).  An empty update is no exception only because
\* it is left out of "acked": it saves nothing, and acknowledges what an earlier
\* update could not save.
AcknowledgedSettingsSurvive ==
  \A k \in Settings :
    acked[k] # None =>
      file[k] # None /\ turn[file[k]] >= turn[acked[k]]

----------------------------------------------------------------------------
(* What the documents of the repository say, and the code does not do.     *)

\* The effective settings are written back to the table on the acknowledgement
\* (track-b-steps.md:940).  Acknowledgements that overtake each other, or a
\* commit that comes after the acknowledgement of a later update, leave the
\* older value there, and the limits of the site are read from it.
TableFollowsWorker ==
  faults = 0 /\ restarts = 0 /\ letters = {} /\ acks = {}
  /\ (\A u \in Updates : patch[u].pc \in {"done", "failed"})
    => table = stored
=============================================================================
