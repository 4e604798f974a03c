--------------------------- MODULE IranJobsProofs ---------------------------
(***************************************************************************)
(* Theorems about IranJobs, for any jobs, users, sessions, limit and       *)
(* number of faults.                                                       *)
(*                                                                         *)
(* The argument: a queued job is only ever dispatched by the session that  *)
(* holds its row lock, and nobody else can change a locked row before that *)
(* session commits (Picks); a job that is being created is known to its    *)
(* creator alone (Creations).  So when a job.create is about to go out, it *)
(* is the first one, up to those that faults account for (Dispatches).     *)
(*                                                                         *)
(* The last part is about what the code's remarks on the order, the        *)
(* service and the cancellation of queued jobs come to when requests       *)
(* overlap: what a session has looked at stays true until it commits,      *)
(* unless another commits in between (stale).                              *)
(***************************************************************************)
EXTENDS IranJobs, FiniteSetTheorems, TLAPS

-----------------------------------------------------------------------------
(* The inductive invariant.                                                *)

CreatingPCs == {"checking", "counting", "sending"}

\* What a session writes is determined by its operation.
Operations ==
  \A s \in Sessions :
    /\ Open(s) => session[s].op \in Ops
    /\ Open(s) /\ session[s].op # "create" => session[s].new = Target[session[s].op]
    /\ session[s].op = "create" => session[s].new \in {"none", "queued", "pending"}
    /\ session[s].pc \in CreatingPCs => session[s].op = "create"
    /\ session[s].pc = "sending" => session[s].new = "pending"
    /\ session[s].op = "create" => session[s].pc \in CreatingPCs \cup {"committing"}
    /\ session[s].promote => session[s].pc = "committing" /\ session[s].picked # Null

\* A picked job is locked by the session that picked it, and still queued.
Picks ==
  \A s \in Sessions : session[s].picked # Null =>
    /\ session[s].pc \in {"promoting", "committing"}
    /\ lock[session[s].picked] = s
    /\ job[session[s].picked] = "queued"
    /\ session[s].promote => creates[session[s].picked] > 0

\* Every lock has a holder that is past its first flush.
Holders ==
  \A j \in Jobs : lock[j] # Null =>
    /\ session[lock[j]].pc \in {"tallying", "picking", "promoting", "committing"}
    /\ j \in {session[lock[j]].job, session[lock[j]].picked}

\* Before its creation begins nothing is known of a job.
Unborn ==
  \A j \in Jobs : born[j] = 0 =>
    /\ job[j] = "none" /\ creates[j] = 0
    /\ \A s \in Sessions : session[s].job # j

\* A job that is being created has no row and no other session.
Creations ==
  \A s \in Sessions : Open(s) /\ session[s].op = "create" =>
    /\ job[session[s].job] = "none"
    /\ \A t \in Sessions : session[t].job = session[s].job => t = s
    /\ session[s].pc \in CreatingPCs \/ session[s].new = "queued"
         => creates[session[s].job] = 0

Handed(j) == \E s \in Sessions : session[s].picked = j /\ session[s].promote

\* One job.create, plus what the faults account for; none yet for a job that
\* is queued and not just being handed over.
Dispatches ==
  \A j \in Jobs :
    /\ creates[j] <= 1 + faults
    /\ job[j] = "queued" /\ ~Handed(j) => creates[j] <= faults

IInv == TypeOK /\ Operations /\ Picks /\ Holders /\ Unborn /\ Creations /\ Dispatches

-----------------------------------------------------------------------------
USE DEF Dispatched, Active, Terminal, Statuses, Reports, Ops, OpenPCs, Idle,
        Start, Goto, Promoting, Promoted, Open, Fault, Transmit, Release,
        Rollback, Lockable

LEMMA InitHolds == Init => IInv
<1>1. SUFFICES ASSUME Init PROVE IInv
  OBVIOUS
<1>2. TypeOK
  BY <1>1 DEF Init, TypeOK, SessionsTyped, SessionType
<1>3. Operations /\ Picks /\ Holders
  BY <1>1 DEF Init, Operations, Picks, Holders, CreatingPCs
<1>4. Unborn /\ Creations
  BY <1>1, NullIsNothing DEF Init, Unborn, Creations
<1>5. Dispatches
  BY <1>1 DEF Init, Dispatches
<1>6. QED
  BY <1>2, <1>3, <1>4, <1>5 DEF IInv

\* What a session writes is a status.
LEMMA WrittenIsStatus ==
  ASSUME TypeOK, NEW s \in Sessions, NEW j \in Jobs
  PROVE  Written(s, j) \in Statuses
BY DEF TypeOK, SessionsTyped, SessionType, Written

LEMMA CreateTypes ==
  ASSUME TypeOK, NEW s \in Sessions,
         \/ \E j \in Jobs : CreateBegin(s, j)
         \/ CreateRefused(s) \/ CreateAdmitted(s) \/ CreateDecides(s)
         \/ CreateSent(s) \/ CreateSendFails(s)
  PROVE  TypeOK'
<1>1. ASSUME NEW j \in Jobs, CreateBegin(s, j) PROVE TypeOK'
  <2>1. Cardinality({k \in Jobs : born[k] > 0}) \in Nat
    BY JobsFinite, FS_Subset, FS_CardinalityType
  <2>2. QED
    BY <1>1, <2>1 DEF TypeOK, SessionsTyped, SessionType, CreateBegin
<1>2. CASE CreateRefused(s)
  BY <1>2 DEF TypeOK, SessionsTyped, SessionType, CreateRefused
<1>3. CASE CreateAdmitted(s)
  <2>1. Goto(s, "counting") /\ UNCHANGED <<job, lock, born, creates, told, ttl, faults, stale>>
    BY <1>3 DEF CreateAdmitted
  <2>2. session[s].pc = "checking"
    BY <1>3 DEF CreateAdmitted
  <2>3. QED
    BY <2>1, <2>2 DEF TypeOK, SessionsTyped, SessionType
<1>4. CASE CreateDecides(s)
  <2>1. session[s].pc = "counting"
    BY <1>4 DEF CreateDecides
  <2>2. UNCHANGED <<job, lock, born, creates, told, ttl, faults, stale>>
    BY <1>4 DEF CreateDecides
  <2>3. \/ Start(s, "create", session[s].job, "committing", "none", "queued")
        \/ Start(s, "create", session[s].job, "sending", "none", "pending")
    BY <1>4 DEF CreateDecides
  <2>4. session[s].job \in Jobs
    BY <2>1 DEF TypeOK, SessionsTyped
  <2>5. SessionsTyped'
    <3>1. CASE Start(s, "create", session[s].job, "committing", "none", "queued")
      BY <2>4, <3>1 DEF TypeOK, SessionsTyped, SessionType
    <3>2. CASE Start(s, "create", session[s].job, "sending", "none", "pending")
      BY <2>4, <3>2 DEF TypeOK, SessionsTyped, SessionType
    <3>3. QED
      BY <2>3, <3>1, <3>2
  <2>6. QED
    BY <2>2, <2>5 DEF TypeOK
<1>5. CASE CreateSent(s)
  BY <1>5 DEF TypeOK, SessionsTyped, SessionType, CreateSent
<1>6. CASE CreateSendFails(s)
  BY <1>6 DEF TypeOK, SessionsTyped, SessionType, CreateSendFails
<1>7. QED
  BY <1>1, <1>2, <1>3, <1>4, <1>5, <1>6

LEMMA CancelTypes ==
  ASSUME TypeOK, NEW s \in Sessions,
         \/ \E j \in Jobs, op \in {"cancel", "force"} : CancelBegin(s, op, j)
         \/ CancelSent(s) \/ CancelSendFails(s) \/ ForceSendFails(s)
  PROVE  TypeOK'
<1>1. ASSUME NEW j \in Jobs, NEW op \in {"cancel", "force"}, CancelBegin(s, op, j)
      PROVE TypeOK'
  BY <1>1 DEF TypeOK, SessionsTyped, SessionType, CancelBegin, Cancellable, Target
<1>2. CASE CancelSent(s)
  BY <1>2 DEF TypeOK, SessionsTyped, SessionType, CancelSent
<1>3. CASE CancelSendFails(s)
  <2>1. SessionsTyped'
    BY <1>3 DEF TypeOK, SessionsTyped, SessionType, CancelSendFails
  <2>2. told' \in [Jobs -> BOOLEAN]
    BY <1>3 DEF TypeOK, CancelSendFails
  <2>3. QED
    BY <1>3, <2>1, <2>2 DEF TypeOK, CancelSendFails
<1>4. CASE ForceSendFails(s)
  <2>1. SessionsTyped'
    BY <1>4 DEF TypeOK, SessionsTyped, SessionType, ForceSendFails
  <2>2. told' \in [Jobs -> BOOLEAN]
    BY <1>4 DEF TypeOK, ForceSendFails
  <2>3. QED
    BY <1>4, <2>1, <2>2 DEF TypeOK, ForceSendFails
<1>5. QED
  BY <1>1, <1>2, <1>3, <1>4

LEMMA ReportTypes ==
  ASSUME TypeOK, NEW s \in Sessions,
         \/ \E j \in Jobs, op \in Reports : ReportBegin(s, op, j)
         \/ \E j \in Jobs : ExpireBegin(s, j)
         \/ \E j \in Jobs : ExpireFails(j)
  PROVE  TypeOK'
<1>1. ASSUME NEW j \in Jobs, NEW op \in Reports, ReportBegin(s, op, j) PROVE TypeOK'
  BY <1>1 DEF TypeOK, SessionsTyped, SessionType, ReportBegin, Target
<1>2. ASSUME NEW j \in Jobs, ExpireBegin(s, j) PROVE TypeOK'
  <2>1. CASE job[j] = "completed"
    <3>1. Start(s, "expire", j, "committing", "completed", "deleted")
      BY <1>2, <2>1 DEF ExpireBegin, Target
    <3>2. SessionsTyped'
      BY <3>1 DEF TypeOK, SessionsTyped, SessionType
    <3>3. QED
      BY <1>2, <3>2 DEF TypeOK, ExpireBegin
  <2>2. CASE job[j] # "completed"
    BY <1>2, <2>2 DEF TypeOK, SessionsTyped, ExpireBegin
  <2>3. QED
    BY <2>1, <2>2
<1>3. ASSUME NEW j \in Jobs, ExpireFails(j) PROVE TypeOK'
  BY <1>3 DEF TypeOK, SessionsTyped, SessionType, ExpireFails
<1>4. QED
  BY <1>1, <1>2, <1>3

LEMMA DequeueTypes ==
  ASSUME TypeOK, NEW s \in Sessions,
         \/ Flush(s) \/ FlushNothing(s) \/ Tally(s) \/ PickNone(s)
         \/ \E j \in Jobs : Pick(s, j)
         \/ PromoteSent(s) \/ PromoteSendFails(s)
  PROVE  TypeOK'
<1>1. CASE Flush(s)
  BY <1>1 DEF TypeOK, SessionsTyped, SessionType, Flush
<1>2. CASE FlushNothing(s)
  BY <1>2 DEF TypeOK, SessionsTyped, SessionType, FlushNothing
<1>3. CASE Tally(s)
  BY <1>3 DEF TypeOK, SessionsTyped, SessionType, Tally
<1>4. CASE PickNone(s)
  BY <1>4 DEF TypeOK, SessionsTyped, SessionType, PickNone
<1>5. ASSUME NEW j \in Jobs, Pick(s, j) PROVE TypeOK'
  BY <1>5 DEF TypeOK, SessionsTyped, SessionType, Pick
<1>6. CASE PromoteSent(s)
  BY <1>6 DEF TypeOK, SessionsTyped, SessionType, PromoteSent
<1>7. CASE PromoteSendFails(s)
  BY <1>7 DEF TypeOK, SessionsTyped, SessionType, PromoteSendFails
<1>8. QED
  BY <1>1, <1>2, <1>3, <1>4, <1>5, <1>6, <1>7

LEMMA EndTypes ==
  ASSUME TypeOK, NEW s \in Sessions, Commit(s) \/ SessionAborts(s) \/ Restart
  PROVE  TypeOK'
<1>1. CASE Commit(s)
  BY <1>1, WrittenIsStatus DEF TypeOK, SessionsTyped, SessionType, Commit
<1>2. CASE SessionAborts(s)
  BY <1>2 DEF TypeOK, SessionsTyped, SessionType, SessionAborts
<1>3. CASE Restart
  BY <1>3 DEF TypeOK, SessionsTyped, SessionType, Restart
<1>4. QED
  BY <1>1, <1>2, <1>3

\* One step, of session s where a session takes it.
Step(s) ==
  \/ \E j \in Jobs : CreateBegin(s, j)
  \/ CreateRefused(s)
  \/ CreateAdmitted(s)
  \/ CreateDecides(s)
  \/ CreateSent(s)
  \/ CreateSendFails(s)
  \/ \E j \in Jobs, op \in {"cancel", "force"} : CancelBegin(s, op, j)
  \/ CancelSent(s)
  \/ CancelSendFails(s)
  \/ ForceSendFails(s)
  \/ \E j \in Jobs, op \in Reports : ReportBegin(s, op, j)
  \/ \E j \in Jobs : ExpireBegin(s, j)
  \/ \E j \in Jobs : ExpireFails(j)
  \/ Flush(s)
  \/ FlushNothing(s)
  \/ Tally(s)
  \/ PickNone(s)
  \/ \E j \in Jobs : Pick(s, j)
  \/ PromoteSent(s)
  \/ PromoteSendFails(s)
  \/ Commit(s)
  \/ SessionAborts(s)
  \/ Restart

\* The operation of a session determines what it writes, at every step.
LEMMA OperationsKept ==
  ASSUME TypeOK, Operations, NEW s \in Sessions, Step(s)
  PROVE  Operations'
<1>1. ASSUME NEW j \in Jobs, CreateBegin(s, j) PROVE Operations'
  BY <1>1 DEF TypeOK, SessionsTyped, SessionType, Operations, CreatingPCs, CreateBegin
<1>2. CASE CreateRefused(s)
  BY <1>2 DEF TypeOK, SessionsTyped, SessionType, Operations, CreatingPCs, CreateRefused
<1>3. CASE CreateAdmitted(s)
  BY <1>3 DEF TypeOK, SessionsTyped, SessionType, Operations, CreatingPCs, CreateAdmitted
<1>4. CASE CreateDecides(s)
  BY <1>4 DEF TypeOK, SessionsTyped, SessionType, Operations, CreatingPCs, CreateDecides
<1>5. CASE CreateSent(s)
  BY <1>5 DEF TypeOK, SessionsTyped, SessionType, Operations, CreatingPCs, CreateSent
<1>6. CASE CreateSendFails(s)
  BY <1>6 DEF TypeOK, SessionsTyped, SessionType, Operations, CreatingPCs, CreateSendFails
<1>7. ASSUME NEW j \in Jobs, NEW op \in {"cancel", "force"},
             CancelBegin(s, op, j)
      PROVE Operations'
  BY <1>7 DEF TypeOK, SessionsTyped, SessionType, Operations, CreatingPCs, CancelBegin, Cancellable, Target
<1>8. CASE CancelSent(s)
  BY <1>8 DEF TypeOK, SessionsTyped, SessionType, Operations, CreatingPCs, CancelSent
<1>9. CASE CancelSendFails(s)
  BY <1>9 DEF TypeOK, SessionsTyped, SessionType, Operations, CreatingPCs, CancelSendFails
<1>10. CASE ForceSendFails(s)
  BY <1>10 DEF TypeOK, SessionsTyped, SessionType, Operations, CreatingPCs, ForceSendFails
<1>11. ASSUME NEW j \in Jobs, NEW op \in Reports, ReportBegin(s, op, j) PROVE Operations'
  BY <1>11 DEF TypeOK, SessionsTyped, SessionType, Operations, CreatingPCs, ReportBegin, Target
<1>12. ASSUME NEW j \in Jobs, ExpireBegin(s, j) PROVE Operations'
  BY <1>12 DEF TypeOK, SessionsTyped, SessionType, Operations, CreatingPCs, ExpireBegin, Target
<1>13. ASSUME NEW j \in Jobs, ExpireFails(j) PROVE Operations'
  BY <1>13 DEF TypeOK, SessionsTyped, SessionType, Operations, CreatingPCs, ExpireFails
<1>14. CASE Flush(s)
  BY <1>14 DEF TypeOK, SessionsTyped, SessionType, Operations, CreatingPCs, Flush
<1>15. CASE FlushNothing(s)
  BY <1>15 DEF TypeOK, SessionsTyped, SessionType, Operations, CreatingPCs, FlushNothing
<1>16. CASE Tally(s)
  BY <1>16 DEF TypeOK, SessionsTyped, SessionType, Operations, CreatingPCs, Tally
<1>17. CASE PickNone(s)
  BY <1>17 DEF TypeOK, SessionsTyped, SessionType, Operations, CreatingPCs, PickNone
<1>18. ASSUME NEW j \in Jobs, Pick(s, j) PROVE Operations'
  BY <1>18 DEF TypeOK, SessionsTyped, SessionType, Operations, CreatingPCs, Pick, Waiting, View
<1>19. CASE PromoteSent(s)
  <2>1. session[s].picked # Null
    BY <1>19, NullIsNothing DEF TypeOK, SessionsTyped, PromoteSent
  <2>2. QED
    BY <1>19, <2>1 DEF TypeOK, SessionsTyped, SessionType, Operations, CreatingPCs, PromoteSent
<1>20. CASE PromoteSendFails(s)
  BY <1>20 DEF TypeOK, SessionsTyped, SessionType, Operations, CreatingPCs, PromoteSendFails
<1>21. CASE Commit(s)
  BY <1>21 DEF TypeOK, SessionsTyped, SessionType, Operations, CreatingPCs, Commit, Written
<1>22. CASE SessionAborts(s)
  BY <1>22 DEF TypeOK, SessionsTyped, SessionType, Operations, CreatingPCs, SessionAborts
<1>23. CASE Restart
  BY <1>23 DEF TypeOK, SessionsTyped, SessionType, Operations, CreatingPCs, Restart
<1>24. QED
  BY <1>1, <1>2, <1>3, <1>4, <1>5, <1>6, <1>7, <1>8, <1>9, <1>10, <1>11, <1>12, <1>13, <1>14, <1>15, <1>16, <1>17, <1>18, <1>19, <1>20, <1>21, <1>22, <1>23 DEF Step

\* Nobody but the picker changes a picked job before the picker commits.
LEMMA PicksKept ==
  ASSUME TypeOK, Operations, Picks, Creations, NEW s \in Sessions, Step(s)
  PROVE  Picks'
<1>1. ASSUME NEW j \in Jobs, CreateBegin(s, j) PROVE Picks'
  BY <1>1, NullIsNothing DEF TypeOK, SessionsTyped, SessionType, Operations, Picks, Creations, CreatingPCs, CreateBegin
<1>2. CASE CreateRefused(s)
  BY <1>2, NullIsNothing DEF TypeOK, SessionsTyped, SessionType, Operations, Picks, Creations, CreatingPCs, CreateRefused
<1>3. CASE CreateAdmitted(s)
  BY <1>3, NullIsNothing DEF TypeOK, SessionsTyped, SessionType, Operations, Picks, Creations, CreatingPCs, CreateAdmitted
<1>4. CASE CreateDecides(s)
  BY <1>4, NullIsNothing DEF TypeOK, SessionsTyped, SessionType, Operations, Picks, Creations, CreatingPCs, CreateDecides
<1>5. CASE CreateSent(s)
  BY <1>5, NullIsNothing DEF TypeOK, SessionsTyped, SessionType, Operations, Picks, Creations, CreatingPCs, CreateSent
<1>6. CASE CreateSendFails(s)
  BY <1>6, NullIsNothing DEF TypeOK, SessionsTyped, SessionType, Operations, Picks, Creations, CreatingPCs, CreateSendFails
<1>7. ASSUME NEW j \in Jobs, NEW op \in {"cancel", "force"},
             CancelBegin(s, op, j)
      PROVE Picks'
  BY <1>7, NullIsNothing DEF TypeOK, SessionsTyped, SessionType, Operations, Picks, Creations, CreatingPCs, CancelBegin, Cancellable, Target
<1>8. CASE CancelSent(s)
  BY <1>8, NullIsNothing DEF TypeOK, SessionsTyped, SessionType, Operations, Picks, Creations, CreatingPCs, CancelSent
<1>9. CASE CancelSendFails(s)
  BY <1>9, NullIsNothing DEF TypeOK, SessionsTyped, SessionType, Operations, Picks, Creations, CreatingPCs, CancelSendFails
<1>10. CASE ForceSendFails(s)
  BY <1>10, NullIsNothing DEF TypeOK, SessionsTyped, SessionType, Operations, Picks, Creations, CreatingPCs, ForceSendFails
<1>11. ASSUME NEW j \in Jobs, NEW op \in Reports, ReportBegin(s, op, j) PROVE Picks'
  BY <1>11, NullIsNothing DEF TypeOK, SessionsTyped, SessionType, Operations, Picks, Creations, CreatingPCs, ReportBegin, Target
<1>12. ASSUME NEW j \in Jobs, ExpireBegin(s, j) PROVE Picks'
  BY <1>12, NullIsNothing DEF TypeOK, SessionsTyped, SessionType, Operations, Picks, Creations, CreatingPCs, ExpireBegin, Target
<1>13. ASSUME NEW j \in Jobs, ExpireFails(j) PROVE Picks'
  BY <1>13, NullIsNothing DEF TypeOK, SessionsTyped, SessionType, Operations, Picks, Creations, CreatingPCs, ExpireFails
<1>14. CASE Flush(s)
  BY <1>14, NullIsNothing DEF TypeOK, SessionsTyped, SessionType, Operations, Picks, Creations, CreatingPCs, Flush
<1>15. CASE FlushNothing(s)
  BY <1>15, NullIsNothing DEF TypeOK, SessionsTyped, SessionType, Operations, Picks, Creations, CreatingPCs, FlushNothing
<1>16. CASE Tally(s)
  BY <1>16, NullIsNothing DEF TypeOK, SessionsTyped, SessionType, Operations, Picks, Creations, CreatingPCs, Tally
<1>17. CASE PickNone(s)
  BY <1>17, NullIsNothing DEF TypeOK, SessionsTyped, SessionType, Operations, Picks, Creations, CreatingPCs, PickNone
<1>18. ASSUME NEW j \in Jobs, Pick(s, j) PROVE Picks'
  <2>1. session[s].op \in Ops \ {"create"} /\ session[s].new = Target[session[s].op]
    BY <1>18 DEF Operations, CreatingPCs, Pick
  <2>2. session[s].new # "queued"
    BY <2>1 DEF Target
  <2>3. job[j] = "queued" /\ Lockable(s, j)
    BY <1>18, <2>2 DEF Pick, Waiting, View
  <2>4. QED
    BY <1>18, <2>3, NullIsNothing DEF TypeOK, SessionsTyped, SessionType, Operations, Picks, Pick
<1>19. CASE PromoteSent(s)
  BY <1>19, NullIsNothing DEF TypeOK, SessionsTyped, SessionType, Operations, Picks, Creations, CreatingPCs, PromoteSent
<1>20. CASE PromoteSendFails(s)
  BY <1>20, NullIsNothing DEF TypeOK, SessionsTyped, SessionType, Operations, Picks, Creations, CreatingPCs, PromoteSendFails
<1>21. CASE Commit(s)
  BY <1>21, NullIsNothing DEF TypeOK, SessionsTyped, SessionType, Operations, Picks, Creations, CreatingPCs, Commit, Written
<1>22. CASE SessionAborts(s)
  BY <1>22, NullIsNothing DEF TypeOK, SessionsTyped, SessionType, Operations, Picks, Creations, CreatingPCs, SessionAborts
<1>23. CASE Restart
  BY <1>23, NullIsNothing DEF TypeOK, SessionsTyped, SessionType, Operations, Picks, Creations, CreatingPCs, Restart
<1>24. QED
  BY <1>1, <1>2, <1>3, <1>4, <1>5, <1>6, <1>7, <1>8, <1>9, <1>10, <1>11, <1>12, <1>13, <1>14, <1>15, <1>16, <1>17, <1>18, <1>19, <1>20, <1>21, <1>22, <1>23 DEF Step

\* A lock is taken by a session that goes on to its commit, and goes with it.
LEMMA HoldersKept ==
  ASSUME TypeOK, Operations, Picks, Holders, NEW s \in Sessions, Step(s)
  PROVE  Holders'
<1>1. ASSUME NEW j \in Jobs, CreateBegin(s, j) PROVE Holders'
  BY <1>1, NullIsNothing DEF TypeOK, SessionsTyped, SessionType, Picks, Holders, CreateBegin
<1>2. CASE CreateRefused(s)
  BY <1>2, NullIsNothing DEF TypeOK, SessionsTyped, SessionType, Picks, Holders, CreateRefused
<1>3. CASE CreateAdmitted(s)
  BY <1>3, NullIsNothing DEF TypeOK, SessionsTyped, SessionType, Picks, Holders, CreateAdmitted
<1>4. CASE CreateDecides(s)
  BY <1>4, NullIsNothing DEF TypeOK, SessionsTyped, SessionType, Picks, Holders, CreateDecides
<1>5. CASE CreateSent(s)
  BY <1>5, NullIsNothing DEF TypeOK, SessionsTyped, SessionType, Picks, Holders, CreateSent
<1>6. CASE CreateSendFails(s)
  BY <1>6, NullIsNothing DEF TypeOK, SessionsTyped, SessionType, Picks, Holders, CreateSendFails
<1>7. ASSUME NEW j \in Jobs, NEW op \in {"cancel", "force"},
             CancelBegin(s, op, j)
      PROVE Holders'
  BY <1>7, NullIsNothing DEF TypeOK, SessionsTyped, SessionType, Picks, Holders, CancelBegin, Cancellable, Target
<1>8. CASE CancelSent(s)
  BY <1>8, NullIsNothing DEF TypeOK, SessionsTyped, SessionType, Picks, Holders, CancelSent
<1>9. CASE CancelSendFails(s)
  BY <1>9, NullIsNothing DEF TypeOK, SessionsTyped, SessionType, Picks, Holders, CancelSendFails
<1>10. CASE ForceSendFails(s)
  BY <1>10, NullIsNothing DEF TypeOK, SessionsTyped, SessionType, Picks, Holders, ForceSendFails
<1>11. ASSUME NEW j \in Jobs, NEW op \in Reports, ReportBegin(s, op, j) PROVE Holders'
  BY <1>11, NullIsNothing DEF TypeOK, SessionsTyped, SessionType, Picks, Holders, ReportBegin, Target
<1>12. ASSUME NEW j \in Jobs, ExpireBegin(s, j) PROVE Holders'
  BY <1>12, NullIsNothing DEF TypeOK, SessionsTyped, SessionType, Picks, Holders, ExpireBegin, Target
<1>13. ASSUME NEW j \in Jobs, ExpireFails(j) PROVE Holders'
  BY <1>13, NullIsNothing DEF TypeOK, SessionsTyped, SessionType, Picks, Holders, ExpireFails
<1>14. CASE Flush(s)
  BY <1>14, NullIsNothing DEF TypeOK, SessionsTyped, SessionType, Picks, Holders, Flush
<1>15. CASE FlushNothing(s)
  BY <1>15, NullIsNothing DEF TypeOK, SessionsTyped, SessionType, Picks, Holders, FlushNothing
<1>16. CASE Tally(s)
  BY <1>16, NullIsNothing DEF TypeOK, SessionsTyped, SessionType, Picks, Holders, Tally
<1>17. CASE PickNone(s)
  BY <1>17, NullIsNothing DEF TypeOK, SessionsTyped, SessionType, Picks, Holders, PickNone
<1>18. ASSUME NEW j \in Jobs, Pick(s, j) PROVE Holders'
  BY <1>18, NullIsNothing DEF TypeOK, SessionsTyped, SessionType, Picks, Holders, Pick, Waiting, View
<1>19. CASE PromoteSent(s)
  BY <1>19, NullIsNothing DEF TypeOK, SessionsTyped, SessionType, Picks, Holders, PromoteSent
<1>20. CASE PromoteSendFails(s)
  BY <1>20, NullIsNothing DEF TypeOK, SessionsTyped, SessionType, Picks, Holders, PromoteSendFails
<1>21. CASE Commit(s)
  BY <1>21, NullIsNothing DEF TypeOK, SessionsTyped, SessionType, Picks, Holders, Commit, Written
<1>22. CASE SessionAborts(s)
  BY <1>22, NullIsNothing DEF TypeOK, SessionsTyped, SessionType, Picks, Holders, SessionAborts
<1>23. CASE Restart
  BY <1>23, NullIsNothing DEF TypeOK, SessionsTyped, SessionType, Picks, Holders, Restart
<1>24. QED
  BY <1>1, <1>2, <1>3, <1>4, <1>5, <1>6, <1>7, <1>8, <1>9, <1>10, <1>11, <1>12, <1>13, <1>14, <1>15, <1>16, <1>17, <1>18, <1>19, <1>20, <1>21, <1>22, <1>23 DEF Step

\* A job is untouched until its creation begins.
LEMMA UnbornKept ==
  ASSUME TypeOK, Operations, Picks, Unborn, NEW s \in Sessions, Step(s)
  PROVE  Unborn'
<1>1. ASSUME NEW j \in Jobs, CreateBegin(s, j) PROVE Unborn'
  <2>1. Cardinality({k \in Jobs : born[k] > 0}) \in Nat
    BY JobsFinite, FS_Subset, FS_CardinalityType
  <2>2. QED
    BY <1>1, <2>1, NullIsNothing DEF TypeOK, SessionsTyped, SessionType, Unborn, CreateBegin
<1>2. CASE CreateRefused(s)
  BY <1>2, NullIsNothing DEF TypeOK, SessionsTyped, SessionType, Operations, Picks, Unborn, CreatingPCs, CreateRefused
<1>3. CASE CreateAdmitted(s)
  BY <1>3, NullIsNothing DEF TypeOK, SessionsTyped, SessionType, Operations, Picks, Unborn, CreatingPCs, CreateAdmitted
<1>4. CASE CreateDecides(s)
  BY <1>4, NullIsNothing DEF TypeOK, SessionsTyped, SessionType, Operations, Picks, Unborn, CreatingPCs, CreateDecides
<1>5. CASE CreateSent(s)
  BY <1>5, NullIsNothing DEF TypeOK, SessionsTyped, SessionType, Operations, Picks, Unborn, CreatingPCs, CreateSent
<1>6. CASE CreateSendFails(s)
  BY <1>6, NullIsNothing DEF TypeOK, SessionsTyped, SessionType, Operations, Picks, Unborn, CreatingPCs, CreateSendFails
<1>7. ASSUME NEW j \in Jobs, NEW op \in {"cancel", "force"},
             CancelBegin(s, op, j)
      PROVE Unborn'
  BY <1>7, NullIsNothing DEF TypeOK, SessionsTyped, SessionType, Operations, Picks, Unborn, CreatingPCs, CancelBegin, Cancellable, Target
<1>8. CASE CancelSent(s)
  BY <1>8, NullIsNothing DEF TypeOK, SessionsTyped, SessionType, Operations, Picks, Unborn, CreatingPCs, CancelSent
<1>9. CASE CancelSendFails(s)
  BY <1>9, NullIsNothing DEF TypeOK, SessionsTyped, SessionType, Operations, Picks, Unborn, CreatingPCs, CancelSendFails
<1>10. CASE ForceSendFails(s)
  BY <1>10, NullIsNothing DEF TypeOK, SessionsTyped, SessionType, Operations, Picks, Unborn, CreatingPCs, ForceSendFails
<1>11. ASSUME NEW j \in Jobs, NEW op \in Reports, ReportBegin(s, op, j) PROVE Unborn'
  BY <1>11, NullIsNothing DEF TypeOK, SessionsTyped, SessionType, Operations, Picks, Unborn, CreatingPCs, ReportBegin, Target
<1>12. ASSUME NEW j \in Jobs, ExpireBegin(s, j) PROVE Unborn'
  BY <1>12, NullIsNothing DEF TypeOK, SessionsTyped, SessionType, Operations, Picks, Unborn, CreatingPCs, ExpireBegin, Target
<1>13. ASSUME NEW j \in Jobs, ExpireFails(j) PROVE Unborn'
  BY <1>13, NullIsNothing DEF TypeOK, SessionsTyped, SessionType, Operations, Picks, Unborn, CreatingPCs, ExpireFails
<1>14. CASE Flush(s)
  BY <1>14, NullIsNothing DEF TypeOK, SessionsTyped, SessionType, Operations, Picks, Unborn, CreatingPCs, Flush
<1>15. CASE FlushNothing(s)
  BY <1>15, NullIsNothing DEF TypeOK, SessionsTyped, SessionType, Operations, Picks, Unborn, CreatingPCs, FlushNothing
<1>16. CASE Tally(s)
  BY <1>16, NullIsNothing DEF TypeOK, SessionsTyped, SessionType, Operations, Picks, Unborn, CreatingPCs, Tally
<1>17. CASE PickNone(s)
  BY <1>17, NullIsNothing DEF TypeOK, SessionsTyped, SessionType, Operations, Picks, Unborn, CreatingPCs, PickNone
<1>18. ASSUME NEW j \in Jobs, Pick(s, j) PROVE Unborn'
  BY <1>18, NullIsNothing DEF TypeOK, SessionsTyped, SessionType, Operations, Picks, Unborn, CreatingPCs, Pick, Waiting, View
<1>19. CASE PromoteSent(s)
  BY <1>19, NullIsNothing DEF TypeOK, SessionsTyped, SessionType, Operations, Picks, Unborn, CreatingPCs, PromoteSent
<1>20. CASE PromoteSendFails(s)
  BY <1>20, NullIsNothing DEF TypeOK, SessionsTyped, SessionType, Operations, Picks, Unborn, CreatingPCs, PromoteSendFails
<1>21. CASE Commit(s)
  BY <1>21, NullIsNothing DEF TypeOK, SessionsTyped, SessionType, Operations, Picks, Unborn, CreatingPCs, Commit, Written
<1>22. CASE SessionAborts(s)
  BY <1>22, NullIsNothing DEF TypeOK, SessionsTyped, SessionType, Operations, Picks, Unborn, CreatingPCs, SessionAborts
<1>23. CASE Restart
  BY <1>23, NullIsNothing DEF TypeOK, SessionsTyped, SessionType, Operations, Picks, Unborn, CreatingPCs, Restart
<1>24. QED
  BY <1>1, <1>2, <1>3, <1>4, <1>5, <1>6, <1>7, <1>8, <1>9, <1>10, <1>11, <1>12, <1>13, <1>14, <1>15, <1>16, <1>17, <1>18, <1>19, <1>20, <1>21, <1>22, <1>23 DEF Step

\* While a job is being created only its creator works on it.
LEMMA CreationsKept ==
  ASSUME TypeOK, Operations, Picks, Unborn, Creations, NEW s \in Sessions, Step(s)
  PROVE  Creations'
<1>1. ASSUME NEW j \in Jobs, CreateBegin(s, j) PROVE Creations'
  BY <1>1, NullIsNothing DEF TypeOK, SessionsTyped, SessionType, Operations, Picks, Unborn, Creations, CreatingPCs, CreateBegin
<1>2. CASE CreateRefused(s)
  BY <1>2, NullIsNothing DEF TypeOK, SessionsTyped, SessionType, Operations, Picks, Unborn, Creations, CreatingPCs, CreateRefused
<1>3. CASE CreateAdmitted(s)
  BY <1>3, NullIsNothing DEF TypeOK, SessionsTyped, SessionType, Operations, Picks, Unborn, Creations, CreatingPCs, CreateAdmitted
<1>4. CASE CreateDecides(s)
  <2>1. /\ session[s].pc = "counting"
        /\ UNCHANGED <<job, lock, born, creates, told, ttl, faults>>
    BY <1>4 DEF CreateDecides
  <2>2. session[s].op = "create" /\ session[s].job \in Jobs
    BY <2>1 DEF TypeOK, SessionsTyped, Operations, CreatingPCs
  <2>3. CASE Start(s, "create", session[s].job, "committing", "none", "queued")
    BY <2>1, <2>2, <2>3 DEF TypeOK, SessionsTyped, SessionType, Creations, CreatingPCs
  <2>4. CASE Start(s, "create", session[s].job, "sending", "none", "pending")
    BY <2>1, <2>2, <2>4 DEF TypeOK, SessionsTyped, SessionType, Creations, CreatingPCs
  <2>5. QED
    BY <1>4, <2>3, <2>4 DEF CreateDecides
<1>5. CASE CreateSent(s)
  BY <1>5, NullIsNothing DEF TypeOK, SessionsTyped, SessionType, Operations, Picks, Unborn, Creations, CreatingPCs, CreateSent
<1>6. CASE CreateSendFails(s)
  BY <1>6, NullIsNothing DEF TypeOK, SessionsTyped, SessionType, Operations, Picks, Unborn, Creations, CreatingPCs, CreateSendFails
<1>7. ASSUME NEW j \in Jobs, NEW op \in {"cancel", "force"},
             CancelBegin(s, op, j)
      PROVE Creations'
  BY <1>7, NullIsNothing DEF TypeOK, SessionsTyped, SessionType, Operations, Picks, Unborn, Creations, CreatingPCs, CancelBegin, Cancellable, Target
<1>8. CASE CancelSent(s)
  BY <1>8, NullIsNothing DEF TypeOK, SessionsTyped, SessionType, Operations, Picks, Unborn, Creations, CreatingPCs, CancelSent
<1>9. CASE CancelSendFails(s)
  BY <1>9, NullIsNothing DEF TypeOK, SessionsTyped, SessionType, Operations, Picks, Unborn, Creations, CreatingPCs, CancelSendFails
<1>10. CASE ForceSendFails(s)
  BY <1>10, NullIsNothing DEF TypeOK, SessionsTyped, SessionType, Operations, Picks, Unborn, Creations, CreatingPCs, ForceSendFails
<1>11. ASSUME NEW j \in Jobs, NEW op \in Reports, ReportBegin(s, op, j) PROVE Creations'
  BY <1>11, NullIsNothing DEF TypeOK, SessionsTyped, SessionType, Operations, Picks, Unborn, Creations, CreatingPCs, ReportBegin, Target
<1>12. ASSUME NEW j \in Jobs, ExpireBegin(s, j) PROVE Creations'
  BY <1>12, NullIsNothing DEF TypeOK, SessionsTyped, SessionType, Operations, Picks, Unborn, Creations, CreatingPCs, ExpireBegin, Target
<1>13. ASSUME NEW j \in Jobs, ExpireFails(j) PROVE Creations'
  BY <1>13, NullIsNothing DEF TypeOK, SessionsTyped, SessionType, Operations, Picks, Unborn, Creations, CreatingPCs, ExpireFails
<1>14. CASE Flush(s)
  BY <1>14, NullIsNothing DEF TypeOK, SessionsTyped, SessionType, Operations, Picks, Unborn, Creations, CreatingPCs, Flush
<1>15. CASE FlushNothing(s)
  BY <1>15, NullIsNothing DEF TypeOK, SessionsTyped, SessionType, Operations, Picks, Unborn, Creations, CreatingPCs, FlushNothing
<1>16. CASE Tally(s)
  BY <1>16, NullIsNothing DEF TypeOK, SessionsTyped, SessionType, Operations, Picks, Unborn, Creations, CreatingPCs, Tally
<1>17. CASE PickNone(s)
  BY <1>17, NullIsNothing DEF TypeOK, SessionsTyped, SessionType, Operations, Picks, Unborn, Creations, CreatingPCs, PickNone
<1>18. ASSUME NEW j \in Jobs, Pick(s, j) PROVE Creations'
  BY <1>18, NullIsNothing DEF TypeOK, SessionsTyped, SessionType, Operations, Picks, Unborn, Creations, CreatingPCs, Pick, Waiting, View
<1>19. CASE PromoteSent(s)
  BY <1>19, NullIsNothing DEF TypeOK, SessionsTyped, SessionType, Operations, Picks, Unborn, Creations, CreatingPCs, PromoteSent
<1>20. CASE PromoteSendFails(s)
  BY <1>20, NullIsNothing DEF TypeOK, SessionsTyped, SessionType, Operations, Picks, Unborn, Creations, CreatingPCs, PromoteSendFails
<1>21. CASE Commit(s)
  BY <1>21, NullIsNothing DEF TypeOK, SessionsTyped, SessionType, Operations, Picks, Unborn, Creations, CreatingPCs, Commit, Written
<1>22. CASE SessionAborts(s)
  BY <1>22, NullIsNothing DEF TypeOK, SessionsTyped, SessionType, Operations, Picks, Unborn, Creations, CreatingPCs, SessionAborts
<1>23. CASE Restart
  BY <1>23, NullIsNothing DEF TypeOK, SessionsTyped, SessionType, Operations, Picks, Unborn, Creations, CreatingPCs, Restart
<1>24. QED
  BY <1>1, <1>2, <1>3, <1>4, <1>5, <1>6, <1>7, <1>8, <1>9, <1>10, <1>11, <1>12, <1>13, <1>14, <1>15, <1>16, <1>17, <1>18, <1>19, <1>20, <1>21, <1>22, <1>23 DEF Step

\* A job.create goes out only for a job that had none, but for faults.
LEMMA DispatchesKept ==
  ASSUME TypeOK, Operations, Picks, Creations, Dispatches, NEW s \in Sessions, Step(s)
  PROVE  Dispatches'
<1>1. ASSUME NEW j \in Jobs, CreateBegin(s, j) PROVE Dispatches'
  BY <1>1, NullIsNothing DEF TypeOK, SessionsTyped, SessionType, Operations, Picks, Creations, CreatingPCs, Dispatches, Handed, CreateBegin
<1>2. CASE CreateRefused(s)
  BY <1>2, NullIsNothing DEF TypeOK, SessionsTyped, SessionType, Operations, Picks, Creations, CreatingPCs, Dispatches, Handed, CreateRefused
<1>3. CASE CreateAdmitted(s)
  BY <1>3, NullIsNothing DEF TypeOK, SessionsTyped, SessionType, Operations, Picks, Creations, CreatingPCs, Dispatches, Handed, CreateAdmitted
<1>4. CASE CreateDecides(s)
  BY <1>4, NullIsNothing DEF TypeOK, SessionsTyped, SessionType, Operations, Picks, Creations, CreatingPCs, Dispatches, Handed, CreateDecides
<1>5. CASE CreateSent(s)
  BY <1>5, NullIsNothing DEF TypeOK, SessionsTyped, SessionType, Operations, Picks, Creations, CreatingPCs, Dispatches, Handed, CreateSent
<1>6. CASE CreateSendFails(s)
  BY <1>6, NullIsNothing DEF TypeOK, SessionsTyped, SessionType, Operations, Picks, Creations, CreatingPCs, Dispatches, Handed, CreateSendFails
<1>7. ASSUME NEW j \in Jobs, NEW op \in {"cancel", "force"},
             CancelBegin(s, op, j)
      PROVE Dispatches'
  BY <1>7, NullIsNothing DEF TypeOK, SessionsTyped, SessionType, Operations, Picks, Creations, CreatingPCs, Dispatches, Handed, CancelBegin, Cancellable, Target
<1>8. CASE CancelSent(s)
  BY <1>8, NullIsNothing DEF TypeOK, SessionsTyped, SessionType, Operations, Picks, Creations, CreatingPCs, Dispatches, Handed, CancelSent
<1>9. CASE CancelSendFails(s)
  BY <1>9, NullIsNothing DEF TypeOK, SessionsTyped, SessionType, Operations, Picks, Creations, CreatingPCs, Dispatches, Handed, CancelSendFails
<1>10. CASE ForceSendFails(s)
  BY <1>10, NullIsNothing DEF TypeOK, SessionsTyped, SessionType, Operations, Picks, Creations, CreatingPCs, Dispatches, Handed, ForceSendFails
<1>11. ASSUME NEW j \in Jobs, NEW op \in Reports, ReportBegin(s, op, j) PROVE Dispatches'
  BY <1>11, NullIsNothing DEF TypeOK, SessionsTyped, SessionType, Operations, Picks, Creations, CreatingPCs, Dispatches, Handed, ReportBegin, Target
<1>12. ASSUME NEW j \in Jobs, ExpireBegin(s, j) PROVE Dispatches'
  BY <1>12, NullIsNothing DEF TypeOK, SessionsTyped, SessionType, Operations, Picks, Creations, CreatingPCs, Dispatches, Handed, ExpireBegin, Target
<1>13. ASSUME NEW j \in Jobs, ExpireFails(j) PROVE Dispatches'
  BY <1>13, NullIsNothing DEF TypeOK, SessionsTyped, SessionType, Operations, Picks, Creations, CreatingPCs, Dispatches, Handed, ExpireFails
<1>14. CASE Flush(s)
  BY <1>14, NullIsNothing DEF TypeOK, SessionsTyped, SessionType, Operations, Picks, Creations, CreatingPCs, Dispatches, Handed, Flush
<1>15. CASE FlushNothing(s)
  BY <1>15, NullIsNothing DEF TypeOK, SessionsTyped, SessionType, Operations, Picks, Creations, CreatingPCs, Dispatches, Handed, FlushNothing
<1>16. CASE Tally(s)
  BY <1>16, NullIsNothing DEF TypeOK, SessionsTyped, SessionType, Operations, Picks, Creations, CreatingPCs, Dispatches, Handed, Tally
<1>17. CASE PickNone(s)
  BY <1>17, NullIsNothing DEF TypeOK, SessionsTyped, SessionType, Operations, Picks, Creations, CreatingPCs, Dispatches, Handed, PickNone
<1>18. ASSUME NEW j \in Jobs, Pick(s, j) PROVE Dispatches'
  BY <1>18, NullIsNothing DEF TypeOK, SessionsTyped, SessionType, Operations, Picks, Creations, CreatingPCs, Dispatches, Handed, Pick, Waiting, View
<1>19. CASE PromoteSent(s)
  BY <1>19, NullIsNothing DEF TypeOK, SessionsTyped, SessionType, Operations, Picks, Creations, CreatingPCs, Dispatches, Handed, PromoteSent
<1>20. CASE PromoteSendFails(s)
  BY <1>20, NullIsNothing DEF TypeOK, SessionsTyped, SessionType, Operations, Picks, Creations, CreatingPCs, Dispatches, Handed, PromoteSendFails
<1>21. CASE Commit(s)
  <2>1. SUFFICES ASSUME NEW j \in Jobs
                PROVE  /\ creates[j] <= 1 + faults
                       /\ job'[j] = "queued" /\ ~Handed(j)' => creates[j] <= faults
    BY <1>21 DEF Commit, Dispatches
  <2>2. creates[j] <= 1 + faults
    BY DEF Dispatches
  <2>3. ASSUME job'[j] = "queued", ~Handed(j)' PROVE creates[j] <= faults
    <3>1. CASE job[j] # "queued"
      <4>1. j = session[s].job /\ session[s].new = "queued"
        BY <1>21, <2>3, <3>1 DEF Commit, Written
      <4>2. session[s].op = "create"
        BY <1>21, <4>1 DEF Operations, Target, Commit
      <4>3. creates[j] = 0
        BY <1>21, <4>1, <4>2 DEF Creations, Commit
      <4>4. QED
        BY <4>3 DEF TypeOK
    <3>2. CASE job[j] = "queued"
      <4>1. ~(session[s].picked = j /\ session[s].promote)
        BY <1>21, <2>3 DEF Commit, Written
      <4>2. ~Handed(j)
        BY <1>21, <2>3, <4>1 DEF Handed, Commit, TypeOK, SessionsTyped
      <4>3. QED
        BY <3>2, <4>2 DEF Dispatches
    <3>3. QED
      BY <3>1, <3>2
  <2>4. QED
    BY <2>2, <2>3
<1>22. CASE SessionAborts(s)
  BY <1>22, NullIsNothing DEF TypeOK, SessionsTyped, SessionType, Operations, Picks, Creations, CreatingPCs, Dispatches, Handed, SessionAborts
<1>23. CASE Restart
  BY <1>23, NullIsNothing DEF TypeOK, SessionsTyped, SessionType, Operations, Picks, Creations, CreatingPCs, Dispatches, Handed, Restart
<1>24. QED
  BY <1>1, <1>2, <1>3, <1>4, <1>5, <1>6, <1>7, <1>8, <1>9, <1>10, <1>11, <1>12, <1>13, <1>14, <1>15, <1>16, <1>17, <1>18, <1>19, <1>20, <1>21, <1>22, <1>23 DEF Step

-----------------------------------------------------------------------------
(* The theorems.                                                           *)

\* Every step of Next is a step of some session, as far as there is one.
LEMMA NextIsStep ==
  ASSUME Next, NEW t \in Sessions
  PROVE  \E s \in Sessions : Step(s)
BY DEF Next, Arrival, SessionStep, Step, Reports

\* Without sessions nothing but expiries and restarts could happen.
LEMMA NoSessions ==
  ASSUME IInv, Next, Sessions = {}
  PROVE  IInv'
<1>1. (\E j \in Jobs : ExpireFails(j)) \/ Restart
  BY DEF Next, Arrival
<1>2. /\ UNCHANGED <<job, born, creates, stale>> /\ session' \in [Sessions -> SessionType]
      /\ lock' \in [Jobs -> Sessions \cup {Null}] /\ told' = told
      /\ ttl' \subseteq Jobs /\ faults' = faults + 1
      /\ \A j \in Jobs : lock'[j] = Null
  BY <1>1 DEF IInv, TypeOK, SessionsTyped, ExpireFails, Restart
<1>3. TypeOK'
  BY <1>2 DEF IInv, TypeOK, SessionsTyped
<1>4. Operations' /\ Picks' /\ Holders' /\ Unborn' /\ Creations'
  BY <1>2 DEF IInv, Operations, Picks, Holders, Unborn, Creations
<1>5. Dispatches'
  BY <1>2 DEF IInv, TypeOK, Dispatches, Handed
<1>6. QED
  BY <1>3, <1>4, <1>5 DEF IInv

LEMMA StepTypes ==
  ASSUME TypeOK, NEW s \in Sessions, Step(s)
  PROVE  TypeOK'
BY CreateTypes, CancelTypes, ReportTypes, DequeueTypes, EndTypes DEF Step

LEMMA NextHolds == IInv /\ [Next]_vars => IInv'
<1>1. SUFFICES ASSUME IInv, [Next]_vars PROVE IInv'
  OBVIOUS
<1>2. CASE UNCHANGED vars
  BY <1>1, <1>2
  DEF vars, IInv, TypeOK, SessionsTyped, SessionType, Operations, Picks, Holders,
      Unborn, Creations, Dispatches, Handed
<1>3. CASE Next /\ Sessions = {}
  BY <1>1, <1>3, NoSessions
<1>4. ASSUME Next, NEW t \in Sessions PROVE IInv'
  <2>1. PICK s \in Sessions : Step(s)
    BY <1>4, NextIsStep
  <2>2. QED
    BY <1>1, <2>1, StepTypes, OperationsKept, PicksKept, HoldersKept, UnbornKept,
       CreationsKept, DispatchesKept DEF IInv
<1>5. QED
  BY <1>1, <1>2, <1>3, <1>4

THEOREM Invariance == Spec => []IInv
BY InitHolds, NextHolds, PTL DEF Spec

\* Every reachable state of the job table and its sessions is well typed.
THEOREM TypeCorrect == Spec => []TypeOK
<1>1. IInv => TypeOK
  BY DEF IInv
<1>2. QED
  BY <1>1, Invariance, PTL

\* Row locks and sessions agree: iran/api/jobs.py relies on FOR UPDATE SKIP
\* LOCKED to keep two terminal transitions off the same queued job.
THEOREM LocksCorrect == Spec => []LocksHeld
<1>1. IInv => LocksHeld
  BY DEF IInv, Picks, Holders, LocksHeld
<1>2. QED
  BY <1>1, Invariance, PTL

\* _maybe_dequeue_next_job and create_job ask the worker to run a job once, up
\* to what failed sends, aborted sessions and restarts account for.
THEOREM SingleDispatch == Spec => []CreatesOnlyByFault
<1>1. IInv => CreatesOnlyByFault
  BY DEF IInv, Dispatches, CreatesOnlyByFault
<1>2. QED
  BY <1>1, Invariance, PTL

LEMMA PromotionStep ==
  ASSUME IInv, Next, NEW j \in Jobs, job[j] # "pending", job'[j] = "pending"
  PROVE  job[j] = "none" \/ (job[j] = "queued" /\ creates[j] > 0)
<1>1. PICK s \in Sessions : Commit(s)
  BY DEF Next, Arrival, CreateBegin, CancelBegin, ReportBegin, ExpireBegin,
     SessionStep, CreateRefused, CreateAdmitted, CreateDecides, CreateSent,
     CreateSendFails, CancelSent, CancelSendFails, ForceSendFails, Flush,
     FlushNothing, Tally, PickNone, Pick, PromoteSent, PromoteSendFails,
     ExpireFails, SessionAborts, Restart
<1>2. job'[j] = Written(s, j)
  BY <1>1 DEF Commit
<1>3. CASE j = session[s].picked /\ session[s].promote
  BY <1>3, NullIsNothing DEF IInv, Picks
<1>4. CASE j = session[s].job /\ session[s].new = "pending"
  <2>1. session[s].op = "create" /\ Open(s)
    BY <1>1, <1>4 DEF IInv, Operations, Target, Commit
  <2>2. QED
    BY <1>4, <2>1 DEF IInv, Creations
<1>5. QED
  BY <1>2, <1>3, <1>4 DEF Written

\* A promotion committed by _maybe_dequeue_next_job never overwrites what was
\* made of the job while the send was awaited, and follows that send.
THEOREM PromotionSound == Spec => PromotionFollowsDispatch
<1>1. IInv /\ [Next]_vars =>
        [\A j \in Jobs : job[j] # "pending" /\ job'[j] = "pending" =>
           job[j] = "none" \/ (job[j] = "queued" /\ creates[j] > 0)]_vars
  BY PromotionStep
<1>2. QED
  BY <1>1, Invariance, PTL DEF Spec, PromotionFollowsDispatch

LEMMA RevivalStep ==
  ASSUME IInv, Next, NEW j \in Jobs, job[j] \in Terminal, job'[j] \in Active
  PROVE  \E s \in Sessions : session[s].job = j /\ session[s].op \in {"accepted", "progress"}
<1>1. PICK s \in Sessions : Commit(s)
  BY DEF Next, Arrival, CreateBegin, CancelBegin, ReportBegin, ExpireBegin,
     SessionStep, CreateRefused, CreateAdmitted, CreateDecides, CreateSent,
     CreateSendFails, CancelSent, CancelSendFails, ForceSendFails, Flush,
     FlushNothing, Tally, PickNone, Pick, PromoteSent, PromoteSendFails,
     ExpireFails, SessionAborts, Restart
<1>2. job'[j] = Written(s, j) /\ Open(s)
  BY <1>1 DEF Commit
<1>3. ~(j = session[s].picked /\ session[s].promote)
  BY NullIsNothing DEF IInv, Picks
<1>4. j = session[s].job /\ session[s].new \in Active
  BY <1>2, <1>3 DEF Written
<1>5. session[s].op # "create"
  BY <1>2, <1>4 DEF IInv, Creations
<1>6. session[s].op \in {"accepted", "progress"}
  BY <1>2, <1>4, <1>5 DEF IInv, Operations, Target
<1>7. QED
  BY <1>4, <1>6

\* on_job_accepted and on_job_progress are the only code by which a finished
\* job becomes active again.
THEOREM OnlyReportsRevive == Spec => RevivedByReports
<1>1. IInv /\ [Next]_vars =>
        [\A j \in Jobs : job[j] \in Terminal /\ job'[j] \in Active =>
           \E s \in Sessions : session[s].job = j
                               /\ session[s].op \in {"accepted", "progress"}]_vars
  BY RevivalStep
<1>2. QED
  BY <1>1, Invariance, PTL DEF Spec, RevivedByReports

-----------------------------------------------------------------------------
(* The status and what the worker was given.                               *)

Given == Dispatched \cup {"completed", "failed", "deleted"}

\* Without faults the worker was given every job that counts as dispatched or
\* finished, and every job that a session is about to write so.
Sent ==
  faults = 0 =>
    /\ \A j \in Jobs : job[j] \in Given => creates[j] > 0
    /\ \A s \in Sessions :
         /\ Open(s) /\ session[s].op \in Reports \cup {"expire"} => creates[session[s].job] > 0
         /\ session[s].pc = "committing" /\ session[s].new = "pending" => creates[session[s].job] > 0

LEMMA SentStart == Init => Sent
BY DEF Init, Sent, Given

\* The rows stay; no session comes to work on a job that the worker was not
\* given.
LEMMA SentAnyway ==
  ASSUME TypeOK, TypeOK', Sent, UNCHANGED job, faults' >= faults,
         \A j \in Jobs : creates'[j] >= creates[j],
         \A s \in Sessions :
           \/ ~Open(s)'
           \/ /\ Open(s) /\ session'[s].job = session[s].job
              /\ session'[s].op = session[s].op /\ session'[s].new = session[s].new
              /\ session[s].pc = "committing" \/ session'[s].pc # "committing" \/ session[s].new # "pending"
           \/ /\ session'[s].job \in Jobs
              /\ session'[s].op \in Reports \cup {"expire"} => creates[session'[s].job] > 0
              /\ session'[s].pc = "committing" => session'[s].new # "pending"
  PROVE  Sent'
<1> SUFFICES ASSUME faults' = 0 PROVE Sent'
  BY DEF Sent
<1>1. faults = 0
  BY DEF TypeOK
<1>2. \A j \in Jobs : creates[j] \in Nat /\ creates'[j] \in Nat
  BY DEF TypeOK
<1>3. ASSUME NEW j \in Jobs, job'[j] \in Given PROVE creates'[j] > 0
  BY <1>1, <1>2, <1>3 DEF Sent
<1>4. ASSUME NEW s \in Sessions
      PROVE  /\ Open(s)' /\ session'[s].op \in Reports \cup {"expire"} => creates'[session'[s].job] > 0
             /\ session'[s].pc = "committing" /\ session'[s].new = "pending" => creates'[session'[s].job] > 0
  <2>1. Open(s) => session[s].job \in Jobs
    BY DEF TypeOK, SessionsTyped
  <2> QED
    BY <1>1, <1>2, <2>1 DEF Sent
<1> QED
  BY <1>3, <1>4 DEF Sent

LEMMA SentCommit ==
  ASSUME IInv, TypeOK', Sent, NEW s \in Sessions, Commit(s)
  PROVE  Sent'
<1> SUFFICES ASSUME faults' = 0 PROVE Sent'
  BY DEF Sent
<1>1. faults = 0 /\ UNCHANGED creates /\ session[s].pc = "committing"
  BY DEF Commit
<1>2. session[s].job \in Jobs /\ Open(s)
  BY <1>1 DEF IInv, TypeOK, SessionsTyped
<1>3. ASSUME NEW j \in Jobs, job'[j] \in Given PROVE creates'[j] > 0
  <2>1. job'[j] = Written(s, j)
    BY DEF Commit
  <2>2. CASE j = session[s].picked /\ session[s].promote
    BY <1>1, <2>2, NullIsNothing DEF IInv, Picks
  <2>3. CASE j = session[s].job /\ session[s].new \in Given
    <3>1. CASE session[s].op = "create"
      <4>1. session[s].new = "pending"
        BY <2>3, <3>1 DEF IInv, Operations, Given
      <4> QED
        BY <1>1, <2>3, <4>1 DEF Sent
    <3>2. CASE session[s].op # "create"
      <4>1. session[s].op \in Reports \cup {"expire"}
        BY <1>2, <2>3, <3>2 DEF IInv, Operations, Target, Given
      <4> QED
        BY <1>1, <1>2, <2>3, <4>1 DEF Sent
    <3> QED
      BY <3>1, <3>2
  <2>4. CASE job[j] \in Given
    BY <1>1, <2>4 DEF Sent
  <2> QED
    BY <1>3, <2>1, <2>2, <2>3, <2>4 DEF Written
<1>4. session' = [session EXCEPT ![s] = Idle]
  BY DEF Commit
<1>5. ASSUME NEW t \in Sessions
      PROVE  /\ Open(t)' /\ session'[t].op \in Reports \cup {"expire"} => creates'[session'[t].job] > 0
             /\ session'[t].pc = "committing" /\ session'[t].new = "pending" => creates'[session'[t].job] > 0
  <2>1. CASE t = s
    BY <1>4, <2>1 DEF IInv, TypeOK, SessionsTyped
  <2>2. CASE t # s
    <3>1. session'[t] = session[t]
      BY <1>4, <2>2 DEF IInv, TypeOK, SessionsTyped
    <3> QED
      BY <1>1, <3>1 DEF Sent
  <2> QED
    BY <2>1, <2>2
<1> QED
  BY <1>3, <1>5 DEF Sent

\* A create that has sent its job.create commits a dispatched job.
LEMMA SentCreate ==
  ASSUME IInv, TypeOK', Sent, NEW s \in Sessions, CreateSent(s)
  PROVE  Sent'
<1> SUFFICES ASSUME faults' = 0 PROVE Sent'
  BY DEF Sent
<1>1. /\ faults = 0 /\ UNCHANGED job /\ session[s].job \in Jobs
      /\ creates' = [creates EXCEPT ![session[s].job] = @ + 1]
      /\ session'[s].job = session[s].job /\ session'[s].op = "create"
      /\ \A t \in Sessions \ {s} : session'[t] = session[t]
  BY DEF CreateSent, CreatingPCs, IInv, Operations, TypeOK, SessionsTyped
<1>2. /\ \A j \in Jobs : creates[j] > 0 => creates'[j] > 0
      /\ creates'[session[s].job] > 0
  BY <1>1 DEF IInv, TypeOK
<1>3. ASSUME NEW j \in Jobs, job'[j] \in Given PROVE creates'[j] > 0
  BY <1>1, <1>2, <1>3 DEF Sent
<1>4. ASSUME NEW t \in Sessions
      PROVE  /\ Open(t)' /\ session'[t].op \in Reports \cup {"expire"} => creates'[session'[t].job] > 0
             /\ session'[t].pc = "committing" /\ session'[t].new = "pending" => creates'[session'[t].job] > 0
  <2>1. CASE t = s
    BY <1>1, <1>2, <2>1
  <2>2. CASE t # s
    <3>1. session'[t] = session[t] /\ (Open(t) => session[t].job \in Jobs)
      BY <1>1, <2>2 DEF IInv, TypeOK, SessionsTyped
    <3> QED
      BY <1>1, <1>2, <3>1 DEF Sent
  <2> QED
    BY <2>1, <2>2
<1> QED
  BY <1>3, <1>4 DEF Sent

LEMMA SentFault ==
  ASSUME TypeOK, Fault
  PROVE  Sent'
BY DEF TypeOK, Sent

LEMMA SentKept ==
  ASSUME IInv, TypeOK', Sent, NEW s \in Sessions, Step(s)
  PROVE  Sent'
<1>1. TypeOK /\ Operations /\ \A j \in Jobs : creates[j] \in Nat
  BY DEF IInv, TypeOK
<1>2. ASSUME NEW j \in Jobs, CreateBegin(s, j) PROVE Sent'
  BY <1>1, <1>2, SentAnyway DEF CreateBegin, TypeOK, SessionsTyped
<1>3. CASE CreateRefused(s) \/ CreateAdmitted(s)
  BY <1>1, <1>3, SentAnyway DEF CreateRefused, CreateAdmitted, TypeOK, SessionsTyped
<1>4. CASE CreateDecides(s)
  <2>1. /\ UNCHANGED <<job, creates, faults>> /\ session[s].job \in Jobs
        /\ \/ Start(s, "create", session[s].job, "committing", "none", "queued")
           \/ Start(s, "create", session[s].job, "sending", "none", "pending")
    BY <1>1, <1>4 DEF CreateDecides, TypeOK, SessionsTyped
  <2>2. /\ session'[s].job \in Jobs /\ session'[s].op = "create"
        /\ session'[s].pc = "committing" => session'[s].new # "pending"
        /\ \A t \in Sessions \ {s} : session'[t] = session[t]
    BY <1>1, <2>1 DEF TypeOK, SessionsTyped
  <2> QED
    BY <1>1, <2>1, <2>2, SentAnyway DEF TypeOK
<1>5. ASSUME NEW j \in Jobs, NEW op \in {"cancel", "force"}, CancelBegin(s, op, j) PROVE Sent'
  BY <1>1, <1>5, SentAnyway DEF CancelBegin, Target, TypeOK, SessionsTyped
<1>6. ASSUME NEW j \in Jobs, NEW op \in Reports, ReportBegin(s, op, j) PROVE Sent'
  BY <1>1, <1>6, SentAnyway DEF ReportBegin, Target, TypeOK, SessionsTyped
<1>7. ASSUME NEW j \in Jobs, ExpireBegin(s, j) PROVE Sent'
  <2>1. CASE job[j] # "completed"
    BY <1>1, <1>7, <2>1, SentAnyway DEF ExpireBegin, TypeOK, SessionsTyped
  <2>2. CASE job[j] = "completed" /\ faults = 0
    <3>1. creates[j] > 0
      BY <2>2 DEF Sent, Given
    <3> QED
      BY <1>1, <1>7, <2>2, <3>1, SentAnyway DEF ExpireBegin, Target, TypeOK, SessionsTyped
  <2>3. CASE faults # 0
    BY <1>7, <2>3 DEF ExpireBegin, Sent
  <2> QED
    BY <2>1, <2>2, <2>3
<1>8. CASE CancelSent(s)
  BY <1>1, <1>8, SentAnyway DEF CancelSent, TypeOK, SessionsTyped
<1>9. ASSUME UNCHANGED <<job, faults>>, \A j \in Jobs : creates'[j] >= creates[j],
             \A t \in Sessions \ {s} : session'[t] = session[t],
             session[s].pc \in {"flushing", "tallying", "picking", "promoting"},
             session'[s].job = session[s].job, session'[s].op = session[s].op,
             session'[s].new = session[s].new
      PROVE  Sent'
  <2>1. Open(s) /\ session[s].new # "pending"
    BY <1>1, <1>9 DEF Operations, CreatingPCs, Target
  <2> QED
    BY <1>1, <1>9, <2>1, SentAnyway DEF TypeOK, SessionsTyped
<1>10. CASE Flush(s) \/ FlushNothing(s) \/ Tally(s) \/ PickNone(s)
  BY <1>1, <1>9, <1>10 DEF Flush, FlushNothing, Tally, PickNone, TypeOK, SessionsTyped
<1>11. ASSUME NEW j \in Jobs, Pick(s, j) PROVE Sent'
  BY <1>1, <1>9, <1>11 DEF Pick, TypeOK, SessionsTyped
<1>12. CASE PromoteSent(s)
  BY <1>1, <1>9, <1>12 DEF PromoteSent, TypeOK, SessionsTyped
<1>13. CASE \/ CreateSendFails(s) \/ CancelSendFails(s) \/ ForceSendFails(s) \/ PromoteSendFails(s)
            \/ SessionAborts(s) \/ Restart \/ \E j \in Jobs : ExpireFails(j)
  BY <1>1, <1>13, SentFault DEF CreateSendFails, CancelSendFails, ForceSendFails, PromoteSendFails,
     SessionAborts, Restart, ExpireFails
<1> QED
  BY <1>2, <1>3, <1>4, <1>5, <1>6, <1>7, <1>8, <1>10, <1>11, <1>12, <1>13, SentCreate, SentCommit DEF Step

LEMMA SentNext == IInv /\ Sent /\ [Next]_vars => Sent'
<1> SUFFICES ASSUME IInv, Sent, [Next]_vars PROVE Sent'
  OBVIOUS
<1>1. TypeOK'
  BY NextHolds DEF IInv
<1>2. CASE UNCHANGED vars
  BY <1>2 DEF vars, Sent
<1>3. CASE Next /\ Sessions = {}
  <2>1. (\E j \in Jobs : ExpireFails(j)) \/ Restart
    BY <1>3 DEF Next, Arrival
  <2> QED
    BY <2>1, SentFault DEF IInv, ExpireFails, Restart
<1>4. ASSUME Next, NEW t \in Sessions PROVE Sent'
  <2>1. PICK s \in Sessions : Step(s)
    BY <1>4, NextIsStep
  <2> QED
    BY <1>1, <2>1, SentKept
<1> QED
  BY <1>2, <1>3, <1>4

\* Without faults the status tells whether the worker has the job: it went out
\* if it counts as dispatched or was finished by the worker, and did not while
\* it is queued and nobody is promoting it (iran/api/jobs.py, iran/main.py).
THEOREM StatusTellsDispatch == Spec => []StatusMatchesDispatch
<1>1. IInv /\ Sent => StatusMatchesDispatch
  <2> SUFFICES ASSUME IInv, Sent, faults = 0, NEW j \in Jobs
               PROVE  /\ job[j] \in Given => creates[j] > 0
                      /\ job[j] = "queued" /\ lock[j] = Null => creates[j] = 0
    BY DEF StatusMatchesDispatch, Given
  <2>1. job[j] \in Given => creates[j] > 0
    BY DEF Sent
  <2>2. ASSUME job[j] = "queued", lock[j] = Null PROVE creates[j] = 0
    <3>1. ~Handed(j)
      BY <2>2, NullIsNothing DEF IInv, Picks, Handed
    <3>2. creates[j] <= faults
      BY <2>2, <3>1 DEF IInv, Dispatches
    <3> QED
      BY <3>2 DEF IInv, TypeOK
  <2> QED
    BY <2>1, <2>2
<1>2. Spec => []Sent
  BY SentStart, SentNext, Invariance, PTL DEF Spec
<1> QED
  BY <1>1, <1>2, Invariance, PTL

-----------------------------------------------------------------------------
(* Sessions that overlap: what they have looked at when they commit.       *)

Dequeuing == {"cancel", "force", "completed", "failed"}
PastFlush == {"tallying", "picking", "promoting", "committing"}

\* A session that works on a queued job has loaded it as such; one that ends a
\* job holds the row from its flush on, and never picks that row.
Looked ==
  \A s \in Sessions : Open(s) =>
    /\ session[s].op # "create" /\ job[session[s].job] = "queued" => session[s].seen = "queued"
    /\ session[s].pc \in {"checking", "counting"} => session[s].new = "none" /\ session[s].seen = "none"
    /\ session[s].op \in {"cancel", "force"} => session[s].seen # "cancelled"
    /\ session[s].op \notin Dequeuing \cup {"create"} => session[s].pc = "committing"
    /\ session[s].op \in Dequeuing /\ session[s].new # session[s].seen
       /\ session[s].pc \in PastFlush => lock[session[s].job] = s
    /\ session[s].picked # Null =>
         session[s].op \in Dequeuing /\ session[s].picked # session[s].job

LEMMA LookedStart == Init => Looked
BY DEF Init, Looked

\* Steps of an open session that neither end nor change what it does.
Inner(s) ==
  \/ CreateAdmitted(s) \/ CreateSent(s) \/ CreateSendFails(s)
  \/ CancelSent(s) \/ CancelSendFails(s)
  \/ Flush(s) \/ FlushNothing(s) \/ Tally(s) \/ PickNone(s)
  \/ \E j \in Jobs : Pick(s, j)
  \/ PromoteSent(s) \/ PromoteSendFails(s)

Ends(s) == CreateRefused(s) \/ ForceSendFails(s) \/ SessionAborts(s) \/ Restart

Begins(s) ==
  \/ \E j \in Jobs : CreateBegin(s, j)
  \/ \E j \in Jobs, op \in {"cancel", "force"} : CancelBegin(s, op, j)
  \/ \E j \in Jobs, op \in Reports : ReportBegin(s, op, j)
  \/ \E j \in Jobs : ExpireBegin(s, j)

LEMMA StepKinds ==
  ASSUME NEW s \in Sessions, Step(s)
  PROVE  \/ Inner(s) \/ Ends(s) \/ Begins(s) \/ CreateDecides(s) \/ Commit(s)
         \/ \E j \in Jobs : ExpireFails(j)
BY DEF Step, Inner, Ends, Begins

LEMMA InnerKeeps ==
  ASSUME IInv, NEW s \in Sessions, Inner(s)
  PROVE  /\ UNCHANGED <<job, born>> /\ Open(s) /\ Open(s)'
         /\ session'[s].job = session[s].job /\ session'[s].op = session[s].op
         /\ session'[s].seen = session[s].seen /\ session'[s].new = session[s].new
         /\ session[s].pc # "committing"
         /\ session[s].picked # Null => session'[s].picked = session[s].picked
         /\ session'[s].picked # session[s].picked =>
              /\ session[s].pc = "picking" /\ Pick(s, session'[s].picked)
              /\ session'[s].picked \in Jobs
<1> USE DEF IInv, TypeOK, SessionsTyped
<1>1. CASE CreateAdmitted(s) \/ CreateSent(s) \/ CreateSendFails(s)
  BY <1>1 DEF CreateAdmitted, CreateSent, CreateSendFails
<1>2. CASE CancelSent(s) \/ CancelSendFails(s)
  BY <1>2 DEF CancelSent, CancelSendFails
<1>3. CASE Flush(s) \/ FlushNothing(s) \/ Tally(s) \/ PickNone(s)
  BY <1>3 DEF Flush, FlushNothing, Tally, PickNone
<1>4. CASE PromoteSent(s) \/ PromoteSendFails(s)
  BY <1>4 DEF PromoteSent, PromoteSendFails
<1>5. ASSUME NEW j \in Jobs, Pick(s, j)
      PROVE  /\ session[s].pc = "picking" /\ session'[s].picked = j /\ session[s].picked = Null
             /\ UNCHANGED <<job, born>> /\ Open(s)'
             /\ session'[s].job = session[s].job /\ session'[s].op = session[s].op
             /\ session'[s].seen = session[s].seen /\ session'[s].new = session[s].new
  BY <1>5 DEF Pick, Picks
<1> QED
  BY <1>1, <1>2, <1>3, <1>4, <1>5 DEF Inner

\* What a session sees does not change on the way.
LEMMA SameView ==
  ASSUME NEW s \in Sessions, UNCHANGED job,
         session'[s].job = session[s].job, session'[s].seen = session[s].seen,
         session'[s].new = session[s].new
  PROVE  (\A k \in Jobs : View(s, k)' = View(s, k)) /\ Full(s)' = Full(s)
<1>1. \A k \in Jobs : View(s, k)' = View(s, k)
  BY DEF View
<1>2. {j \in Jobs : View(s, j) \in Dispatched}' = {j \in Jobs : View(s, j) \in Dispatched}
  BY <1>1
<1> QED
  BY <1>1, <1>2 DEF Full

LEMMA EndsIdle ==
  ASSUME IInv, NEW s \in Sessions, Ends(s)
  PROVE  UNCHANGED <<job, born>> /\ session'[s] = Idle /\ faults' >= faults
<1> USE DEF IInv, TypeOK, SessionsTyped
<1>1. CASE CreateRefused(s)
  BY <1>1 DEF CreateRefused
<1>2. CASE ForceSendFails(s)
  BY <1>2 DEF ForceSendFails
<1>3. CASE SessionAborts(s)
  BY <1>3 DEF SessionAborts
<1>4. CASE Restart
  BY <1>4 DEF Restart
<1> QED
  BY <1>1, <1>2, <1>3, <1>4 DEF Ends

LEMMA UndecidedKept ==
  ASSUME IInv, Looked, NEW s \in Sessions, Step(s), session'[s].pc \in {"checking", "counting"}
  PROVE  session'[s].new = "none" /\ session'[s].seen = "none"
<1> USE DEF IInv, TypeOK, SessionsTyped
<1>1. CASE CreateAdmitted(s)
  BY <1>1 DEF CreateAdmitted, Looked
<1>2. CASE \E j \in Jobs : CreateBegin(s, j)
  BY <1>2 DEF CreateBegin
<1>3. CASE UNCHANGED session
  BY <1>3 DEF Looked
<1>4. CASE CreateSent(s) \/ CreateSendFails(s) \/ CreateDecides(s) \/ Commit(s)
  BY <1>4 DEF CreateSent, CreateSendFails, CreateDecides, Commit
<1>5. CASE CancelSent(s) \/ CancelSendFails(s) \/ PromoteSent(s) \/ PromoteSendFails(s)
  BY <1>5 DEF CancelSent, CancelSendFails, PromoteSent, PromoteSendFails
<1>6. CASE Flush(s) \/ FlushNothing(s) \/ Tally(s) \/ PickNone(s) \/ \E j \in Jobs : Pick(s, j)
  BY <1>6 DEF Flush, FlushNothing, Tally, PickNone, Pick
<1>7. CASE \E j \in Jobs, op \in {"cancel", "force"} : CancelBegin(s, op, j)
  BY <1>7 DEF CancelBegin
<1>8. CASE \E j \in Jobs, op \in Reports : ReportBegin(s, op, j)
  BY <1>8 DEF ReportBegin
<1>9. CASE Ends(s)
  BY <1>9, EndsIdle
<1>10. ASSUME NEW j \in Jobs, ExpireBegin(s, j), session' # session PROVE FALSE
  BY <1>10 DEF ExpireBegin
<1>11. \A j \in Jobs : ExpireFails(j) => UNCHANGED session
  BY DEF ExpireFails
<1> QED
  BY <1>1, <1>2, <1>3, <1>4, <1>5, <1>6, <1>7, <1>8, <1>9, <1>10, <1>11 DEF Step, Ends

\* Whoever holds a lock is past its flush, and cannot be starting anything.
LEMMA HolderOpen ==
  ASSUME IInv, NEW k \in Jobs, lock[k] # Null
  PROVE  /\ lock[k] \in Sessions /\ session[lock[k]].pc \in PastFlush
         /\ k = session[lock[k]].job \/ k = session[lock[k]].picked
         /\ session[lock[k]].picked # Null => session[lock[k]].pc \in {"promoting", "committing"}
BY DEF IInv, TypeOK, Holders, Picks, PastFlush

\* The others stand still, or the process has died; they keep their locks.
LEMMA OthersStand ==
  ASSUME IInv, NEW s \in Sessions, Step(s), NEW t \in Sessions \ {s}
  PROVE  \/ session'[t] = Idle
         \/ /\ session'[t] = session[t]
            /\ \A k \in Jobs : lock[k] = t => lock'[k] = t
<1> USE DEF IInv, TypeOK, SessionsTyped
<1>1. CASE Restart
  BY <1>1 DEF Restart
<1>2. CASE Inner(s)
  <2>1. CASE CreateAdmitted(s) \/ CreateSent(s) \/ CreateSendFails(s)
    BY <2>1 DEF CreateAdmitted, CreateSent, CreateSendFails
  <2>2. CASE CancelSent(s) \/ CancelSendFails(s) \/ PromoteSent(s) \/ PromoteSendFails(s)
    BY <2>2 DEF CancelSent, CancelSendFails, PromoteSent, PromoteSendFails
  <2>3. CASE FlushNothing(s) \/ Tally(s) \/ PickNone(s)
    BY <2>3 DEF FlushNothing, Tally, PickNone
  <2>4. CASE Flush(s)
    BY <2>4, NullIsNothing DEF Flush
  <2>5. ASSUME NEW j \in Jobs, Pick(s, j)
        PROVE  session'[t] = session[t] /\ \A k \in Jobs : lock[k] = t => lock'[k] = t
    BY <2>5, NullIsNothing DEF Pick, Waiting
  <2> QED
    BY <1>2, <2>1, <2>2, <2>3, <2>4, <2>5 DEF Inner
<1>3. CASE CreateRefused(s) \/ ForceSendFails(s) \/ CreateDecides(s)
  BY <1>3 DEF CreateRefused, ForceSendFails, CreateDecides
<1>4. CASE SessionAborts(s) \/ Commit(s)
  BY <1>4 DEF SessionAborts, Commit
<1>5. CASE Begins(s)
  BY <1>5 DEF Begins, CreateBegin, CancelBegin, ReportBegin, ExpireBegin
<1>6. ASSUME NEW j \in Jobs, ExpireFails(j)
      PROVE  UNCHANGED <<session, lock>>
  BY <1>6 DEF ExpireFails
<1> QED
  BY <1>1, <1>2, <1>3, <1>4, <1>5, <1>6, StepKinds DEF Ends

\* Rows change in commits only.
LEMMA RowsStand ==
  ASSUME NEW s \in Sessions, Step(s), ~Commit(s)
  PROVE  UNCHANGED <<job, stale>>
BY DEF Step, CreateBegin, CreateRefused, CreateAdmitted, CreateDecides, CreateSent, CreateSendFails,
   CancelBegin, CancelSent, CancelSendFails, ForceSendFails, ReportBegin, ExpireBegin, ExpireFails, Flush,
   FlushNothing, Tally, PickNone, Pick, PromoteSent, PromoteSendFails, SessionAborts, Restart

\* A job that is queued after a commit was queued before, or is new.
LEMMA StaysQueued ==
  ASSUME IInv, NEW s \in Sessions, Commit(s), NEW j \in Jobs, job'[j] = "queued", job[j] # "queued"
  PROVE  /\ job[j] = "none" /\ session[s].op = "create" /\ j = session[s].job
         /\ session[s].new = "queued"
<1>1. /\ job'[j] = Written(s, j) /\ session[s].pc = "committing" /\ Open(s)
  BY DEF Commit
<1>2. j = session[s].job /\ session[s].new = "queued"
  BY <1>1 DEF Written
<1>3. session[s].op = "create"
  BY <1>1, <1>2 DEF IInv, Operations, Target
<1> QED
  BY <1>1, <1>2, <1>3 DEF IInv, Creations

\* The own session of a step.
LEMMA LookedSelf ==
  ASSUME IInv, Looked, NEW s \in Sessions, Step(s), Open(s)', session'[s] # session[s]
  PROVE  /\ session'[s].op # "create" /\ job'[session'[s].job] = "queued" => session'[s].seen = "queued"
         /\ session'[s].pc \in {"checking", "counting"} => session'[s].new = "none" /\ session'[s].seen = "none"
         /\ session'[s].op \in {"cancel", "force"} => session'[s].seen # "cancelled"
         /\ session'[s].op \notin Dequeuing \cup {"create"} => session'[s].pc = "committing"
         /\ session'[s].op \in Dequeuing /\ session'[s].new # session'[s].seen
            /\ session'[s].pc \in PastFlush => lock'[session'[s].job] = s
         /\ session'[s].picked # Null =>
              session'[s].op \in Dequeuing /\ session'[s].picked # session'[s].job
<1>0. session'[s].pc \in {"checking", "counting"} => session'[s].new = "none" /\ session'[s].seen = "none"
  BY UndecidedKept
<1>1. CASE Inner(s)
  <2>1. /\ session'[s].job = session[s].job /\ session'[s].op = session[s].op
        /\ session'[s].seen = session[s].seen /\ session'[s].new = session[s].new
        /\ UNCHANGED job /\ Open(s) /\ session[s].pc # "committing"
    BY <1>1, InnerKeeps
  <2>2. session[s].op \in Dequeuing \cup {"create"}
    BY <2>1 DEF Looked
  <2>3. ASSUME session[s].op \in Dequeuing, session[s].new # session[s].seen, session'[s].pc \in PastFlush
        PROVE  lock'[session[s].job] = s
    <3> DEFINE i == session[s].job
    <3>1. i \in Jobs /\ session[s].pc \notin CreatingPCs
      BY <2>1, <2>3 DEF IInv, TypeOK, SessionsTyped, Operations, Dequeuing
    <3>2. session[s].pc \in PastFlush => lock[i] = s
      BY <2>1, <2>3 DEF Looked
    <3>3. CASE Flush(s)
      BY <3>1, <3>3 DEF Flush, IInv, TypeOK
    <3>4. CASE FlushNothing(s)
      BY <2>1, <2>3, <3>4 DEF FlushNothing, IInv, Operations, Target
    <3>5. CASE CancelSent(s) \/ CancelSendFails(s)
      BY <2>3, <3>5 DEF CancelSent, CancelSendFails, PastFlush, IInv, TypeOK, SessionsTyped
    <3>6. CASE Tally(s) \/ PickNone(s) \/ PromoteSent(s) \/ PromoteSendFails(s)
      BY <3>2, <3>6 DEF Tally, PickNone, PromoteSent, PromoteSendFails, PastFlush
    <3>7. ASSUME NEW j \in Jobs, Pick(s, j) PROVE lock'[i] = s
      BY <3>1, <3>2, <3>7 DEF Pick, PastFlush, IInv, TypeOK
    <3>8. ~(CreateAdmitted(s) \/ CreateSent(s) \/ CreateSendFails(s))
      BY <3>1 DEF CreateAdmitted, CreateSent, CreateSendFails, CreatingPCs
    <3> QED
      BY <1>1, <3>3, <3>4, <3>5, <3>6, <3>7, <3>8 DEF Inner
  <2>4. ASSUME session'[s].picked # Null
        PROVE  session[s].op \in Dequeuing /\ session'[s].picked # session[s].job
    <3>1. CASE session'[s].picked = session[s].picked
      BY <2>1, <2>4, <3>1 DEF Looked
    <3>2. CASE session'[s].picked # session[s].picked
      <4> DEFINE j == session'[s].picked
      <4>1. session[s].pc = "picking" /\ Pick(s, j) /\ j \in Jobs
        BY <1>1, <3>2, InnerKeeps
      <4>2. session[s].op # "create"
        BY <4>1 DEF IInv, Operations, CreatingPCs
      <4>3. session[s].op \in Dequeuing /\ session[s].new = Target[session[s].op]
        BY <2>1, <2>2, <4>2 DEF IInv, Operations
      <4>4. session[s].new \in {"cancelled", "completed", "failed"}
        BY <4>3 DEF Target, Dequeuing
      <4>5. View(s, j) = "queued"
        BY <4>1 DEF Pick, Waiting
      <4>6. ASSUME j = session[s].job PROVE FALSE
        BY <2>1, <4>2, <4>4, <4>5, <4>6 DEF View, Looked
      <4> QED
        BY <4>3, <4>6
    <3> QED
      BY <3>1, <3>2
  <2> QED
    BY <1>0, <2>1, <2>2, <2>3, <2>4 DEF Looked
<1>2. CASE Ends(s)
  BY <1>2, EndsIdle
<1>3. CASE CreateDecides(s)
  <2>1. session'[s].op = "create" /\ session'[s].picked = Null
    BY <1>3 DEF CreateDecides, IInv, TypeOK, SessionsTyped
  <2> QED
    BY <1>0, <2>1 DEF Dequeuing
<1>4. CASE Commit(s)
  BY <1>4 DEF Commit, IInv, TypeOK, SessionsTyped
<1>5. CASE \E j \in Jobs : ExpireFails(j)
  BY <1>5 DEF ExpireFails
<1>6. CASE Begins(s)
  <2> USE DEF IInv, TypeOK, SessionsTyped, Dequeuing, PastFlush
  <2>1. ASSUME NEW j \in Jobs, CreateBegin(s, j)
        PROVE  session'[s].op = "create" /\ session'[s].picked = Null
    BY <2>1 DEF CreateBegin
  <2>2. ASSUME NEW j \in Jobs, NEW op \in {"cancel", "force"}, CancelBegin(s, op, j)
        PROVE  /\ session'[s].op \in {"cancel", "force"} /\ session'[s].picked = Null
               /\ session'[s].seen = job'[session'[s].job] /\ session'[s].seen # "cancelled"
               /\ session'[s].pc \in {"flushing", "recalling"}
    BY <2>2 DEF CancelBegin, Cancellable
  <2>3. ASSUME NEW j \in Jobs, NEW op \in Reports, ReportBegin(s, op, j)
        PROVE  /\ session'[s].op \in Reports /\ session'[s].picked = Null
               /\ session'[s].seen = job'[session'[s].job]
               /\ session'[s].op \in {"completed", "failed"} => session'[s].pc = "flushing"
               /\ session'[s].op \notin {"completed", "failed"} => session'[s].pc = "committing"
    BY <2>3 DEF ReportBegin
  <2>4. ASSUME NEW j \in Jobs, ExpireBegin(s, j)
        PROVE  /\ session'[s].op = "expire" /\ session'[s].picked = Null
               /\ session'[s].seen = job'[session'[s].job] /\ session'[s].pc = "committing"
    <3>1. job[j] = "completed"
      BY <2>4 DEF ExpireBegin
    <3> QED
      BY <2>4, <3>1 DEF ExpireBegin
  <2> QED
    BY <1>0, <1>6, <2>1, <2>2, <2>3, <2>4 DEF Begins
<1> QED
  BY <1>1, <1>2, <1>3, <1>4, <1>5, <1>6, StepKinds

LEMMA LookedKept ==
  ASSUME IInv, Looked, NEW s \in Sessions, Step(s)
  PROVE  Looked'
<1>1. ASSUME NEW t \in Sessions, Open(t)', session'[t] = session[t]
      PROVE  /\ session[t].op # "create" /\ job'[session[t].job] = "queued" => session[t].seen = "queued"
             /\ session[t].op \in Dequeuing /\ session[t].new # session[t].seen
                /\ session[t].pc \in PastFlush => lock'[session[t].job] = t
  <2>1. Open(t) /\ session[t].job \in Jobs
    BY <1>1 DEF IInv, TypeOK, SessionsTyped
  <2>2. ASSUME session[t].op # "create", job'[session[t].job] = "queued"
        PROVE  session[t].seen = "queued"
    <3>1. CASE job[session[t].job] = "queued"
      BY <2>1, <2>2, <3>1 DEF Looked
    <3>2. CASE job[session[t].job] # "queued"
      <4>1. Commit(s)
        BY <2>2, <3>2, RowsStand
      <4>2. session[s].op = "create" /\ session[t].job = session[s].job /\ Open(s)
        BY <2>1, <2>2, <3>2, <4>1, StaysQueued DEF Commit
      <4> QED
        BY <2>2, <4>2 DEF IInv, Creations
    <3> QED
      BY <3>1, <3>2
  <2>3. ASSUME session[t].op \in Dequeuing, session[t].new # session[t].seen, session[t].pc \in PastFlush
        PROVE  lock'[session[t].job] = t
    <3>1. lock[session[t].job] = t
      BY <2>1, <2>3 DEF Looked
    <3>2. CASE t # s
      BY <1>1, <2>1, <3>1, <3>2, OthersStand
    <3>3. CASE t = s
      <4>1. UNCHANGED lock
        <5>1. CASE \E j \in Jobs : ExpireFails(j)
          BY <5>1 DEF ExpireFails
        <5>2. CASE Begins(s)
          BY <5>2 DEF Begins, CreateBegin, CancelBegin, ReportBegin, ExpireBegin
        <5>3. CASE Ends(s) \/ Commit(s)
          BY <1>1, <3>3, <5>3, EndsIdle DEF Commit, IInv, TypeOK, SessionsTyped
        <5>4. CASE CreateDecides(s)
          BY <5>4 DEF CreateDecides
        <5>5. CASE Inner(s)
          <6>1. ~Flush(s) /\ \A j \in Jobs : ~Pick(s, j)
            BY <1>1, <2>1, <3>3 DEF Flush, Pick, IInv, TypeOK, SessionsTyped
          <6> QED
            BY <5>5, <6>1 DEF Inner, CreateAdmitted, CreateSent, CreateSendFails, CancelSent,
               CancelSendFails, FlushNothing, Tally, PickNone, PromoteSent, PromoteSendFails
        <5> QED
          BY <5>1, <5>2, <5>3, <5>4, <5>5, StepKinds
      <4> QED
        BY <3>1, <4>1
    <3> QED
      BY <3>2, <3>3
  <2> QED
    BY <2>2, <2>3
<1>2. ASSUME NEW t \in Sessions, Open(t)', session'[t] # session[t] PROVE t = s
  BY <1>2, OthersStand
<1> QED
  BY <1>1, <1>2, LookedSelf DEF Looked

LEMMA FaultCounts ==
  ASSUME TypeOK, Fault
  PROVE  faults' # 0
BY DEF TypeOK

LEMMA LookedNext == IInv /\ Looked /\ [Next]_vars => Looked'
<1> SUFFICES ASSUME IInv, Looked, [Next]_vars PROVE Looked'
  OBVIOUS
<1>1. CASE UNCHANGED vars
  BY <1>1 DEF vars, Looked
<1>2. CASE Next /\ Sessions = {}
  BY <1>2 DEF Looked
<1>3. ASSUME Next, NEW t \in Sessions PROVE Looked'
  <2>1. PICK s \in Sessions : Step(s)
    BY <1>3, NextIsStep
  <2> QED
    BY <2>1, LookedKept
<1> QED
  BY <1>1, <1>2, <1>3

-----------------------------------------------------------------------------
(* Cancellations and the worker.                                           *)

\* A cancellation that is past its message has sent it, or has loaded the job as
\* queued.
Recalled ==
  faults = 0 => \A s \in Sessions :
    /\ Open(s) /\ session[s].op \in {"cancel", "force"} /\ session[s].pc # "recalling"
    => told[session[s].job] \/ session[s].seen = "queued"

LEMMA RecalledStart == Init => Recalled
BY DEF Init, Recalled

LEMMA RecalledSelf ==
  ASSUME IInv, Looked, Recalled, faults = 0, faults' = 0, NEW s \in Sessions, Step(s), Open(s)',
         session'[s].op \in {"cancel", "force"}, session'[s].pc # "recalling"
  PROVE  told'[session'[s].job] \/ session'[s].seen = "queued"
<1> USE DEF IInv, TypeOK, SessionsTyped
<1>1. ~Fault
  BY DEF TypeOK
<1>2. CASE CancelSent(s)
  BY <1>2 DEF CancelSent
<1>3. CASE Inner(s) /\ ~CancelSent(s)
  <2>1. /\ session'[s].job = session[s].job /\ session'[s].op = session[s].op
        /\ session'[s].seen = session[s].seen /\ Open(s)
    BY <1>3, InnerKeeps
  <2>2. UNCHANGED told /\ session[s].pc # "recalling"
    BY <1>1, <1>3 DEF Inner, CreateAdmitted, CreateSent, CreateSendFails, CancelSendFails, Flush,
       FlushNothing, Tally, PickNone, Pick, PromoteSent, PromoteSendFails
  <2> QED
    BY <2>1, <2>2 DEF Recalled
<1>4. ASSUME NEW j \in Jobs, CreateBegin(s, j) PROVE FALSE
  BY <1>4 DEF CreateBegin
<1>5. ASSUME NEW j \in Jobs, NEW op \in {"cancel", "force"}, CancelBegin(s, op, j)
      PROVE  session'[s].seen = "queued"
  BY <1>5 DEF CancelBegin
<1>6. ASSUME NEW j \in Jobs, NEW op \in Reports, ReportBegin(s, op, j) PROVE FALSE
  BY <1>6 DEF ReportBegin
<1>7. ASSUME NEW j \in Jobs, ExpireBegin(s, j) PROVE FALSE
  BY <1>7 DEF ExpireBegin
<1>8. CASE Ends(s)
  BY <1>8, EndsIdle
<1>9. ~CreateDecides(s) /\ ~Commit(s)
  BY DEF CreateDecides, Commit
<1>10. \A j \in Jobs : ~ExpireFails(j)
  BY <1>1 DEF ExpireFails
<1> QED
  BY <1>2, <1>3, <1>4, <1>5, <1>6, <1>7, <1>8, <1>9, <1>10, StepKinds DEF Begins

LEMMA RecalledKept ==
  ASSUME IInv, Looked, Recalled, NEW s \in Sessions, Step(s)
  PROVE  Recalled'
<1> SUFFICES ASSUME faults' = 0, NEW t \in Sessions, Open(t)', session'[t].op \in {"cancel", "force"},
                    session'[t].pc # "recalling"
             PROVE  told'[session'[t].job] \/ session'[t].seen = "queued"
  BY DEF Recalled
<1>1. faults = 0
  BY FaultCounts DEF IInv, Step, CreateBegin, CreateRefused, CreateAdmitted, CreateDecides, CreateSent,
     CreateSendFails, CancelBegin, CancelSent, CancelSendFails, ForceSendFails, ReportBegin, ExpireBegin,
     ExpireFails, Flush, FlushNothing, Tally, PickNone, Pick, PromoteSent, PromoteSendFails, Commit,
     SessionAborts, Restart
<1>2. CASE t = s
  BY <1>1, <1>2, RecalledSelf
<1>3. CASE t # s
  <2>1. session'[t] = session[t]
    BY <1>3, OthersStand
  <2>2. \A j \in Jobs : told[j] => told'[j]
    BY DEF Step, CreateBegin, CreateRefused, CreateAdmitted, CreateDecides, CreateSent,
       CreateSendFails, CancelBegin, CancelSent, CancelSendFails, ForceSendFails, ReportBegin, ExpireBegin,
       ExpireFails, Flush, FlushNothing, Tally, PickNone, Pick, PromoteSent, PromoteSendFails, Commit,
       SessionAborts, Restart, IInv, TypeOK
  <2>3. session[t].job \in Jobs
    BY <2>1 DEF IInv, TypeOK, SessionsTyped
  <2> QED
    BY <1>1, <2>1, <2>2, <2>3 DEF Recalled
<1> QED
  BY <1>2, <1>3

LEMMA RecalledNext == IInv /\ Looked /\ Recalled /\ [Next]_vars => Recalled'
<1> SUFFICES ASSUME IInv, Looked, Recalled, [Next]_vars PROVE Recalled'
  OBVIOUS
<1>1. CASE UNCHANGED vars
  BY <1>1 DEF vars, Recalled
<1>2. CASE Next /\ Sessions = {}
  BY <1>2 DEF Recalled
<1>3. ASSUME Next, NEW t \in Sessions PROVE Recalled'
  <2>1. PICK s \in Sessions : Step(s)
    BY <1>3, NextIsStep
  <2> QED
    BY <2>1, RecalledKept
<1> QED
  BY <1>1, <1>2, <1>3

\* The step that cancels a job is the commit of its cancellation.
LEMMA CancelStep ==
  ASSUME IInv, Looked, Recalled, Next, NEW j \in Jobs, job[j] # "cancelled", job'[j] = "cancelled",
         faults = 0, creates[j] > 0, ~told[j]
  PROVE  /\ job[j] # "queued"
         /\ \E s \in Sessions : /\ session[s].job = j /\ session[s].op \in {"cancel", "force"}
                               /\ session[s].seen = "queued"
<1>1. PICK s \in Sessions : Commit(s)
  <2>1. job' # job
    OBVIOUS
  <2> QED
    BY <2>1 DEF Next, Arrival, SessionStep, CreateBegin, CreateRefused, CreateAdmitted, CreateDecides,
       CreateSent, CreateSendFails, CancelBegin, CancelSent, CancelSendFails, ForceSendFails, ReportBegin,
       ExpireBegin, ExpireFails, Flush, FlushNothing, Tally, PickNone, Pick, PromoteSent,
       PromoteSendFails, SessionAborts, Restart
<1>2. job'[j] = Written(s, j) /\ session[s].pc = "committing" /\ Open(s)
  BY <1>1 DEF Commit
<1>3. /\ j = session[s].job /\ session[s].new = "cancelled" /\ session[s].new # session[s].seen
      /\ ~(j = session[s].picked /\ session[s].promote)
  BY <1>2 DEF Written
<1>4. session[s].op \in {"cancel", "force"}
  BY <1>2, <1>3 DEF IInv, Operations, Target
<1>5. session[s].seen = "queued"
  BY <1>2, <1>3, <1>4 DEF Recalled
<1>6. ASSUME job[j] = "queued" PROVE FALSE
  <2>1. lock[j] = s
    BY <1>2, <1>3, <1>4 DEF Looked, Dequeuing, PastFlush
  <2>2. ASSUME Handed(j) PROVE FALSE
    <3>1. PICK t \in Sessions : session[t].picked = j /\ session[t].promote
      BY <2>2 DEF Handed
    <3>2. t = s
      BY <2>1, <3>1, NullIsNothing DEF IInv, Picks
    <3> QED
      BY <1>3, <3>1, <3>2
  <2> QED
    BY <1>6, <2>2 DEF IInv, Dispatches, TypeOK
<1> QED
  BY <1>3, <1>4, <1>5, <1>6

LEMMA LookedHolds == Spec => [](IInv /\ Looked /\ Recalled)
<1>1. Init => IInv /\ Looked /\ Recalled
  BY InitHolds, LookedStart, RecalledStart
<1>2. (IInv /\ Looked /\ Recalled) /\ [Next]_vars => (IInv /\ Looked /\ Recalled)'
  BY NextHolds, LookedNext, RecalledNext
<1> QED
  BY <1>1, <1>2, PTL DEF Spec

\* However requests overlap, a job that the worker was given is cancelled
\* without a word to it only where the session that cancels it loaded it as
\* queued, before the promotion that dispatched it (iran/api/jobs.py:637-669).
THEOREM CancelsAreSent == Spec => SilentCancelsAreOvertaken
<1> DEFINE A == \A j \in Jobs :
                  /\ job[j] # "cancelled" /\ job'[j] = "cancelled"
                  /\ faults = 0 /\ creates[j] > 0 /\ ~told[j]
                  => /\ job[j] # "queued"
                     /\ \E s \in Sessions :
                          /\ session[s].job = j /\ session[s].op \in {"cancel", "force"}
                          /\ session[s].seen = "queued"
<1>1. (IInv /\ Looked /\ Recalled) /\ [Next]_vars => [A]_vars
  BY CancelStep
<1> QED
  BY <1>1, LookedHolds, PTL DEF Spec, SilentCancelsAreOvertaken

-----------------------------------------------------------------------------
(* The queue, while no session commits between another's look and commit.  *)

\* The jobs that were submitted are numbered.
Ranked ==
  /\ \A j \in Jobs : born[j] <= Cardinality({k \in Jobs : born[k] > 0})
  /\ \A j, k \in Jobs : born[j] = born[k] /\ born[j] > 0 => j = k

AtWork == {j \in Jobs : job[j] \in Dispatched}
UsedUp == Limit > 0 /\ Cardinality(AtWork) >= Limit

\* Row k is locked by the session that ends job k.
Ending(k) == lock[k] # Null /\ session[lock[k]].job = k

\* While a job waits, the limit is used up or the job is about to leave the queue.
Turn == UsedUp \/ \A k \in Jobs : job[k] = "queued" => Ending(k)

\* What a session has found out holds until it commits.  One that ends a job has
\* found the slot taken, or only jobs that others hold, or has promoted the
\* oldest of the rest.
Informed(s) ==
  /\ session[s].op = "create" /\ session[s].new = "queued" => UsedUp
  /\ session[s].op = "expire" => job[session[s].job] \notin Dispatched
  /\ session[s].pc = "committing" /\ session[s].op \in Dequeuing =>
       IF session[s].picked = Null
       THEN Full(s) \/ \A k \in Jobs : View(s, k) = "queued" => lock[k] \notin {Null, s}
       ELSE session[s].promote
  /\ session[s].picked # Null =>
       \A k \in Jobs : View(s, k) = "queued" =>
         born[session[s].picked] <= born[k] \/ lock[k] # Null

Served ==
  faults = 0 /\ ~stale => Turn /\ \A s \in Sessions : Open(s) => Informed(s)

LEMMA QueueStart == Init => Ranked /\ Served
<1> SUFFICES ASSUME Init PROVE Ranked /\ Served
  OBVIOUS
<1>1. Served
  BY DEF Init, Served, Turn
<1>2. \A j \in Jobs : born[j] = 0
  BY DEF Init
<1>3. Cardinality({k \in Jobs : born[k] > 0}) \in Nat
  BY JobsFinite, FS_Subset, FS_CardinalityType
<1>4. Ranked
  BY <1>2, <1>3 DEF Ranked
<1> QED
  BY <1>1, <1>4

\* Only a submission changes the ranks, and takes the next one.
LEMMA RankedKept ==
  ASSUME TypeOK, Ranked, NEW s \in Sessions, Step(s)
  PROVE  Ranked'
<1> DEFINE A == {k \in Jobs : born[k] > 0}
<1>1. CASE UNCHANGED born
  BY <1>1 DEF Ranked
<1>2. ASSUME NEW j \in Jobs, CreateBegin(s, j) PROVE Ranked'
  <2>1. IsFiniteSet(A) /\ j \notin A /\ Cardinality(A) \in Nat
    BY <1>2, JobsFinite, FS_Subset, FS_CardinalityType DEF CreateBegin, TypeOK
  <2>2. born' = [born EXCEPT ![j] = 1 + Cardinality(A)]
    BY <1>2 DEF CreateBegin
  <2>3. /\ born'[j] = 1 + Cardinality(A)
        /\ \A k \in Jobs \ {j} : born'[k] = born[k]
    BY <2>2 DEF TypeOK
  <2>4. {k \in Jobs : born'[k] > 0} = A \cup {j}
    BY <2>1, <2>3
  <2>5. Cardinality({k \in Jobs : born'[k] > 0}) = Cardinality(A) + 1
    BY <2>1, <2>4, FS_AddElement
  <2>6. \A k \in Jobs : born[k] \in Nat /\ born[k] <= Cardinality(A)
    BY DEF TypeOK, Ranked
  <2> HIDE DEF A
  <2>7. \A k \in Jobs : born'[k] <= Cardinality({i \in Jobs : born'[i] > 0})
    BY <2>1, <2>3, <2>5, <2>6
  <2>8. ASSUME NEW k \in Jobs, NEW i \in Jobs, born'[k] = born'[i], born'[k] > 0 PROVE k = i
    BY <2>1, <2>3, <2>6, <2>8 DEF Ranked
  <2> QED
    BY <2>7, <2>8 DEF Ranked
<1>3. UNCHANGED born \/ \E j \in Jobs : CreateBegin(s, j)
  BY DEF Step, CreateRefused, CreateAdmitted, CreateDecides, CreateSent, CreateSendFails, CancelBegin,
     CancelSent, CancelSendFails, ForceSendFails, ReportBegin, ExpireBegin, ExpireFails, Flush,
     FlushNothing, Tally, PickNone, Pick, PromoteSent, PromoteSendFails, Commit, SessionAborts, Restart
<1> QED
  BY <1>1, <1>2, <1>3

LEMMA AtWorkFinite == IsFiniteSet(AtWork) /\ Cardinality(AtWork) \in Nat
BY JobsFinite, FS_Subset, FS_CardinalityType DEF AtWork

\* More jobs are at work than before, or as many.
LEMMA MoreAtWork ==
  ASSUME AtWork \subseteq AtWork', UsedUp
  PROVE  UsedUp'
<1>1. IsFiniteSet(AtWork') /\ Cardinality(AtWork') \in Nat
  BY JobsFinite, FS_Subset, FS_CardinalityType DEF AtWork
<1>2. Cardinality(AtWork) <= Cardinality(AtWork')
  BY <1>1, FS_Subset
<1> QED
  BY <1>1, <1>2, AtWorkFinite, LimitIsNat DEF UsedUp

\* One job may stop working when another starts.
LEMMA SlotHandedOn ==
  ASSUME NEW i \in Jobs, NEW p \in Jobs, p \notin AtWork, p \in AtWork',
         AtWork \ {i} \subseteq AtWork', UsedUp
  PROVE  UsedUp'
<1>1. IsFiniteSet(AtWork') /\ Cardinality(AtWork') \in Nat
  BY JobsFinite, FS_Subset, FS_CardinalityType DEF AtWork
<1>2. Cardinality(AtWork) <= Cardinality((AtWork \ {i}) \cup {p})
  <2>1. CASE i \in AtWork
    <3>1. IsFiniteSet(AtWork \ {i}) /\ Cardinality(AtWork \ {i}) = Cardinality(AtWork) - 1
      BY <2>1, AtWorkFinite, FS_RemoveElement
    <3>2. Cardinality((AtWork \ {i}) \cup {p}) = Cardinality(AtWork \ {i}) + 1
      BY <3>1, FS_AddElement
    <3>3. (Cardinality(AtWork) - 1) + 1 = Cardinality(AtWork)
      BY AtWorkFinite
    <3>4. Cardinality((AtWork \ {i}) \cup {p}) = Cardinality(AtWork)
      BY <3>1, <3>2, <3>3, Zenon
    <3>5. Cardinality(AtWork) <= Cardinality(AtWork)
      BY AtWorkFinite
    <3> QED
      BY <3>4, <3>5, Zenon
  <2>2. CASE i \notin AtWork
    <3>1. AtWork \ {i} = AtWork
      BY <2>2
    <3>2. Cardinality(AtWork \cup {p}) = Cardinality(AtWork) + 1
      BY AtWorkFinite, FS_AddElement
    <3>3. Cardinality(AtWork) <= Cardinality(AtWork) + 1
      BY AtWorkFinite
    <3> QED
      BY <3>1, <3>2, <3>3, Zenon
  <2> QED
    BY <2>1, <2>2
<1>3. (AtWork \ {i}) \cup {p} \subseteq AtWork'
  OBVIOUS
<1>4. /\ Cardinality((AtWork \ {i}) \cup {p}) \in Nat
      /\ Cardinality((AtWork \ {i}) \cup {p}) <= Cardinality(AtWork')
  BY <1>1, <1>3, FS_Subset, FS_CardinalityType
<1> QED
  BY <1>1, <1>2, <1>4, AtWorkFinite, LimitIsNat DEF UsedUp

\* A step without a fault that is no commit leaves the rows and their locks.
LEMMA QuietStep ==
  ASSUME IInv, NEW s \in Sessions, Step(s), ~Commit(s), ~Fault
  PROVE  /\ UNCHANGED <<job, stale>> /\ (UsedUp' <=> UsedUp)
         /\ \A k \in Jobs : lock[k] # Null =>
              lock'[k] = lock[k] /\ session'[lock[k]].job = session[lock[k]].job
<1>1. UNCHANGED <<job, stale>>
  BY RowsStand
<1>2. AtWork' = AtWork /\ (UsedUp' <=> UsedUp)
  BY <1>1 DEF AtWork, UsedUp
<1>3. ASSUME NEW k \in Jobs, lock[k] # Null
      PROVE  lock'[k] = lock[k] /\ session'[lock[k]].job = session[lock[k]].job
  <2> DEFINE t == lock[k]
  <2>1. t \in Sessions /\ session[t].pc \in PastFlush
    BY <1>3, HolderOpen
  <2>2. ~Restart
    BY DEF Restart
  <2>3. CASE t # s
    <3>1. session'[t] = session[t]
      <4>1. CASE Inner(s)
        BY <2>1, <2>3, <4>1 DEF Inner, CreateAdmitted, CreateSent, CreateSendFails, CancelSent,
           CancelSendFails, Flush, FlushNothing, Tally, PickNone, Pick, PromoteSent, PromoteSendFails,
           IInv, TypeOK, SessionsTyped
      <4>2. CASE Begins(s)
        BY <2>1, <2>3, <4>2 DEF Begins, CreateBegin, CancelBegin, ReportBegin, ExpireBegin,
           IInv, TypeOK, SessionsTyped
      <4>3. CASE Ends(s) \/ CreateDecides(s) \/ \E j \in Jobs : ExpireFails(j)
        BY <2>1, <2>2, <2>3, <4>3 DEF Ends, CreateRefused, ForceSendFails, SessionAborts, CreateDecides,
           ExpireFails, IInv, TypeOK, SessionsTyped
      <4> QED
        BY <4>1, <4>2, <4>3, StepKinds
    <3>2. session[t] # Idle
      BY <2>1 DEF PastFlush
    <3> QED
      BY <2>1, <2>3, <3>1, <3>2, OthersStand
  <2>4. CASE t = s
    <3>1. ~Begins(s) /\ ~Ends(s) /\ ~CreateDecides(s) /\ \A j \in Jobs : ~ExpireFails(j)
      <4>1. ASSUME NEW j \in Jobs, ExpireBegin(s, j) PROVE FALSE
        BY <2>1, <2>4, <4>1 DEF ExpireBegin, PastFlush
      <4>2. ~Begins(s)
        BY <2>1, <2>4, <4>1 DEF Begins, CreateBegin, CancelBegin, ReportBegin, PastFlush
      <4>3. ~Ends(s)
        BY <2>1, <2>2, <2>4 DEF Ends, CreateRefused, ForceSendFails, SessionAborts, PastFlush
      <4>4. ~CreateDecides(s) /\ \A j \in Jobs : ~ExpireFails(j)
        BY <2>1, <2>4 DEF CreateDecides, ExpireFails, PastFlush
      <4> QED
        BY <4>2, <4>3, <4>4
    <3>2. Inner(s)
      BY <3>1, StepKinds
    <3>3. session'[s].job = session[s].job
      BY <3>2, InnerKeeps
    <3>4. lock'[k] = s
      BY <1>3, <2>4, <3>2 DEF Inner, CreateAdmitted, CreateSent, CreateSendFails, CancelSent,
         CancelSendFails, Flush, FlushNothing, Tally, PickNone, Pick, PromoteSent, PromoteSendFails,
         IInv, TypeOK
    <3> QED
      BY <2>4, <3>3, <3>4
  <2> QED
    BY <2>3, <2>4
<1> QED
  BY <1>1, <1>2, <1>3

\* What a session has found out is not undone by what the others do on their way
\* to their commits.
LEMMA InformedStays ==
  ASSUME IInv, UNCHANGED job, UsedUp' <=> UsedUp,
         \A k \in Jobs : lock[k] # Null => lock'[k] = lock[k],
         \A k \in Jobs : born[k] > 0 => born'[k] = born[k],
         NEW t \in Sessions, Open(t), Informed(t), session'[t] = session[t]
  PROVE  Informed(t)'
<1>1. (\A k \in Jobs : View(t, k)' = View(t, k)) /\ Full(t)' = Full(t)
  BY SameView
<1>2. \A k \in Jobs : View(t, k) = "queued" => born'[k] = born[k]
  <2> SUFFICES ASSUME NEW k \in Jobs, View(t, k) = "queued" PROVE born[k] > 0
    OBVIOUS
  <2>1. born[k] # 0
    BY DEF View, IInv, Unborn
  <2> QED
    BY <2>1 DEF IInv, TypeOK
<1>3. session[t].picked # Null => born'[session[t].picked] = born[session[t].picked]
  <2> SUFFICES ASSUME session[t].picked # Null PROVE born[session[t].picked] > 0
    BY DEF IInv, TypeOK, SessionsTyped, SessionType
  <2>1. session[t].picked \in Jobs /\ job[session[t].picked] = "queued"
    BY DEF IInv, TypeOK, SessionsTyped, SessionType, Picks
  <2> QED
    BY <2>1 DEF IInv, TypeOK, Unborn
<1> QED
  BY <1>1, <1>2, <1>3 DEF Informed

LEMMA InformedSelf ==
  ASSUME IInv, Looked, Served, faults = 0, ~stale, NEW s \in Sessions, Step(s), ~Commit(s), ~Fault, Open(s)'
  PROVE  Informed(s)'
<1>0. UNCHANGED job /\ (UsedUp' <=> UsedUp) /\ \A k \in Jobs : lock[k] # Null => lock'[k] = lock[k]
  BY QuietStep
<1>1. CASE Inner(s)
  <2>1. /\ session'[s].job = session[s].job /\ session'[s].op = session[s].op
        /\ session'[s].seen = session[s].seen /\ session'[s].new = session[s].new
        /\ UNCHANGED <<job, born>> /\ Open(s) /\ session[s].pc # "committing"
        /\ session[s].picked # Null => session'[s].picked = session[s].picked
        /\ session'[s].picked # session[s].picked =>
             /\ session[s].pc = "picking" /\ Pick(s, session'[s].picked)
             /\ session'[s].picked \in Jobs
    BY <1>1, InnerKeeps
  <2>2. (\A k \in Jobs : View(s, k)' = View(s, k)) /\ Full(s)' = Full(s)
    BY <2>1, SameView
  <2>3. Informed(s)
    BY <2>1 DEF Served
  <2>4. /\ session'[s].op = "create" /\ session'[s].new = "queued" => UsedUp'
        /\ session'[s].op = "expire" => job'[session'[s].job] \notin Dispatched
    BY <1>0, <2>1, <2>3 DEF Informed
  <2>5. ASSUME session'[s].picked # Null, NEW k \in Jobs, View(s, k) = "queued"
        PROVE  born[session'[s].picked] <= born[k] \/ lock'[k] # Null
    <3>1. CASE session'[s].picked = session[s].picked
      BY <1>0, <2>3, <2>5, <3>1 DEF Informed
    <3>2. CASE session'[s].picked # session[s].picked
      <4>1. Pick(s, session'[s].picked)
        BY <2>1, <3>2
      <4>2. k \in Waiting(s) => born[session'[s].picked] <= born[k]
        BY <4>1 DEF Pick
      <4>3. k \notin Waiting(s) => lock[k] # Null
        BY <2>5 DEF Waiting
      <4> QED
        BY <1>0, <4>2, <4>3
    <3> QED
      BY <3>1, <3>2
  <2>6. ASSUME session'[s].pc = "committing", session[s].op \in Dequeuing
        PROVE  IF session'[s].picked = Null
               THEN Full(s) \/ \A k \in Jobs : View(s, k) = "queued" => lock'[k] \notin {Null, s}
               ELSE session'[s].promote
    <3>0. session[s].pc \notin CreatingPCs
      BY <2>6 DEF IInv, Operations, Dequeuing
    <3>1. CASE Tally(s)
      <4>1. Full(s) /\ session'[s].picked = session[s].picked
        BY <2>6, <3>1 DEF Tally, IInv, TypeOK, SessionsTyped
      <4>2. session[s].picked = Null
        BY <3>1 DEF Tally, IInv, Picks
      <4> QED
        BY <4>1, <4>2
    <3>2. CASE PickNone(s)
      <4>1. session'[s].picked = session[s].picked /\ Waiting(s) = {}
        BY <3>2 DEF PickNone, IInv, TypeOK, SessionsTyped
      <4>2. session[s].picked = Null
        BY <3>2 DEF PickNone, IInv, Picks
      <4>3. \A k \in Jobs : View(s, k) = "queued" => lock[k] \notin {Null, s}
        BY <4>1 DEF Waiting
      <4> QED
        BY <1>0, <4>1, <4>2, <4>3
    <3>3. CASE PromoteSent(s)
      <4>1. session'[s].picked = session[s].picked /\ session'[s].promote
        BY <3>3 DEF PromoteSent, IInv, TypeOK, SessionsTyped
      <4>2. session[s].picked # Null
        BY <3>3, NullIsNothing DEF PromoteSent, IInv, TypeOK, SessionsTyped
      <4> QED
        BY <4>1, <4>2
    <3>4. ~PromoteSendFails(s) /\ ~CancelSendFails(s)
      BY DEF PromoteSendFails, CancelSendFails
    <3>5. ~(CreateAdmitted(s) \/ CreateSent(s) \/ CreateSendFails(s))
      BY <3>0 DEF CreateAdmitted, CreateSent, CreateSendFails, CreatingPCs
    <3>6. ~(CancelSent(s) \/ Flush(s) \/ FlushNothing(s)) /\ \A j \in Jobs : ~Pick(s, j)
      BY <2>6 DEF CancelSent, Flush, FlushNothing, Pick, IInv, TypeOK, SessionsTyped
    <3> QED
      BY <1>1, <3>1, <3>2, <3>3, <3>4, <3>5, <3>6 DEF Inner
  <2> QED
    BY <2>1, <2>2, <2>4, <2>5, <2>6 DEF Informed
<1>2. CASE CreateDecides(s)
  <2> DEFINE j == session[s].job
  <2>1. session[s].pc = "counting" /\ session[s].new = session[s].seen
    BY <1>2 DEF CreateDecides, Looked
  <2>2. CASE Start(s, "create", j, "committing", "none", "queued") /\ Full(s)
    <3>1. {k \in Jobs : View(s, k) \in Dispatched} = AtWork
      BY <2>1 DEF View, AtWork
    <3>2. UsedUp
      BY <2>2, <3>1 DEF Full, UsedUp
    <3>3. session'[s].op = "create" /\ session'[s].picked = Null
      BY <2>2 DEF IInv, TypeOK, SessionsTyped
    <3> QED
      BY <1>0, <3>2, <3>3 DEF Informed, Dequeuing
  <2>3. CASE Start(s, "create", j, "sending", "none", "pending")
    BY <2>3 DEF Informed, Dequeuing, IInv, TypeOK, SessionsTyped
  <2> QED
    BY <1>2, <2>2, <2>3 DEF CreateDecides
<1>3. CASE Begins(s)
  <2> USE DEF IInv, TypeOK, SessionsTyped
  <2>1. ASSUME NEW j \in Jobs, CreateBegin(s, j) PROVE Informed(s)'
    <3>1. session'[s].op = "create" /\ session'[s].new = "none" /\ session'[s].picked = Null
      BY <2>1 DEF CreateBegin
    <3> QED
      BY <3>1 DEF Informed, Dequeuing
  <2>2. ASSUME NEW j \in Jobs, NEW op \in {"cancel", "force"}, CancelBegin(s, op, j) PROVE Informed(s)'
    <3>1. /\ session'[s].op \in {"cancel", "force"} /\ session'[s].picked = Null
          /\ session'[s].pc \in {"flushing", "recalling"}
      BY <2>2 DEF CancelBegin
    <3> QED
      BY <3>1 DEF Informed
  <2>3. ASSUME NEW j \in Jobs, NEW op \in Reports, ReportBegin(s, op, j) PROVE Informed(s)'
    <3>1. /\ session'[s].op \in Reports /\ session'[s].picked = Null
          /\ session'[s].op \in Dequeuing => session'[s].pc = "flushing"
      BY <2>3 DEF ReportBegin, Dequeuing
    <3> QED
      BY <3>1 DEF Informed
  <2>4. ASSUME NEW j \in Jobs, ExpireBegin(s, j) PROVE Informed(s)'
    <3>1. job[j] = "completed"
      BY <2>4 DEF ExpireBegin
    <3>2. session'[s].op = "expire" /\ session'[s].job = j /\ session'[s].picked = Null
      BY <2>4, <3>1 DEF ExpireBegin
    <3> QED
      BY <1>0, <3>1, <3>2 DEF Informed, Dequeuing
  <2> QED
    BY <1>3, <2>1, <2>2, <2>3, <2>4 DEF Begins
<1>4. CASE Ends(s)
  BY <1>4, EndsIdle
<1>5. \A j \in Jobs : ~ExpireFails(j)
  BY DEF ExpireFails
<1> QED
  BY <1>1, <1>2, <1>3, <1>4, <1>5, StepKinds

LEMMA ServedQuiet ==
  ASSUME IInv, Looked, Served, faults = 0, ~stale, NEW s \in Sessions, Step(s), ~Commit(s), ~Fault
  PROVE  Served'
<1>1. /\ UNCHANGED job /\ (UsedUp' <=> UsedUp)
      /\ \A k \in Jobs : lock[k] # Null =>
           lock'[k] = lock[k] /\ session'[lock[k]].job = session[lock[k]].job
  BY QuietStep
<1>2. Turn'
  BY <1>1 DEF Served, Turn, Ending
<1>3. \A k \in Jobs : born[k] > 0 => born'[k] = born[k]
  <2>1. ASSUME NEW j \in Jobs, CreateBegin(s, j) PROVE \A k \in Jobs : born[k] > 0 => born'[k] = born[k]
    BY <2>1 DEF CreateBegin, IInv, TypeOK
  <2>2. UNCHANGED born \/ \E j \in Jobs : CreateBegin(s, j)
    BY DEF Step, CreateRefused, CreateAdmitted, CreateDecides, CreateSent, CreateSendFails, CancelBegin,
       CancelSent, CancelSendFails, ForceSendFails, ReportBegin, ExpireBegin, ExpireFails, Flush,
       FlushNothing, Tally, PickNone, Pick, PromoteSent, PromoteSendFails, SessionAborts, Restart
  <2> QED
    BY <2>1, <2>2
<1>4. ASSUME NEW t \in Sessions, Open(t)' PROVE Informed(t)'
  <2>1. CASE t = s
    BY <1>4, <2>1, InformedSelf
  <2>2. CASE t # s
    <3>1. session'[t] = session[t]
      BY <1>4, <2>2, OthersStand
    <3>2. Open(t) /\ Informed(t)
      BY <1>4, <3>1 DEF Served
    <3> QED
      BY <1>1, <1>3, <3>1, <3>2, InformedStays
  <2> QED
    BY <2>1, <2>2
<1> QED
  BY <1>2, <1>4 DEF Served

\* Nobody else has looked when a session commits that is not stale.
LEMMA OthersUninformed ==
  ASSUME IInv, Looked, Served, NEW s \in Sessions, Commit(s), ~stale', NEW t \in Sessions \ {s}, Open(t)'
  PROVE  Informed(t)' /\ session'[t] = session[t]
<1>1. session'[t] = session[t] /\ ~HasLooked(t)
  BY DEF Commit, IInv, TypeOK, SessionsTyped
<1>2. Open(t) /\ session[t].pc \notin {"picking", "promoting", "committing"}
  BY <1>1 DEF HasLooked
<1>3. session[t].op = "create" => session[t].new # "queued"
  BY <1>2 DEF Looked, IInv, Operations, CreatingPCs
<1>4. session[t].op # "expire"
  BY <1>2 DEF Looked, Dequeuing
<1>5. session[t].picked = Null
  BY <1>2 DEF IInv, Picks
<1> QED
  BY <1>1, <1>2, <1>3, <1>4, <1>5 DEF Informed

\* A job that is about to leave the queue, by a session that does not commit yet.
LEMMA EndingStays ==
  ASSUME IInv, NEW s \in Sessions, Commit(s), NEW k \in Jobs, Ending(k), lock[k] # s
  PROVE  Ending(k)'
<1>1. lock[k] \in Sessions \ {s}
  BY DEF Ending, IInv, TypeOK
<1>2. session'[lock[k]] = session[lock[k]] /\ lock'[k] = lock[k]
  BY <1>1 DEF Commit, IInv, TypeOK, SessionsTyped
<1> QED
  BY <1>2 DEF Ending

\* The own job of a session that commits is not queued after it, unless it is new.
LEMMA OwnLeaves ==
  ASSUME IInv, Looked, NEW s \in Sessions, Commit(s), session[s].op # "create"
  PROVE  session[s].job \in Jobs /\ job'[session[s].job] # "queued"
<1> DEFINE i == session[s].job
<1>1. /\ session[s].pc = "committing" /\ Open(s) /\ i \in Jobs
      /\ job' = [k \in Jobs |-> Written(s, k)]
  BY DEF Commit, IInv, TypeOK, SessionsTyped
<1>2. session[s].new = Target[session[s].op] /\ session[s].op \in Ops
  BY <1>1 DEF IInv, Operations
<1>3. session[s].new # "queued"
  BY <1>2 DEF Target
<1>4. job[i] = "queued" => session[s].seen = "queued"
  BY <1>1 DEF Looked
<1> QED
  BY <1>1, <1>3, <1>4 DEF Written

\* Cancellations and final reports: either the limit was used up without the
\* job that ends, or others hold all that wait, or the slot goes to the job that
\* was picked.
LEMMA DequeueCommits ==
  ASSUME IInv, Looked, Served, NEW s \in Sessions, Commit(s), faults = 0, ~stale',
         session[s].op \in Dequeuing
  PROVE  Turn'
<1>0. ~stale /\ \A t \in Sessions \ {s} : ~HasLooked(t)
  BY DEF Commit
<1>1. /\ session[s].pc = "committing" /\ session[s].job \in Jobs /\ Open(s)
      /\ job' = [k \in Jobs |-> Written(s, k)]
  BY DEF Commit, IInv, TypeOK, SessionsTyped
<1>2. Informed(s) /\ Turn
  BY <1>0, <1>1 DEF Served
<1>3. CASE session[s].picked = Null
  <2>1. \A k \in Jobs : job'[k] = View(s, k)
    BY <1>1, <1>3, NullIsNothing DEF Written, View
  <2>2. CASE Full(s)
    <3>1. {k \in Jobs : View(s, k) \in Dispatched} = AtWork'
      BY <2>1 DEF AtWork
    <3> QED
      BY <2>2, <3>1 DEF Full, UsedUp, Turn
  <2>3. CASE ~Full(s)
    <3> SUFFICES ASSUME NEW k \in Jobs, job'[k] = "queued" PROVE Ending(k)'
      BY DEF Turn
    <3>1. lock[k] \notin {Null, s}
      BY <1>1, <1>2, <1>3, <2>1, <2>3 DEF Informed
    <3>2. lock[k] \in Sessions \ {s} /\ session[lock[k]].pc = "tallying"
      BY <1>0, <3>1, HolderOpen DEF HasLooked, PastFlush
    <3>3. Ending(k)
      BY <3>1, <3>2, HolderOpen, NullIsNothing DEF Ending
    <3> QED
      BY <3>1, <3>3, EndingStays
  <2> QED
    BY <2>2, <2>3
<1>4. CASE session[s].picked # Null
  <2> DEFINE p == session[s].picked
             i == session[s].job
  <2>1. session[s].promote /\ job[p] = "queued" /\ p \in Jobs /\ lock[p] = s
    BY <1>1, <1>2, <1>4 DEF Informed, IInv, TypeOK, SessionsTyped, SessionType, Picks
  <2>2. job'[p] = "pending"
    BY <1>1, <2>1 DEF Written
  <2>3. \A k \in Jobs \ {p, i} : job'[k] = job[k]
    BY <1>1 DEF Written
  <2>4. p \notin AtWork /\ p \in AtWork' /\ AtWork \ {i} \subseteq AtWork'
    BY <2>1, <2>2, <2>3 DEF AtWork
  <2>5. UsedUp
    <3>1. ~Ending(p)
      BY <1>1, <1>4, <2>1 DEF Ending, Looked
    <3> QED
      BY <1>2, <2>1, <3>1 DEF Turn
  <2> HIDE DEF p, i
  <2>6. i \in Jobs
    BY <1>1 DEF i
  <2>7. UsedUp'
    BY <2>1, <2>4, <2>5, <2>6, SlotHandedOn
  <2> QED
    BY <2>7 DEF Turn
<1> QED
  BY <1>3, <1>4

\* Submissions, reports of progress and expiries: nobody stops working.
LEMMA OthersCommit ==
  ASSUME IInv, Looked, Served, NEW s \in Sessions, Commit(s), faults = 0, ~stale',
         session[s].op \notin Dequeuing
  PROVE  Turn'
<1> DEFINE i == session[s].job
<1>0. ~stale
  BY DEF Commit
<1>1. /\ session[s].pc = "committing" /\ i \in Jobs /\ session[s].picked = Null /\ Open(s)
      /\ \A k \in Jobs : job'[k] = Written(s, k)
  BY DEF Commit, IInv, TypeOK, SessionsTyped, Looked
<1>2. Informed(s) /\ Turn
  BY <1>0, <1>1 DEF Served
<1>3. \A k \in Jobs \ {i} : job'[k] = job[k]
  BY <1>1, NullIsNothing DEF Written
<1>4. job'[i] = IF session[s].new # session[s].seen THEN session[s].new ELSE job[i]
  BY <1>1, NullIsNothing DEF Written
<1>5. job'[i] \in Dispatched \/ job[i] \notin Dispatched
  <2>1. CASE session[s].op = "create"
    BY <1>1, <2>1 DEF IInv, Creations
  <2>2. CASE session[s].op = "expire"
    BY <1>2, <2>2 DEF Informed
  <2>3. CASE session[s].op \in {"accepted", "progress"}
    <3>1. session[s].new \in {"accepted", "running"}
      BY <1>1, <2>3 DEF IInv, Operations, Target
    <3> QED
      BY <1>4, <3>1
  <2> QED
    BY <1>1, <2>1, <2>2, <2>3 DEF IInv, Operations, Dequeuing
<1>6. AtWork \subseteq AtWork'
  BY <1>3, <1>5 DEF AtWork
<1>7. CASE UsedUp
  BY <1>6, <1>7, MoreAtWork DEF Turn
<1>8. CASE ~UsedUp
  <2> SUFFICES ASSUME NEW k \in Jobs, job'[k] = "queued" PROVE Ending(k)'
    BY DEF Turn
  <2>1. job[k] = "queued"
    BY <1>2, <1>8, StaysQueued DEF Informed
  <2>2. Ending(k)
    BY <1>2, <1>8, <2>1 DEF Turn
  <2>3. k # i
    <3>1. CASE session[s].op = "create"
      BY <1>1, <2>1, <3>1 DEF IInv, Creations
    <3>2. CASE session[s].op # "create"
      BY <3>2, OwnLeaves
    <3> QED
      BY <3>1, <3>2
  <2>4. lock[k] # s
    BY <2>2, <2>3 DEF Ending
  <2> QED
    BY <2>2, <2>4, EndingStays
<1> QED
  BY <1>7, <1>8

LEMMA ServedCommit ==
  ASSUME IInv, Looked, Served, NEW s \in Sessions, Commit(s)
  PROVE  Served'
<1> SUFFICES ASSUME faults' = 0, ~stale' PROVE Turn' /\ \A t \in Sessions : Open(t)' => Informed(t)'
  BY DEF Served
<1>1. faults = 0 /\ session'[s] = Idle
  BY DEF Commit, IInv, TypeOK, SessionsTyped
<1>2. Turn'
  BY <1>1, DequeueCommits, OthersCommit
<1>3. ASSUME NEW t \in Sessions, Open(t)' PROVE Informed(t)'
  <2>1. t # s
    BY <1>1, <1>3
  <2> QED
    BY <1>3, <2>1, OthersUninformed
<1> QED
  BY <1>2, <1>3

LEMMA QueueNext == IInv /\ Looked /\ Ranked /\ Served /\ [Next]_vars => Ranked' /\ Served'
<1> SUFFICES ASSUME IInv, Looked, Ranked, Served, [Next]_vars PROVE Ranked' /\ Served'
  OBVIOUS
<1>1. CASE UNCHANGED vars
  <2>1. AtWork' = AtWork /\ (UsedUp' <=> UsedUp) /\ Ranked'
    BY <1>1 DEF vars, AtWork, UsedUp, Ranked
  <2>2. \A s \in Sessions : (\A k \in Jobs : View(s, k)' = View(s, k)) /\ Full(s)' = Full(s)
    BY <1>1, SameView DEF vars
  <2>3. \A s \in Sessions : Informed(s) => Informed(s)'
    BY <1>1, <2>1, <2>2 DEF vars, Informed
  <2>4. Turn => Turn'
    BY <1>1, <2>1 DEF vars, Turn, Ending
  <2> QED
    BY <1>1, <2>1, <2>3, <2>4 DEF vars, Served
<1>2. CASE Next /\ Sessions = {}
  <2>1. /\ (\E j \in Jobs : ExpireFails(j)) \/ Restart
        /\ faults' # 0 /\ UNCHANGED born
    BY <1>2, FaultCounts DEF Next, Arrival, ExpireFails, Restart, IInv
  <2> QED
    BY <1>2, <2>1 DEF Served, Ranked
<1>3. ASSUME Next, NEW t \in Sessions PROVE Ranked' /\ Served'
  <2>1. PICK s \in Sessions : Step(s)
    BY <1>3, NextIsStep
  <2>2. Ranked'
    BY <2>1, RankedKept DEF IInv
  <2>3. CASE Commit(s)
    BY <2>2, <2>3, ServedCommit
  <2>4. CASE Fault
    <3>1. faults' # 0
      BY <2>4, FaultCounts DEF IInv
    <3> QED
      BY <2>2, <3>1 DEF Served
  <2>5. CASE ~Commit(s) /\ ~Fault /\ faults = 0 /\ ~stale
    BY <2>1, <2>2, <2>5, ServedQuiet
  <2>6. CASE ~Commit(s) /\ ~Fault /\ ~(faults = 0 /\ ~stale)
    <3>1. stale' = stale
      BY <2>1, <2>6, RowsStand
    <3>2. faults' = faults
      BY <2>1, <2>6 DEF Step, CreateBegin, CreateRefused, CreateAdmitted, CreateDecides, CreateSent,
         CreateSendFails, CancelBegin, CancelSent, CancelSendFails, ForceSendFails, ReportBegin,
         ExpireBegin, ExpireFails, Flush, FlushNothing, Tally, PickNone, Pick, PromoteSent,
         PromoteSendFails, SessionAborts, Restart
    <3> QED
      BY <2>2, <2>6, <3>1, <3>2 DEF Served
  <2> QED
    BY <2>3, <2>4, <2>5, <2>6
<1> QED
  BY <1>1, <1>2, <1>3

\* Whoever is promoted is the oldest of those that nobody holds.
LEMMA OrderStep ==
  ASSUME IInv, Looked, Ranked, Served, Next, NEW j \in Jobs, NEW k \in Jobs,
         job[j] = "queued", job'[j] = "pending", job[k] = "queued", job'[k] = "queued",
         faults = 0, ~stale'
  PROVE  born[j] < born[k] \/ lock[k] # Null
<1>1. PICK s \in Sessions : Commit(s)
  <2>1. job' # job
    OBVIOUS
  <2> QED
    BY <2>1 DEF Next, Arrival, SessionStep, CreateBegin, CreateRefused, CreateAdmitted, CreateDecides,
       CreateSent, CreateSendFails, CancelBegin, CancelSent, CancelSendFails, ForceSendFails, ReportBegin,
       ExpireBegin, ExpireFails, Flush, FlushNothing, Tally, PickNone, Pick, PromoteSent,
       PromoteSendFails, SessionAborts, Restart
<1>2. /\ job'[j] = Written(s, j) /\ job'[k] = Written(s, k) /\ session[s].pc = "committing"
      /\ Open(s) /\ ~stale
  BY <1>1 DEF Commit
<1>3. ~(j = session[s].job /\ session[s].new = "pending")
  BY <1>2 DEF IInv, Operations, Creations, Target
<1>4. j = session[s].picked /\ session[s].promote
  BY <1>2, <1>3 DEF Written
<1>5. k # j
  OBVIOUS
<1>6. View(s, k) = "queued"
  BY <1>2, <1>4, <1>5 DEF Written, View
<1>7. born[j] <= born[k] \/ lock[k] # Null
  BY <1>2, <1>4, <1>6, NullIsNothing DEF Served, Informed
<1>8. born[j] > 0 /\ born[j] # born[k] /\ born[j] \in Nat /\ born[k] \in Nat
  BY <1>5 DEF IInv, Unborn, TypeOK, Ranked
<1> QED
  BY <1>7, <1>8

LEMMA QueueHolds == Spec => [](IInv /\ Looked /\ Ranked /\ Served)
<1>1. Init => IInv /\ Looked /\ Ranked /\ Served
  BY InitHolds, LookedStart, QueueStart
<1>2. (IInv /\ Looked /\ Ranked /\ Served) /\ [Next]_vars => (IInv /\ Looked /\ Ranked /\ Served)'
  BY NextHolds, LookedNext, QueueNext
<1> QED
  BY <1>1, <1>2, PTL DEF Spec

\* However requests overlap, a job is promoted past an older one that stays
\* queued only if somebody is cancelling that one, as long as nothing failed and
\* no commit overtook what another session had looked at
\* (iran/api/jobs.py:256-268).
THEOREM OldestFirst == Spec => PromotedInOrder
<1> DEFINE A == \A j, k \in Jobs :
                  /\ job[j] = "queued" /\ job'[j] = "pending"
                  /\ job[k] = "queued" /\ job'[k] = "queued"
                  /\ faults = 0 /\ ~stale'
                  => born[j] < born[k] \/ lock[k] # Null
<1>1. (IInv /\ Looked /\ Ranked /\ Served) /\ [Next]_vars => [A]_vars
  BY OrderStep
<1> QED
  BY <1>1, QueueHolds, PTL DEF Spec, PromotedInOrder

\* However requests overlap, when nothing is going on the jobs that wait wait for
\* a slot, as long as nothing failed and no commit overtook what another session
\* had looked at (iran/api/jobs.py:245-292, 479-499).
THEOREM QueueIsServed == Spec => []StrandedOnlyWhenStale
<1>1. IInv /\ Looked /\ Ranked /\ Served => StrandedOnlyWhenStale
  <2> SUFFICES ASSUME IInv, Served, ~stale, \A s \in Sessions : ~Open(s), faults = 0,
                      NEW j \in Jobs, job[j] = "queued"
               PROVE  Limit > 0 /\ Cardinality({k \in Jobs : job[k] \in Dispatched}) >= Limit
    BY DEF StrandedOnlyWhenStale, NoStrandedQueue
  <2>1. ~Ending(j)
    BY HolderOpen DEF Ending, PastFlush
  <2>2. UsedUp
    BY <2>1 DEF Served, Turn
  <2> QED
    BY <2>2 DEF UsedUp, AtWork
<1> QED
  BY <1>1, QueueHolds, PTL
=============================================================================
