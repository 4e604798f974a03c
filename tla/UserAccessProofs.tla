-------------------------- MODULE UserAccessProofs --------------------------
(***************************************************************************)
(* Theorems about UserAccess, for any users, admin sessions and bounds.    *)
(*                                                                         *)
(* The argument: a block goes out before its commit, and no message takes  *)
(* anybody off the blocklist; messages arrive in the order in which they   *)
(* were sent.  So a user who is, or is about to be, blocked on the site is *)
(* on the worker's blocklist or announced to it (BlockedFirst), and a job  *)
(* dispatched after that is behind the announcement (JobsBehindBlocks).    *)
(***************************************************************************)
EXTENDS UserAccess, SequenceTheorems, TLAPS

-----------------------------------------------------------------------------
(* The inductive invariant.                                                *)

\* No code of the site sends user.block.remove.
NobodyUnblocked == \A i \in 1..Len(channel) : channel[i].type # "user.block.remove"

\* Before position n of the channel there is a block of u, or the worker has it.
BlockedBefore(u, n) ==
  \/ u \in lists.blocklist
  \/ \E k \in 1..Len(channel) :
       k < n /\ channel[k].type = "user.block.add" /\ channel[k].user = u

\* The worker blocks u, or will when it has emptied the channel.
BlockSettled(u) == BlockedBefore(u, Len(channel) + 1)

Blocking(s, u) ==
  request[s].pc = "committing" /\ request[s].action = "block" /\ request[s].user = u

BlockedFirst ==
  ~lossy => \A u \in Users :
    status[u] = "blocked" \/ (\E s \in Sessions : Blocking(s, u)) => BlockSettled(u)

JobsBehindBlocks ==
  ~lossy => \A i \in 1..Len(channel) :
    channel[i].overdue => BlockedBefore(channel[i].user, i)

IInv ==
  TypeOK /\ DiskIsCurrent /\ NobodyUnblocked /\ BlockedFirst /\ JobsBehindBlocks

-----------------------------------------------------------------------------
USE DEF Statuses, Decisions, Actions, NewStatus, ControlType, Announces, Idle,
        Open, Message, Empty, Fault, Transmit, IsControl, ControlArrives,
        ControlTypes, MessageType, ListsType, RequestType, site, worker

LEMMA InitHolds == Init => IInv
<1>1. SUFFICES ASSUME Init PROVE IInv
  OBVIOUS
<1>2. channel \in Seq(MessageType) /\ 1..Len(channel) = {}
  BY <1>1 DEF Init
<1>3. TypeOK
  BY <1>1, <1>2, FoundersAreUsers DEF Init, TypeOK, RequestsTyped
<1>4. DiskIsCurrent
  BY <1>1 DEF Init, DiskIsCurrent
<1>5. NobodyUnblocked /\ JobsBehindBlocks
  BY <1>2 DEF NobodyUnblocked, JobsBehindBlocks
<1>6. BlockedFirst
  BY <1>1 DEF Init, BlockedFirst, Blocking
<1>7. QED
  BY <1>3, <1>4, <1>5, <1>6 DEF IInv

\* What a sent message does to the channel.
LEMMA Appended ==
  ASSUME TypeOK, NEW m \in MessageType, channel' = Append(channel, m)
  PROVE  /\ channel' \in Seq(MessageType)
         /\ Len(channel) \in Nat
         /\ Len(channel') = Len(channel) + 1
         /\ \A i \in 1..Len(channel) : channel'[i] = channel[i]
         /\ channel'[Len(channel) + 1] = m
<1>1. channel \in Seq(MessageType)
  BY DEF TypeOK
<1>2. QED
  BY <1>1, AppendProperties, LenProperties

\* What a delivery does to the channel.
LEMMA Taken ==
  ASSUME TypeOK, channel # <<>>, channel' = Tail(channel)
  PROVE  /\ channel' \in Seq(MessageType)
         /\ Len(channel) \in Nat \ {0}
         /\ Len(channel') = Len(channel) - 1
         /\ \A i \in 1..Len(channel') : channel'[i] = channel[i + 1]
         /\ Head(channel) = channel[1]
         /\ Head(channel) \in MessageType
<1>1. channel \in Seq(MessageType)
  BY DEF TypeOK
<1>2. /\ Tail(channel) \in Seq(MessageType)
      /\ Len(Tail(channel)) = Len(channel) - 1
      /\ \A i \in 1..Len(Tail(channel)) : Tail(channel)[i] = channel[i + 1]
      /\ Head(channel) \in MessageType
  BY <1>1, HeadTailProperties
<1>3. Head(channel) = channel[1]
  BY <1>1
<1>4. Len(channel) \in Nat \ {0}
  BY <1>1, EmptySeq, LenProperties
<1>5. QED
  BY <1>1, <1>2, <1>3, <1>4

-----------------------------------------------------------------------------
(* Types.                                                                  *)

LEMMA RequestTypes ==
  ASSUME TypeOK, NEW s \in Sessions,
         \/ \E action \in Actions, u \in Users : RequestBegin(s, action, u)
         \/ AdminStep(s) \/ RequestAborts(s)
  PROVE  TypeOK'
<1>1. ASSUME NEW action \in Actions, NEW u \in Users, RequestBegin(s, action, u)
      PROVE  TypeOK'
  BY <1>1 DEF TypeOK, RequestsTyped, RequestBegin
<1>2. ASSUME request[s].pc = "sending"
      PROVE  Message(ControlType[request[s].action], request[s].user, FALSE) \in MessageType
  BY <1>2 DEF TypeOK, RequestsTyped
<1>3. CASE ControlSent(s)
  <2>1. channel' \in Seq(MessageType)
    BY <1>2, <1>3, Appended DEF ControlSent
  <2>2. /\ request[s] \in RequestType
        /\ request' = [request EXCEPT ![s].pc = "committing"]
    BY <1>3 DEF TypeOK, RequestsTyped, ControlSent
  <2>3. /\ request' \in [Sessions -> RequestType]
        /\ \A t \in Sessions : request'[t].user = request[t].user
                               /\ request'[t].action = request[t].action
                               /\ (request'[t].pc # "sending" \/ request'[t] = request[t])
    BY <2>2 DEF TypeOK, RequestsTyped
  <2>4. RequestsTyped'
    BY <1>3, <2>3 DEF TypeOK, RequestsTyped, ControlSent
  <2>5. QED
    BY <1>3, <2>1, <2>4 DEF TypeOK, ControlSent
<1>4. CASE ControlSendFails(s)
  <2>1. channel' \in Seq(MessageType)
    BY <1>2, <1>4, Appended DEF ControlSendFails, TypeOK
  <2>2. disturbed' \subseteq Users
    BY <1>4 DEF TypeOK, RequestsTyped, ControlSendFails
  <2>3. QED
    BY <1>4, <2>1, <2>2 DEF TypeOK, RequestsTyped, ControlSendFails
<1>5. CASE RequestCommit(s)
  BY <1>5 DEF TypeOK, RequestsTyped, RequestCommit
<1>6. CASE RequestAborts(s)
  BY <1>6 DEF TypeOK, RequestsTyped, RequestAborts
<1>7. QED
  BY <1>1, <1>3, <1>4, <1>5, <1>6 DEF AdminStep

LEMMA OtherTypes ==
  ASSUME TypeOK,
         \/ \E u \in Users : Register(u) \/ JobAdmitted(u) \/ JobDispatched(u)
         \/ WorkerStep \/ ControlNotPersisted \/ MessageLost \/ WorkerRestarts
  PROVE  TypeOK'
<1>1. ASSUME NEW u \in Users, Register(u) PROVE TypeOK'
  BY <1>1 DEF TypeOK, RequestsTyped, Register
<1>2. ASSUME NEW u \in Users, JobAdmitted(u) PROVE TypeOK'
  BY <1>2 DEF TypeOK, RequestsTyped, JobAdmitted
<1>3. ASSUME NEW u \in Users, JobDispatched(u) PROVE TypeOK'
  <2>1. channel' \in Seq(MessageType)
    BY <1>3, Appended DEF JobDispatched
  <2>2. QED
    BY <1>3, <2>1 DEF TypeOK, RequestsTyped, JobDispatched
<1>4. ASSUME ControlArrives PROVE Updated(Head(channel)) \in ListsType
  <2>1. Head(channel) \in MessageType
    BY <1>4, HeadTailProperties DEF TypeOK
  <2>2. Head(channel).type \in ControlTypes /\ Head(channel).user \in Users
    BY <1>4, <2>1
  <2>3. lists \in ListsType
    BY DEF TypeOK
  <2>4. QED
    BY <2>2, <2>3 DEF Updated
<1>5. CASE ControlHandled
  <2>1. channel' \in Seq(MessageType)
    BY <1>5, Taken DEF ControlHandled
  <2>2. lists' \in ListsType /\ disk' \in ListsType
    BY <1>4, <1>5 DEF ControlHandled, TypeOK
  <2>3. QED
    BY <1>5, <2>1, <2>2 DEF TypeOK, RequestsTyped, ControlHandled
<1>6. CASE ControlNotPersisted
  <2>1. channel' \in Seq(MessageType)
    BY <1>6, Taken DEF ControlNotPersisted
  <2>2. lists' \in ListsType
    BY <1>4, <1>6 DEF ControlNotPersisted, TypeOK
  <2>3. QED
    BY <1>6, <2>1, <2>2 DEF TypeOK, RequestsTyped, ControlNotPersisted
<1>7. CASE JobChecked
  <2>1. channel' \in Seq(MessageType)
    BY <1>7, Taken DEF JobChecked
  <2>2. verdict' \in [Users -> Decisions \cup {"none"}]
    BY <1>7, Taken DEF JobChecked, TypeOK, CheckAccess
  <2>3. QED
    BY <1>7, <2>1, <2>2 DEF TypeOK, RequestsTyped, JobChecked
<1>8. CASE MessageLost
  <2>1. channel' \in Seq(MessageType)
    BY <1>8, Taken DEF MessageLost
  <2>2. QED
    BY <1>8, <2>1 DEF TypeOK, RequestsTyped, MessageLost
<1>9. CASE WorkerRestarts
  BY <1>9 DEF TypeOK, RequestsTyped, WorkerRestarts
<1>10. QED
  BY <1>1, <1>2, <1>3, <1>5, <1>6, <1>7, <1>8, <1>9 DEF WorkerStep

-----------------------------------------------------------------------------
(* Blocks and what follows them in the channel.                            *)

\* Appending a message neither loses nor overtakes a block.
LEMMA KeptByAppend ==
  ASSUME TypeOK, NEW m \in MessageType, channel' = Append(channel, m),
         lists' = lists, NEW u \in Users, NEW n \in Nat, BlockedBefore(u, n)
  PROVE  BlockedBefore(u, n)'
<1>1. /\ Len(channel) \in Nat
      /\ Len(channel') = Len(channel) + 1
      /\ \A i \in 1..Len(channel) : channel'[i] = channel[i]
  BY Appended
<1>2. QED
  BY <1>1 DEF BlockedBefore

\* Nor does delivering the first one, if a block takes effect by it.
LEMMA KeptByDelivery ==
  ASSUME TypeOK, channel # <<>>, channel' = Tail(channel),
         lists.blocklist \subseteq lists'.blocklist,
         Head(channel).type = "user.block.add" => Head(channel).user \in lists'.blocklist,
         NEW u \in Users, NEW n \in Nat, BlockedBefore(u, n + 1)
  PROVE  BlockedBefore(u, n)'
<1>1. CASE u \in lists.blocklist
  BY <1>1 DEF BlockedBefore
<1>2. CASE \E k \in 1..Len(channel) :
             k < n + 1 /\ channel[k].type = "user.block.add" /\ channel[k].user = u
  <2>1. PICK k \in 1..Len(channel) :
          k < n + 1 /\ channel[k].type = "user.block.add" /\ channel[k].user = u
    BY <1>2
  <2>2. /\ Len(channel) \in Nat \ {0}
        /\ Len(channel') = Len(channel) - 1
        /\ \A i \in 1..Len(channel') : channel'[i] = channel[i + 1]
        /\ Head(channel) = channel[1]
    BY Taken
  <2>3. CASE k = 1
    BY <2>1, <2>2, <2>3 DEF BlockedBefore
  <2>4. CASE k # 1
    <3>1. k - 1 \in 1..Len(channel') /\ k - 1 < n /\ channel'[k - 1] = channel[k]
      BY <2>1, <2>2, <2>4
    <3>2. QED
      BY <2>1, <3>1 DEF BlockedBefore
  <2>5. QED
    BY <2>3, <2>4
<1>3. QED
  BY <1>1, <1>2 DEF BlockedBefore

\* The worker's handlers never shorten the blocklist, and block.add extends it.
LEMMA HandlersKeepBlocks ==
  ASSUME IInv, ControlArrives, lists' = Updated(Head(channel))
  PROVE  /\ lists.blocklist \subseteq lists'.blocklist
         /\ Head(channel).type = "user.block.add" => Head(channel).user \in lists'.blocklist
<1>1. /\ Head(channel) \in MessageType
      /\ Head(channel) = channel[1]
      /\ Len(channel) \in Nat \ {0}
  <2>1. channel \in Seq(MessageType) /\ channel # <<>>
    BY DEF IInv, TypeOK
  <2>2. Head(channel) \in MessageType
    BY <2>1, HeadTailProperties
  <2>3. Len(channel) \in Nat \ {0}
    BY <2>1, EmptySeq
  <2>4. Head(channel) = channel[1]
    BY <2>1
  <2>5. QED
    BY <2>2, <2>3, <2>4
<1>2. Head(channel).type \in ControlTypes \ {"user.block.remove"}
  BY <1>1 DEF IInv, NobodyUnblocked
<1>3. lists \in ListsType
  BY DEF IInv, TypeOK
<1>4. QED
  BY <1>2, <1>3 DEF Updated

-----------------------------------------------------------------------------
(* Steps that leave the channel and the worker alone.                      *)

\* Nothing about blocks changes unless somebody comes to be blocked.
LEMMA QuietStep ==
  ASSUME IInv, UNCHANGED <<channel, lists, disk, lossy>>, TypeOK',
         \A u \in Users :
           (\/ status'[u] = "blocked" /\ status[u] # "blocked"
            \/ \E s \in Sessions : Blocking(s, u)' /\ ~Blocking(s, u))
             => (~lossy => BlockSettled(u))
  PROVE  IInv'
<1>1. DiskIsCurrent' /\ NobodyUnblocked'
  BY DEF IInv, DiskIsCurrent, NobodyUnblocked
<1>2. \A u, n : BlockedBefore(u, n)' <=> BlockedBefore(u, n)
  BY DEF BlockedBefore
<1>3. JobsBehindBlocks'
  BY <1>2 DEF IInv, JobsBehindBlocks
<1>4. BlockedFirst'
  BY <1>2 DEF IInv, BlockedFirst, BlockSettled
<1>5. QED
  BY <1>1, <1>3, <1>4 DEF IInv

LEMMA QuietSteps ==
  ASSUME IInv,
         \/ \E u \in Users : Register(u) \/ JobAdmitted(u)
         \/ \E s \in Sessions, action \in Actions, u \in Users : RequestBegin(s, action, u)
         \/ \E s \in Sessions : RequestCommit(s) \/ RequestAborts(s)
  PROVE  IInv'
<1>1. TypeOK
  BY DEF IInv
<1>2. TypeOK'
  BY <1>1, RequestTypes, OtherTypes DEF AdminStep
<1>3. ASSUME NEW u \in Users, Register(u) \/ JobAdmitted(u) PROVE IInv'
  <2>1. /\ UNCHANGED <<channel, lists, disk, lossy, request>>
        /\ \A v \in Users : status'[v] = "blocked" => status[v] = "blocked"
    BY <1>1, <1>3 DEF TypeOK, Register, JobAdmitted
  <2>2. QED
    BY <1>2, <2>1, QuietStep DEF Blocking
<1>4. ASSUME NEW s \in Sessions, NEW action \in Actions, NEW u \in Users,
             RequestBegin(s, action, u)
      PROVE  IInv'
  <2>1. UNCHANGED <<channel, lists, disk, lossy, status>>
    BY <1>4 DEF RequestBegin
  <2>2. \A t \in Sessions, v \in Users : Blocking(t, v)' => Blocking(t, v)
    BY <1>1, <1>4 DEF TypeOK, RequestsTyped, RequestBegin, Blocking
  <2>3. QED
    BY <1>2, <2>1, <2>2, QuietStep
<1>5. ASSUME NEW s \in Sessions, RequestCommit(s) PROVE IInv'
  <2>1. UNCHANGED <<channel, lists, disk, lossy>>
    BY <1>5 DEF RequestCommit
  <2>2. \A t \in Sessions, v \in Users : Blocking(t, v)' => Blocking(t, v)
    BY <1>1, <1>5 DEF TypeOK, RequestsTyped, RequestCommit, Blocking
  <2>3. \A v \in Users : status'[v] = "blocked" /\ status[v] # "blocked" => Blocking(s, v)
    BY <1>1, <1>5 DEF TypeOK, RequestsTyped, RequestCommit, Blocking
  <2>4. \A v \in Users : status'[v] = "blocked" /\ status[v] # "blocked"
          => (~lossy => BlockSettled(v))
    BY <2>3 DEF IInv, BlockedFirst
  <2>5. QED
    BY <1>2, <2>1, <2>2, <2>4, QuietStep
<1>6. ASSUME NEW s \in Sessions, RequestAborts(s) PROVE IInv'
  <2>1. UNCHANGED <<channel, lists, disk, lossy, status>>
    BY <1>6 DEF RequestAborts
  <2>2. \A t \in Sessions, v \in Users : Blocking(t, v)' => Blocking(t, v)
    BY <1>1, <1>6 DEF TypeOK, RequestsTyped, RequestAborts, Blocking
  <2>3. QED
    BY <1>2, <2>1, <2>2, QuietStep
<1>7. QED
  BY <1>3, <1>4, <1>5, <1>6

-----------------------------------------------------------------------------
(* Steps that send.                                                        *)

\* A message other than user.block.remove is sent; if the owner of a job is
\* blocked by then, or the message makes somebody blocked, that is settled.
LEMMA SendStep ==
  ASSUME IInv, TypeOK', UNCHANGED <<lists, disk, status>>, lossy' = lossy,
         NEW m \in MessageType, channel' = Append(channel, m),
         m.type # "user.block.remove",
         m.overdue => status[m.user] = "blocked",
         \A u \in Users : (\E s \in Sessions : Blocking(s, u)' /\ ~Blocking(s, u))
           => m.type = "user.block.add" /\ m.user = u
  PROVE  IInv'
<1>1. /\ Len(channel) \in Nat
      /\ Len(channel') = Len(channel) + 1
      /\ \A i \in 1..Len(channel) : channel'[i] = channel[i]
      /\ channel'[Len(channel) + 1] = m
  BY Appended DEF IInv
<1>2. DiskIsCurrent'
  BY DEF IInv, DiskIsCurrent
<1>3. NobodyUnblocked'
  BY <1>1 DEF IInv, NobodyUnblocked
<1>4. \A u \in Users, n \in Nat : BlockedBefore(u, n) => BlockedBefore(u, n)'
  BY KeptByAppend DEF IInv
<1>5. ASSUME NEW u \in Users, BlockSettled(u)
      PROVE  BlockSettled(u)' /\ \A n \in Nat : n = Len(channel) + 1 => BlockedBefore(u, n)'
  <2>1. PICK n \in Nat : n = Len(channel) + 1
    BY <1>1
  <2>2. BlockedBefore(u, n)
    BY <1>5, <2>1 DEF BlockSettled
  <2>3. BlockedBefore(u, n)'
    BY <1>4, <2>2
  <2>4. QED
    BY <1>1, <2>1, <2>3 DEF BlockSettled, BlockedBefore
<1>6. BlockedFirst'
  <2>1. SUFFICES ASSUME ~lossy, NEW u \in Users,
                        status[u] = "blocked" \/ \E s \in Sessions : Blocking(s, u)'
                 PROVE  BlockSettled(u)'
    BY DEF BlockedFirst
  <2>2. CASE status[u] = "blocked" \/ \E s \in Sessions : Blocking(s, u)
    BY <1>5, <2>1, <2>2 DEF IInv, BlockedFirst
  <2>3. CASE m.type = "user.block.add" /\ m.user = u
    BY <1>1, <2>3 DEF BlockSettled, BlockedBefore
  <2>4. QED
    BY <2>1, <2>2, <2>3
<1>7. JobsBehindBlocks'
  <2>1. SUFFICES ASSUME ~lossy, NEW i \in 1..Len(channel'), channel'[i].overdue,
                        NEW u, u = channel'[i].user
                 PROVE  BlockedBefore(u, i)'
    BY DEF JobsBehindBlocks
  <2>2. CASE i \in 1..Len(channel)
    <3>0. channel \in Seq(MessageType)
      BY DEF IInv, TypeOK
    <3>1. channel[i] \in MessageType
      BY <2>2, <3>0, ElementOfSeq
    <3>2. channel'[i] = channel[i] /\ u \in Users /\ i \in Nat
      BY <1>1, <2>1, <2>2, <3>1
    <3>3. BlockedBefore(u, i)
      BY <2>1, <2>2, <3>2 DEF IInv, JobsBehindBlocks
    <3>4. QED
      BY <1>4, <3>2, <3>3
  <2>3. CASE i = Len(channel) + 1
    <3>1. status[u] = "blocked" /\ u \in Users
      BY <1>1, <2>1, <2>3
    <3>2. BlockSettled(u)
      BY <2>1, <3>1 DEF IInv, BlockedFirst
    <3>3. QED
      BY <1>1, <1>5, <2>3, <3>1, <3>2
  <2>4. QED
    BY <1>1, <2>2, <2>3
<1>8. QED
  BY <1>2, <1>3, <1>6, <1>7 DEF IInv

LEMMA SendSteps ==
  ASSUME IInv,
         \/ \E s \in Sessions : ControlSent(s) \/ ControlSendFails(s)
         \/ \E u \in Users : JobDispatched(u)
  PROVE  IInv'
<1>1. TypeOK
  BY DEF IInv
<1>2. TypeOK'
  BY <1>1, RequestTypes, OtherTypes DEF AdminStep
<1>3. ASSUME NEW s \in Sessions, ControlSent(s) \/ ControlSendFails(s),
             channel' # channel
      PROVE  IInv'
  <2> DEFINE m == Message(ControlType[request[s].action], request[s].user, FALSE)
  <2>1. request[s].pc = "sending" /\ channel' = Append(channel, m)
    BY <1>3 DEF ControlSent, ControlSendFails
  <2>2. /\ request[s].user \in Users
        /\ request[s].action \in Actions \ {"reject_registration"}
    BY <1>1, <2>1 DEF TypeOK, RequestsTyped
  <2>3. /\ m \in MessageType
        /\ m.type # "user.block.remove"
        /\ ~m.overdue
        /\ request[s].action = "block" => m.type = "user.block.add"
        /\ m.user = request[s].user
    BY <2>2
  <2>4. \A t \in Sessions, u \in Users : Blocking(t, u)' /\ ~Blocking(t, u)
          => t = s /\ request[s].action = "block" /\ request[s].user = u
    BY <1>1, <1>3, <2>1 DEF TypeOK, RequestsTyped, ControlSent, ControlSendFails, Blocking
  <2>5. UNCHANGED <<lists, disk, status, lossy>>
    BY <1>3 DEF ControlSent, ControlSendFails
  <2> HIDE DEF m
  <2>6. QED
    BY <1>2, <2>1, <2>3, <2>4, <2>5, SendStep
<1>4. ASSUME NEW s \in Sessions, ControlSendFails(s), channel' = channel
      PROVE  IInv'
  <2>1. UNCHANGED <<channel, lists, disk, lossy, status>>
    BY <1>4 DEF ControlSendFails
  <2>2. \A t \in Sessions, u \in Users : Blocking(t, u)' => Blocking(t, u)
    BY <1>1, <1>4 DEF TypeOK, RequestsTyped, ControlSendFails, Blocking
  <2>3. QED
    BY <1>2, <2>1, <2>2, QuietStep
<1>5. ASSUME NEW s \in Sessions, ControlSent(s) PROVE channel' # channel
  <2> DEFINE m == Message(ControlType[request[s].action], request[s].user, FALSE)
  <2>1. m \in MessageType /\ channel' = Append(channel, m)
    BY <1>1, <1>5 DEF TypeOK, RequestsTyped, ControlSent
  <2> HIDE DEF m
  <2>2. Len(channel') = Len(channel) + 1 /\ Len(channel) \in Nat
    BY <1>1, <2>1, Appended
  <2>3. QED
    BY <2>2
<1>6. ASSUME NEW u \in Users, JobDispatched(u) PROVE IInv'
  <2> DEFINE m == Message("job.create", u, status[u] = "blocked")
  <2>1. m \in MessageType /\ m.type = "job.create" /\ m.user = u
    BY <1>6
  <2>2. m.overdue => status[u] = "blocked"
    OBVIOUS
  <2>3. UNCHANGED <<lists, disk, status, lossy, request>> /\ channel' = Append(channel, m)
    BY <1>6 DEF JobDispatched
  <2>4. \A t \in Sessions, v \in Users : Blocking(t, v)' <=> Blocking(t, v)
    BY <2>3 DEF Blocking
  <2> HIDE DEF m
  <2>5. QED
    BY <1>2, <2>1, <2>2, <2>3, <2>4, SendStep
<1>7. QED
  BY <1>3, <1>4, <1>5, <1>6

-----------------------------------------------------------------------------
(* Steps of the worker.                                                    *)

\* The first message is delivered: a block among them takes effect.
LEMMA DeliveryStep ==
  ASSUME IInv, TypeOK', UNCHANGED <<site, lossy>>,
         channel # <<>>, channel' = Tail(channel), DiskIsCurrent',
         lists.blocklist \subseteq lists'.blocklist,
         Head(channel).type = "user.block.add" => Head(channel).user \in lists'.blocklist
  PROVE  IInv'
<1>1. /\ Len(channel) \in Nat \ {0}
      /\ Len(channel') = Len(channel) - 1
      /\ \A i \in 1..Len(channel') : channel'[i] = channel[i + 1]
      /\ channel' \in Seq(MessageType)
  BY Taken DEF IInv
<1>2. NobodyUnblocked'
  BY <1>1 DEF IInv, NobodyUnblocked
<1>3. \A u \in Users, n \in Nat : BlockedBefore(u, n + 1) => BlockedBefore(u, n)'
  BY KeptByDelivery DEF IInv
<1>4. BlockedFirst'
  <2>1. SUFFICES ASSUME ~lossy, NEW u \in Users,
                        status[u] = "blocked" \/ \E s \in Sessions : Blocking(s, u)
                 PROVE  BlockSettled(u)'
    BY DEF BlockedFirst, Blocking
  <2>2. PICK n \in Nat : n = Len(channel)
    BY <1>1
  <2>3. BlockedBefore(u, n + 1)
    BY <2>1, <2>2 DEF IInv, BlockedFirst, BlockSettled
  <2>4. BlockedBefore(u, n)'
    BY <1>3, <2>3
  <2>5. QED
    BY <1>1, <2>2, <2>4 DEF BlockSettled
<1>5. JobsBehindBlocks'
  <2>1. SUFFICES ASSUME ~lossy, NEW i \in 1..Len(channel'), channel'[i].overdue,
                        NEW u, u = channel'[i].user
                 PROVE  BlockedBefore(u, i)'
    BY DEF JobsBehindBlocks
  <2>2. i \in Nat /\ i + 1 \in 1..Len(channel) /\ channel'[i] = channel[i + 1]
    BY <1>1
  <2>3. u \in Users
    <3>1. channel'[i] \in MessageType
      BY <1>1, ElementOfSeq
    <3>2. QED
      BY <2>1, <3>1
  <2>4. BlockedBefore(u, i + 1)
    BY <2>1, <2>2 DEF IInv, JobsBehindBlocks
  <2>5. QED
    BY <1>3, <2>2, <2>3, <2>4
<1>6. QED
  BY <1>2, <1>4, <1>5 DEF IInv

\* Steps after which nothing is promised but types.
LEMMA LossyStep ==
  ASSUME IInv, TypeOK', lossy', channel # <<>>, channel' = Tail(channel)
  PROVE  IInv'
<1>1. /\ Len(channel) \in Nat \ {0}
      /\ Len(channel') = Len(channel) - 1
      /\ \A i \in 1..Len(channel') : channel'[i] = channel[i + 1]
  BY Taken DEF IInv
<1>2. NobodyUnblocked'
  BY <1>1 DEF IInv, NobodyUnblocked
<1>3. QED
  BY <1>2 DEF IInv, DiskIsCurrent, BlockedFirst, JobsBehindBlocks

LEMMA WorkerSteps ==
  ASSUME IInv, WorkerStep \/ ControlNotPersisted \/ MessageLost \/ WorkerRestarts
  PROVE  IInv'
<1>1. TypeOK'
  BY OtherTypes DEF IInv
<1>2. CASE ControlHandled
  <2>1. /\ ControlArrives
        /\ channel' = Tail(channel)
        /\ lists' = Updated(Head(channel))
        /\ UNCHANGED <<site, lossy>>
    BY <1>2 DEF ControlHandled
  <2>2. DiskIsCurrent'
    BY <1>2 DEF ControlHandled, IInv, DiskIsCurrent
  <2>3. /\ lists.blocklist \subseteq lists'.blocklist
        /\ Head(channel).type = "user.block.add" => Head(channel).user \in lists'.blocklist
    BY <2>1, HandlersKeepBlocks
  <2>4. channel # <<>>
    BY <2>1
  <2>5. QED
    BY <1>1, <2>1, <2>2, <2>3, <2>4, DeliveryStep
<1>3. CASE JobChecked
  <2>1. /\ channel # <<>>
        /\ channel' = Tail(channel)
        /\ Head(channel).type = "job.create"
        /\ UNCHANGED <<site, lists, disk, lossy>>
    BY <1>3 DEF JobChecked
  <2>2. DiskIsCurrent'
    BY <2>1 DEF IInv, DiskIsCurrent
  <2>3. QED
    BY <1>1, <2>1, <2>2, DeliveryStep
<1>4. CASE ControlNotPersisted \/ MessageLost
  <2>1. lossy' /\ channel # <<>> /\ channel' = Tail(channel)
    BY <1>4 DEF ControlNotPersisted, MessageLost
  <2>2. QED
    BY <1>1, <2>1, LossyStep
<1>5. CASE WorkerRestarts
  <2>1. UNCHANGED <<channel, disk, lossy, status, request>> /\ lists' = disk
    BY <1>5 DEF WorkerRestarts
  <2>2. CASE ~lossy
    <3>1. lists' = lists
      BY <2>1, <2>2 DEF IInv, DiskIsCurrent
    <3>2. QED
      BY <1>1, <2>1, <3>1, QuietStep DEF Blocking
  <2>3. CASE lossy
    <3>1. NobodyUnblocked'
      BY <2>1 DEF IInv, NobodyUnblocked
    <3>2. QED
      BY <1>1, <2>1, <2>3, <3>1 DEF IInv, DiskIsCurrent, BlockedFirst, JobsBehindBlocks
  <2>4. QED
    BY <2>2, <2>3
<1>6. QED
  BY <1>2, <1>3, <1>4, <1>5 DEF WorkerStep

-----------------------------------------------------------------------------
(* Theorems.                                                               *)

LEMMA NextHolds == IInv /\ [Next]_vars => IInv'
<1>1. SUFFICES ASSUME IInv, [Next]_vars PROVE IInv'
  OBVIOUS
<1>2. CASE Next
  BY <1>1, <1>2, QuietSteps, SendSteps, WorkerSteps DEF Next, AdminStep
<1>3. CASE UNCHANGED vars
  <2>1. UNCHANGED <<channel, lists, disk, lossy, status, request>>
    BY <1>3 DEF vars
  <2>2. TypeOK'
    BY <1>1, <1>3 DEF vars, IInv, TypeOK, RequestsTyped
  <2>3. QED
    BY <1>1, <2>1, <2>2, QuietStep DEF Blocking
<1>4. QED
  BY <1>1, <1>2, <1>3

\* The inductive invariant holds in every reachable state.
THEOREM Invariance == Spec => []IInv
BY InitHolds, NextHolds, PTL DEF Spec

\* The types of UserAccess: statuses, open requests, messages and lists.
THEOREM TypeCorrect == Spec => []TypeOK
<1>1. IInv => TypeOK
  BY DEF IInv
<1>2. QED
  BY <1>1, Invariance, PTL

\* A restart of the worker finds the lists it had, unless a write has failed
\* (AccessControl writes the file before each acknowledgement).
THEOREM DiskCorrect == Spec => []DiskIsCurrent
<1>1. IInv => DiskIsCurrent
  BY DEF IInv
<1>2. QED
  BY <1>1, Invariance, PTL

\* Whom the site shows as blocked the worker blocks, or has the message coming,
\* however many admins work at once and whatever fails on the site.
THEOREM BlocksAnnounced == Spec => []BlockReachesWorker
<1>1. IInv => BlockReachesWorker
  <2>1. SUFFICES ASSUME IInv, ~lossy, NEW u \in Users, status[u] = "blocked"
                 PROVE  u \in lists.blocklist \/ BlockAwaited(u)
    BY DEF BlockReachesWorker
  <2>2. BlockSettled(u)
    BY <2>1 DEF IInv, BlockedFirst
  <2>3. channel \in Seq(MessageType)
    BY <2>1 DEF IInv, TypeOK
  <2>4. DOMAIN channel = 1..Len(channel)
    BY <2>3, LenProperties
  <2>5. QED
    BY <2>2, <2>4 DEF BlockSettled, BlockedBefore, BlockAwaited
<1>2. QED
  BY <1>1, Invariance, PTL

\* A job that the site dispatches after its owner was blocked, as it does with
\* queued jobs, is refused by the worker.
THEOREM OverdueRefused == Spec => OverdueJobsRefused
<1>1. IInv /\ [Next]_vars =>
        [JobChecked /\ Head(channel).overdue /\ ~lossy
           => verdict'[Head(channel).user] = "block"]_vars
  <2>1. SUFFICES ASSUME IInv, JobChecked, Head(channel).overdue, ~lossy
                 PROVE  verdict'[Head(channel).user] = "block"
    OBVIOUS
  <2>2. channel # <<>> /\ channel' = Tail(channel)
    BY <2>1 DEF JobChecked
  <2>3. /\ 1 \in 1..Len(channel)
        /\ Head(channel) = channel[1]
        /\ Head(channel).user \in Users
    BY <2>1, <2>2, Taken DEF IInv
  <2>4. BlockedBefore(Head(channel).user, 1)
    BY <2>1, <2>3 DEF IInv, JobsBehindBlocks
  <2>5. Head(channel).user \in lists.blocklist
    BY <2>3, <2>4 DEF BlockedBefore
  <2>6. QED
    BY <2>1, <2>3, <2>5 DEF JobChecked, CheckAccess, IInv, TypeOK
<1>2. QED
  BY <1>1, Invariance, PTL DEF Spec, OverdueJobsRefused

=============================================================================
