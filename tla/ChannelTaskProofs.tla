------------------------- MODULE ChannelTaskProofs -------------------------
(***************************************************************************)
(* Proofs about ChannelTask, for every plan, every set of commands and     *)
(* every value of the bounds.                                              *)
(***************************************************************************)
EXTENDS ChannelTask, SequenceTheorems, TLAPS

-----------------------------------------------------------------------------
(* Type correctness *)

\* Head and Tail of a sequence that is not empty.
LEMMA HeadTail ==
  ASSUME NEW S, NEW s \in Seq(S), s # <<>>
  PROVE  Head(s) \in S /\ Tail(s) \in Seq(S)
BY HeadTailProperties

\* A shorter name for the last link of a sequence.
LEMMA AppendType ==
  ASSUME NEW S, NEW s \in Seq(S), NEW e \in S
  PROVE  Append(s, e) \in Seq(S)
BY AppendProperties

LEMMA InQueueType == queue \in Seq(Cmd) => InQueue \subseteq Cmd
BY ElementOfSeq, LenProperties DEF InQueue

\* What the outcomes of a request do to the late replies.
LEMMA ReplyAcceptedType ==
  ASSUME WorldTypeOK, NEW r \in Txn \cup Cmd, NEW src, ReplyAccepted(r, src)
  PROVE  late' \in Seq(Txn \cup Cmd)
BY HeadTail, AppendType DEF WorldTypeOK, ReplyAccepted

LEMMA LeftBehindType ==
  ASSUME WorldTypeOK, NEW r \in Txn \cup Cmd
  PROVE  LeftBehind(r) \subseteq Seq(Txn \cup Cmd)
BY AppendType DEF WorldTypeOK, LeftBehind

\* The quality of a set of tags, and the state of a device.
LEMMA SetQualityType ==
  ASSUME DeviceTypeOK, NEW S, NEW q \in Quality, SetQuality(S, q)
  PROVE  quality' \in [Tag -> Quality] /\ foreign' \subseteq Tag
BY DEF DeviceTypeOK, SetQuality

LEMMA ScatterType ==
  ASSUME DeviceTypeOK, NEW t \in Txn, NEW src, Scatter(t, src)
  PROVE  quality' \in [Tag -> Quality] /\ foreign' \subseteq Tag
BY PlanAssumption DEF DeviceTypeOK, Scatter, SetQuality, Quality

LEMMA OnSuccessType ==
  ASSUME DeviceTypeOK, NEW d \in Device, OnSuccess(d)
  PROVE  /\ online' \in [Device -> BOOLEAN]
         /\ fails' \in [Device -> 0..OfflineAfter]
         /\ waiting' \subseteq Device
BY BoundAssumption DEF DeviceTypeOK, OnSuccess

LEMMA OnCommFailureType ==
  ASSUME DeviceTypeOK, NEW d \in Device, OnCommFailure(d)
  PROVE  /\ online' \in [Device -> BOOLEAN]
         /\ fails' \in [Device -> 0..OfflineAfter]
         /\ waiting' \subseteq Device
<1>1. fails[d] \in 0..OfflineAfter
  BY DEF DeviceTypeOK
<1>2. Least(fails[d] + 1, OfflineAfter) \in 0..OfflineAfter
  BY <1>1, BoundAssumption DEF Least
<1> QED
  BY <1>2 DEF DeviceTypeOK, OnCommFailure, Crosses

LEMMA SweepType ==
  ASSUME DeviceTypeOK, NEW d \in Device, SweepIfCrossing(d)
  PROVE  quality' \in [Tag -> Quality] /\ foreign' \subseteq Tag
BY DEF DeviceTypeOK, SweepIfCrossing, SetQuality, Quality, tagVars

\* Answering commands.
LEMMA AnswerType ==
  ASSUME CommandTypeOK, NEW S, NEW reply \in Replies, Answer(S, reply)
  PROVE  cmd' \in [Cmd -> Statuses] /\ expired' \subseteq Cmd
BY DEF CommandTypeOK, Answer, Statuses

LEMMA ReconnectType ==
  ASSUME TypeOK, NEW alive \in BOOLEAN, NEW c \in Cmd \cup {NoCmd},
         NEW reply \in Replies, Reconnect(alive, c, reply)
  PROVE  /\ TaskTypeOK' /\ backoff' \in 0..MaxBackoff
         /\ queue' \in Seq(Cmd) /\ cmd' \in [Cmd -> Statuses]
         /\ expired' \subseteq Cmd /\ passed' \in 0..2
         /\ late' \in Seq(Txn \cup Cmd)
<1>1. backoff' \in 0..MaxBackoff
  BY BoundAssumption DEF TypeOK, LinkTypeOK, Reconnect, Least
<1>2. cmd' \in [Cmd -> Statuses] /\ expired' \subseteq Cmd /\ queue' \in Seq(Cmd)
  BY EmptySeq DEF TypeOK, CommandTypeOK, Reconnect, FailPendingWrites, Statuses,
                  Replies
<1>3. TaskTypeOK'
  <2>1. groups' \in Seq(Group) /\ base' \in Seq(Txn) /\ subs' \in Seq(Txn)
    BY EmptySeq DEF Reconnect
  <2>2. retries' \in 0..MaxRetries
    BY BoundAssumption DEF Reconnect
  <2> QED
    BY <2>1, <2>2 DEF Reconnect, TaskTypeOK, Places
<1>4. passed' \in 0..2 /\ late' \in Seq(Txn \cup Cmd)
  BY EmptySeq DEF Reconnect
<1> QED
  BY <1>1, <1>2, <1>3, <1>4

LEMMA StopType ==
  ASSUME TypeOK, Stop
  PROVE  TypeOK'
<1>1. cmd' \in [Cmd -> Statuses] /\ expired' \subseteq Cmd
  BY AnswerType DEF TypeOK, Stop, Replies
<1> QED
  BY <1>1, EmptySeq DEF TypeOK, TaskTypeOK, LinkTypeOK, DeviceTypeOK,
     CommandTypeOK, WorldTypeOK, Stop, Places, tickVars, linkVars, deviceVars,
     tagVars, serviceVars, worldVars

LEMMA TakeType ==
  ASSUME TypeOK, NEW inTick \in BOOLEAN, Take(inTick)
  PROVE  TypeOK'
<1> DEFINE c == Head(queue)
<1>1. c \in Cmd /\ queue' \in Seq(Cmd)
  BY HeadTail DEF TypeOK, CommandTypeOK, Take
<1>2. /\ UNCHANGED <<tickVars, linkVars, deviceVars, tagVars, forged, ready,
                     late, worldVars>>
      /\ passed' = 0
  BY DEF Take
<1>3. LinkTypeOK' /\ DeviceTypeOK' /\ WorldTypeOK'
  BY <1>2 DEF TypeOK, LinkTypeOK, DeviceTypeOK, WorldTypeOK, linkVars,
     deviceVars, tagVars, worldVars
<1>4. CASE AnsweredLocally(c)
  <2>1. \E reply \in Replies : Answer({c}, reply)
    BY <1>4 DEF Take, Replies
  <2>2. cmd' \in [Cmd -> Statuses] /\ expired' \subseteq Cmd
    BY <2>1, AnswerType DEF TypeOK
  <2>3. pc' = AfterService(c, inTick) /\ UNCHANGED serviceVars
    BY <1>4 DEF Take
  <2>4. TaskTypeOK'
    BY <1>2, <2>3 DEF TypeOK, TaskTypeOK, AfterService, Places, tickVars,
       serviceVars
  <2> QED
    BY <1>1, <1>2, <1>3, <2>2, <2>4 DEF TypeOK, CommandTypeOK
<1>5. CASE ~AnsweredLocally(c)
  <2>1. /\ cmd' = [cmd EXCEPT ![c] = "sent"] /\ pc' = "writing"
        /\ cur' = c /\ draining' = inTick /\ UNCHANGED expired
    BY <1>5 DEF Take
  <2>2. TaskTypeOK'
    BY <1>1, <1>2, <2>1 DEF TypeOK, TaskTypeOK, Places, tickVars
  <2>3. CommandTypeOK'
    BY <1>1, <1>2, <2>1 DEF TypeOK, CommandTypeOK, Statuses
  <2> QED
    BY <1>3, <2>2, <2>3 DEF TypeOK
<1> QED
  BY <1>4, <1>5

LEMMA BeginTickType ==
  ASSUME TypeOK, BeginTick
  PROVE  TypeOK'
<1>1. groups' \in Seq(Group)
  BY PlanAssumption DEF TypeOK, WorldTypeOK, BeginTick
<1> QED
  BY <1>1 DEF TypeOK, TaskTypeOK, LinkTypeOK, DeviceTypeOK, CommandTypeOK,
     WorldTypeOK, BeginTick, Places, linkVars, deviceVars, tagVars,
     commandVars, serviceVars, worldVars

LEMMA ConnectionType ==
  ASSUME TypeOK,
         BeginConnect \/ ConnectOk \/ BackoffElapses \/ BackoffStop \/ SelectStop
  PROVE  TypeOK'
<1> USE DEF tickVars, linkVars, deviceVars, tagVars, commandVars, serviceVars,
        worldVars, Places
<1>1. CASE Stop
  BY <1>1, StopType
<1>2. CASE BeginConnect /\ ~Stop
  BY <1>2 DEF BeginConnect, TypeOK, TaskTypeOK, LinkTypeOK, DeviceTypeOK,
     CommandTypeOK, WorldTypeOK
<1>3. CASE ConnectOk
  <2>1. LinkTypeOK'
    <3>1. backoff' \in 0..MaxBackoff
      BY <1>3 DEF ConnectOk, connectedFrame, TypeOK, LinkTypeOK
    <3>2. swept' \in BOOLEAN
      BY <1>3 DEF ConnectOk
    <3>3. healthy' \in BOOLEAN
      BY <1>3 DEF ConnectOk
    <3>4. consec' \in 0..2
      BY <1>3 DEF ConnectOk
    <3> QED
      BY <3>1, <3>2, <3>3, <3>4 DEF LinkTypeOK
  <2>2. TaskTypeOK'
    BY <1>3 DEF ConnectOk, connectedFrame, TypeOK, TaskTypeOK
  <2> QED
    BY <1>3, <2>1, <2>2 DEF ConnectOk, connectedFrame, TypeOK, DeviceTypeOK,
         CommandTypeOK,
       WorldTypeOK
<1>4. CASE BackoffElapses
  BY <1>4 DEF BackoffElapses, TypeOK, TaskTypeOK, LinkTypeOK, DeviceTypeOK,
     CommandTypeOK, WorldTypeOK
<1> QED
  BY <1>1, <1>2, <1>3, <1>4 DEF BackoffStop, SelectStop

LEMMA ConnectFailType ==
  ASSUME TypeOK, ConnectFail
  PROVE  TypeOK'
<1>1. /\ TaskTypeOK' /\ backoff' \in 0..MaxBackoff
      /\ queue' \in Seq(Cmd) /\ cmd' \in [Cmd -> Statuses]
      /\ expired' \subseteq Cmd /\ passed' \in 0..2
      /\ late' \in Seq(Txn \cup Cmd)
  BY ReconnectType DEF ConnectFail, Replies
<1>2. quality' \in [Tag -> Quality] /\ foreign' \subseteq Tag
  BY SetQualityType DEF ConnectFail, TypeOK, DeviceTypeOK, Quality, tagVars
<1> QED
  BY <1>1, <1>2 DEF ConnectFail, TypeOK, LinkTypeOK, DeviceTypeOK,
     CommandTypeOK, WorldTypeOK, deviceVars, worldVars

LEMMA BackoffRefuseType ==
  ASSUME TypeOK, BackoffRefuse
  PROVE  TypeOK'
<1>1. queue' \in Seq(Cmd)
  BY HeadTail DEF TypeOK, CommandTypeOK, BackoffRefuse
<1>2. cmd' \in [Cmd -> Statuses] /\ expired' \subseteq Cmd
  BY AnswerType DEF TypeOK, BackoffRefuse, Replies
<1> QED
  BY <1>1, <1>2 DEF BackoffRefuse, TypeOK, TaskTypeOK, LinkTypeOK,
     DeviceTypeOK, CommandTypeOK, WorldTypeOK, tickVars, linkVars, deviceVars,
     tagVars, serviceVars, worldVars

LEMMA DueType ==
  ASSUME TypeOK, SelectDue \/ YieldToDue
  PROVE  TypeOK'
<1>1. CASE BeginTick
  BY <1>1, BeginTickType
<1>2. CASE YieldToDue /\ ~BeginTick
  BY <1>2 DEF YieldToDue, TypeOK, TaskTypeOK, LinkTypeOK, DeviceTypeOK,
     CommandTypeOK, WorldTypeOK, Places, tickVars, linkVars, deviceVars,
     tagVars, commandVars, serviceVars, worldVars
<1> QED
  BY <1>1, <1>2 DEF SelectDue

\* The steps of a tick between requests leave everything else alone.
LEMMA TickType ==
  ASSUME TypeOK, Tick
  PROVE  TypeOK'
<1>1. LinkTypeOK' /\ DeviceTypeOK' /\ WorldTypeOK'
  BY DEF Tick, TickStop, EnterGroup, EnterTxn, SendPoll, EndTick, tickFrame,
     TypeOK, LinkTypeOK, DeviceTypeOK, WorldTypeOK, linkVars, deviceVars,
     tagVars, worldVars
<1>2. CommandTypeOK'
  <2>1. passed' \in 0..2
    BY DEF Tick, TickStop, EnterGroup, EnterTxn, SendPoll, EndTick, Least,
       TypeOK, CommandTypeOK
  <2> QED
    BY <2>1 DEF Tick, TickStop, EnterGroup, EnterTxn, SendPoll, EndTick,
       tickFrame, TypeOK, CommandTypeOK
<1>3. UNCHANGED serviceVars
  BY DEF Tick, TickStop, EnterGroup, EnterTxn, SendPoll, EndTick, tickFrame
<1>4. TaskTypeOK'
  <2>1. CASE TickStop
    BY <1>3, <2>1, EmptySeq DEF TickStop, TypeOK, TaskTypeOK, Places,
         serviceVars
  <2>2. CASE EnterGroup
    <3>1. groups' \in Seq(Group) /\ Head(groups) \in Group
      BY <2>2, HeadTail DEF EnterGroup, TypeOK, TaskTypeOK
    <3>2. base' \in Seq(Txn)
      BY <2>2, <3>1, PlanAssumption, EmptySeq DEF EnterGroup
    <3> QED
      BY <1>3, <2>2, <3>1, <3>2 DEF EnterGroup, BetweenGroups, TypeOK,
           TaskTypeOK,
         serviceVars
  <2>3. CASE EnterTxn
    <3>1. base' \in Seq(Txn) /\ Head(base) \in Txn
      BY <2>3, HeadTail DEF EnterTxn, TypeOK, TaskTypeOK
    <3>2. <<Head(base)>> \in Seq(Txn)
      BY <3>1
    <3>3. subs' \in Seq(Txn)
      BY <2>3, <3>1, <3>2, PlanAssumption DEF EnterTxn, EffectiveTxns
    <3> QED
      BY <1>3, <2>3, <3>1, <3>3 DEF EnterTxn, TypeOK, TaskTypeOK, serviceVars
  <2>4. CASE SendPoll
    <3>1. retries' \in 0..MaxRetries
      BY <2>4, BoundAssumption DEF SendPoll, RetryBudget
    <3> QED
      BY <1>3, <2>4, <3>1 DEF SendPoll, TypeOK, TaskTypeOK, Places, serviceVars
  <2>5. CASE EndTick
    BY <1>3, <2>5 DEF EndTick, TypeOK, TaskTypeOK, Places, serviceVars, tickVars
  <2> QED
    BY <2>1, <2>2, <2>3, <2>4, <2>5 DEF Tick
<1> QED
  BY <1>1, <1>2, <1>4 DEF TypeOK

\* The transaction in flight, and its device.
LEMMA CurrentType ==
  ASSUME TypeOK, pc = "polling"
  PROVE  /\ Current \in Txn /\ TxnDev[Current] \in Device
         /\ Tail(subs) \in Seq(Txn) /\ subs # <<>>
BY HeadTail, PlanAssumption DEF TypeOK, TaskTypeOK, Current

LEMMA PollOkType ==
  ASSUME TypeOK, NEW src, PollOk(src)
  PROVE  TypeOK'
<1>1. /\ Current \in Txn /\ TxnDev[Current] \in Device
      /\ Tail(subs) \in Seq(Txn)
  BY CurrentType DEF PollOk
<1>2. late' \in Seq(Txn \cup Cmd)
  BY <1>1, ReplyAcceptedType DEF PollOk, TypeOK
<1>3. /\ online' \in [Device -> BOOLEAN]
      /\ fails' \in [Device -> 0..OfflineAfter] /\ waiting' \subseteq Device
  BY <1>1, OnSuccessType DEF PollOk, ProofOfLife, TypeOK
<1>4. quality' \in [Tag -> Quality] /\ foreign' \subseteq Tag
  BY <1>1, ScatterType DEF PollOk, TypeOK
<1>5. consec' = 0 /\ healthy' = TRUE
  BY DEF PollOk, ProofOfLife
<1>6. UNCHANGED <<split, pollFrame>> /\ pc' = "boundary" /\ subs' = Tail(subs)
  BY DEF PollOk
<1>7. TaskTypeOK'
  BY <1>1, <1>6 DEF TypeOK, TaskTypeOK, Places, pollFrame, serviceVars
<1>8. DeviceTypeOK' /\ CommandTypeOK' /\ WorldTypeOK'
  BY <1>2, <1>3, <1>4, <1>6 DEF TypeOK, DeviceTypeOK, CommandTypeOK,
     WorldTypeOK, pollFrame, commandVars, worldVars
<1>9. LinkTypeOK'
  <2>1. healthy' \in BOOLEAN
    BY <1>5
  <2>2. consec' \in 0..2
    BY <1>5
  <2>3. swept' \in BOOLEAN /\ backoff' \in 0..MaxBackoff
    BY <1>6 DEF TypeOK, LinkTypeOK, pollFrame
  <2> QED
    BY <2>1, <2>2, <2>3 DEF LinkTypeOK
<1> QED
  BY <1>7, <1>8, <1>9 DEF TypeOK

\* A reply resets the timeout counter of the link.
LEMMA AliveType ==
  ASSUME LinkTypeOK, consec' = 0, healthy' = TRUE, UNCHANGED <<swept, backoff>>
  PROVE  LinkTypeOK'
<1>1. healthy' \in BOOLEAN
  OBVIOUS
<1>2. consec' \in 0..2
  OBVIOUS
<1>3. swept' \in BOOLEAN /\ backoff' \in 0..MaxBackoff
  BY DEF LinkTypeOK
<1> QED
  BY <1>1, <1>2, <1>3 DEF LinkTypeOK

LEMMA PollExceptionType ==
  ASSUME TypeOK, NEW src, NEW kind, PollException(src, kind)
  PROVE  TypeOK'
<1>1. /\ Current \in Txn /\ TxnDev[Current] \in Device
      /\ Tail(subs) \in Seq(Txn)
  BY CurrentType DEF PollException
<1>2. late' \in Seq(Txn \cup Cmd)
  BY <1>1, ReplyAcceptedType DEF PollException, TypeOK
<1>3. /\ online' \in [Device -> BOOLEAN]
      /\ fails' \in [Device -> 0..OfflineAfter] /\ waiting' \subseteq Device
  BY <1>1, OnSuccessType DEF PollException, ProofOfLife, TypeOK
<1>4. /\ quality' \in [Tag -> Quality] /\ foreign' \subseteq Tag
      /\ split' \subseteq Txn
  <2>1. HandleException(Current, kind)
    BY DEF PollException
  <2>2. CASE UNCHANGED tagVars /\ split' = split \cup {Current}
    BY <1>1, <2>2 DEF TypeOK, DeviceTypeOK, tagVars
  <2>3. CASE SetQuality(TagsOf[Current], "Bad") /\ UNCHANGED split
    BY <2>3, SetQualityType DEF TypeOK, DeviceTypeOK, Quality
  <2> QED
    BY <2>1, <2>2, <2>3 DEF HandleException
<1>5. LinkTypeOK'
  BY AliveType DEF TypeOK, PollException, ProofOfLife, pollFrame
<1>6. UNCHANGED pollFrame /\ pc' = "boundary" /\ subs' = Tail(subs)
  BY DEF PollException
<1>7. TaskTypeOK'
  BY <1>1, <1>6 DEF TypeOK, TaskTypeOK, Places, pollFrame, serviceVars
<1> QED
  BY <1>2, <1>3, <1>4, <1>5, <1>6, <1>7 DEF TypeOK, DeviceTypeOK,
     CommandTypeOK, WorldTypeOK, pollFrame, commandVars, worldVars

LEMMA PollRetryType ==
  ASSUME TypeOK, PollRetry
  PROVE  TypeOK'
<1>1. Current \in Txn
  BY CurrentType DEF PollRetry
<1>2. late' \in Seq(Txn \cup Cmd)
  BY <1>1, ReplyAcceptedType, LeftBehindType DEF PollRetry, TypeOK
<1>3. retries' \in 0..MaxRetries
  BY BoundAssumption DEF PollRetry, TypeOK, TaskTypeOK
<1>4. TaskTypeOK'
  BY <1>3 DEF PollRetry, TypeOK, TaskTypeOK, serviceVars
<1> QED
  BY <1>2, <1>4 DEF PollRetry, TypeOK, LinkTypeOK, DeviceTypeOK,
     CommandTypeOK, WorldTypeOK, linkVars, deviceVars, tagVars, commandVars,
     worldVars

\* A link that may be reset with Reconnect.
LEMMA ReconnectedType ==
  ASSUME TypeOK, NEW c \in Cmd \cup {NoCmd}, NEW reply \in Replies,
         Reconnect(healthy, c, reply),
         consec' \in 0..2,
              UNCHANGED <<swept, healthy, split, forged, ready, worldVars>>,
         online' \in [Device -> BOOLEAN],
              fails' \in [Device -> 0..OfflineAfter],
         waiting' \subseteq Device,
         quality' \in [Tag -> Quality], foreign' \subseteq Tag
  PROVE  TypeOK'
<1>1. healthy \in BOOLEAN
  BY DEF TypeOK, LinkTypeOK
<1>2. /\ TaskTypeOK' /\ backoff' \in 0..MaxBackoff
      /\ queue' \in Seq(Cmd) /\ cmd' \in [Cmd -> Statuses]
      /\ expired' \subseteq Cmd /\ passed' \in 0..2
      /\ late' \in Seq(Txn \cup Cmd)
  BY <1>1, ReconnectType
<1>3. DeviceTypeOK' /\ CommandTypeOK' /\ WorldTypeOK'
  BY <1>2 DEF TypeOK, DeviceTypeOK, CommandTypeOK, WorldTypeOK, worldVars
<1>4. LinkTypeOK'
  BY <1>2 DEF TypeOK, LinkTypeOK
<1> QED
  BY <1>2, <1>3, <1>4 DEF TypeOK

LEMMA PollFatalType ==
  ASSUME TypeOK, PollFatal
  PROVE  TypeOK'
<1> DEFINE d == TxnDev[Current]
<1>1. d \in Device
  BY CurrentType DEF PollFatal
<1>2. /\ online' \in [Device -> BOOLEAN]
      /\ fails' \in [Device -> 0..OfflineAfter] /\ waiting' \subseteq Device
  BY <1>1, OnCommFailureType DEF PollFatal, TypeOK
<1>3. quality' \in [Tag -> Quality] /\ foreign' \subseteq Tag
  BY <1>1, SweepType DEF PollFatal, TypeOK
<1>4. consec' \in 0..2
  BY DEF PollFatal, TypeOK, LinkTypeOK
<1> QED
  BY <1>2, <1>3, <1>4, ReconnectedType DEF PollFatal, Replies

LEMMA PollTimeoutType ==
  ASSUME TypeOK, PollTimeout
  PROVE  TypeOK'
<1> DEFINE t == Current
           d == TxnDev[t]
<1>1. t \in Txn /\ d \in Device /\ Tail(subs) \in Seq(Txn)
  BY CurrentType DEF PollTimeout
<1>2. /\ online' \in [Device -> BOOLEAN]
      /\ fails' \in [Device -> 0..OfflineAfter] /\ waiting' \subseteq Device
  BY <1>1, OnCommFailureType DEF PollTimeout, TypeOK
<1>3. quality' \in [Tag -> Quality] /\ foreign' \subseteq Tag
  BY SetQualityType DEF PollTimeout, TypeOK, DeviceTypeOK, Quality, tagVars
<1>4. consec' \in 0..2
  BY DEF PollTimeout, TypeOK, LinkTypeOK, Least
<1>5. CASE HalfDuplex /\ consec' >= 2
  BY <1>2, <1>3, <1>4, <1>5, ReconnectedType DEF PollTimeout, Replies
<1>6. CASE ~(HalfDuplex /\ consec' >= 2)
  <2>1. /\ late' \in LeftBehind(t) /\ pc' = "boundary"
        /\ subs' \in {Tail(subs), <<>>} /\ base' \in {base, <<>>}
        /\ UNCHANGED <<groups, retries, backoff, queue, cmd, expired, passed,
                       serviceVars, swept, healthy, split, forged, ready,
                       worldVars>>
    BY <1>6 DEF PollTimeout
  <2>2. late' \in Seq(Txn \cup Cmd)
    BY <1>1, <2>1, LeftBehindType DEF TypeOK
  <2>3. subs' \in Seq(Txn) /\ base' \in Seq(Txn)
    BY <1>1, <2>1, EmptySeq DEF TypeOK, TaskTypeOK
  <2>4. TaskTypeOK'
    BY <2>1, <2>3 DEF TypeOK, TaskTypeOK, Places, serviceVars
  <2>5. LinkTypeOK'
    BY <1>4, <2>1 DEF TypeOK, LinkTypeOK
  <2> QED
    BY <1>2, <1>3, <2>1, <2>2, <2>4, <2>5 DEF TypeOK, DeviceTypeOK,
       CommandTypeOK, WorldTypeOK, worldVars
<1> QED
  BY <1>5, <1>6

\* A command in service is a command, and so is its device.
LEMMA ServiceType ==
  ASSUME TypeOK, pc = "writing"
  PROVE  cur \in Cmd /\ Target[cur] \in Device
BY CommandAssumption DEF TypeOK, TaskTypeOK

\* Back from service_write to the select! loop or to the tick.
LEMMA AfterServiceType ==
  ASSUME TypeOK, NEW c, NEW inTick, pc' = AfterService(c, inTick),
         cur' = NoCmd, draining' = FALSE, UNCHANGED tickVars
  PROVE  TaskTypeOK'
<1>1. draining' \in BOOLEAN
  OBVIOUS
<1>2. pc' \in Places /\ pc' # "polling" /\ pc' # "writing"
  BY DEF AfterService, Places
<1>3. retries' \in 0..MaxRetries
  BY DEF TypeOK, TaskTypeOK, tickVars
<1> QED
  BY <1>1, <1>2, <1>3 DEF TypeOK, TaskTypeOK, tickVars

LEMMA CommandAnsweredType ==
  ASSUME TypeOK, NEW src, NEW reply, CommandAnswered(src, reply)
  PROVE  TypeOK'
<1>1. cur \in Cmd /\ Target[cur] \in Device
  BY ServiceType DEF CommandAnswered
<1>2. late' \in Seq(Txn \cup Cmd)
  BY <1>1, ReplyAcceptedType DEF CommandAnswered, TypeOK
<1>3. reply \in Replies
  BY DEF CommandAnswered, Replies
<1>4. cmd' \in [Cmd -> Statuses] /\ expired' \subseteq Cmd
  BY <1>3, AnswerType DEF CommandAnswered, TypeOK
<1>5. forged' \subseteq Cmd
  BY <1>1 DEF CommandAnswered, TypeOK, CommandTypeOK
<1>6. /\ online' \in [Device -> BOOLEAN]
      /\ fails' \in [Device -> 0..OfflineAfter] /\ waiting' \subseteq Device
  <2>1. CASE cur \in Diagnostic
    BY <2>1 DEF CommandAnswered, TypeOK, DeviceTypeOK
  <2>2. CASE cur \notin Diagnostic
    BY <1>1, <2>2, OnSuccessType DEF CommandAnswered, ProofOfLife, TypeOK
  <2> QED
    BY <2>1, <2>2
<1>7. LinkTypeOK'
  BY AliveType DEF TypeOK, CommandAnswered, ProofOfLife
<1>8. TaskTypeOK'
  BY AfterServiceType DEF CommandAnswered
<1> QED
  BY <1>2, <1>4, <1>5, <1>6, <1>7, <1>8 DEF CommandAnswered, TypeOK,
     DeviceTypeOK, CommandTypeOK, WorldTypeOK, tagVars, worldVars

\* The watchdog after a command that failed.
LEMMA CommandFailureType ==
  ASSUME TypeOK, NEW c \in Cmd, CommandFailure(c)
  PROVE  /\ online' \in [Device -> BOOLEAN]
         /\ fails' \in [Device -> 0..OfflineAfter] /\ waiting' \subseteq Device
         /\ quality' \in [Tag -> Quality] /\ foreign' \subseteq Tag
<1>1. CASE c \in Diagnostic
  BY <1>1 DEF CommandFailure, TypeOK, DeviceTypeOK, tagVars
<1>2. CASE c \notin Diagnostic
  BY <1>2, OnCommFailureType, SweepType, CommandAssumption DEF CommandFailure,
     TypeOK
<1> QED
  BY <1>1, <1>2

LEMMA CommandTimeoutType ==
  ASSUME TypeOK, CommandTimeout
  PROVE  TypeOK'
<1>1. cur \in Cmd
  BY ServiceType DEF CommandTimeout
<1>2. /\ online' \in [Device -> BOOLEAN]
      /\ fails' \in [Device -> 0..OfflineAfter] /\ waiting' \subseteq Device
      /\ quality' \in [Tag -> Quality] /\ foreign' \subseteq Tag
  BY <1>1, CommandFailureType DEF CommandTimeout
<1>3. consec' \in 0..2
  BY DEF CommandTimeout, TypeOK, LinkTypeOK, Least
<1>4. CASE HalfDuplex
  BY <1>1, <1>2, <1>3, <1>4, ReconnectedType DEF CommandTimeout, Replies
<1>5. CASE ~HalfDuplex
  <2>1. /\ late' \in LeftBehind(cur) /\ Answer({cur}, "timeout")
        /\ pc' = AfterService(cur,
             draining) /\ cur' = NoCmd /\ draining' = FALSE
        /\ UNCHANGED <<tickVars, backoff, queue, passed, swept, healthy, split,
                       forged, ready, worldVars>>
    BY <1>5 DEF CommandTimeout
  <2>2. late' \in Seq(Txn \cup Cmd)
    BY <1>1, <2>1, LeftBehindType DEF TypeOK
  <2>3. cmd' \in [Cmd -> Statuses] /\ expired' \subseteq Cmd
    BY <2>1, AnswerType DEF TypeOK, Replies
  <2>4. TaskTypeOK'
    BY <2>1, AfterServiceType
  <2>5. LinkTypeOK'
    BY <1>3, <2>1 DEF TypeOK, LinkTypeOK
  <2> QED
    BY <1>2, <2>1, <2>2, <2>3, <2>4, <2>5 DEF TypeOK, DeviceTypeOK,
       CommandTypeOK, WorldTypeOK, worldVars
<1> QED
  BY <1>4, <1>5

LEMMA CommandFatalType ==
  ASSUME TypeOK, CommandFatal
  PROVE  TypeOK'
<1>1. cur \in Cmd
  BY ServiceType DEF CommandFatal
<1>2. /\ online' \in [Device -> BOOLEAN]
      /\ fails' \in [Device -> 0..OfflineAfter] /\ waiting' \subseteq Device
      /\ quality' \in [Tag -> Quality] /\ foreign' \subseteq Tag
  BY <1>1, CommandFailureType DEF CommandFatal
<1>3. consec' \in 0..2
  BY DEF CommandFatal, TypeOK, LinkTypeOK
<1> QED
  BY <1>1, <1>2, <1>3, ReconnectedType DEF CommandFatal, Replies

LEMMA DrainDoneType ==
  ASSUME TypeOK, DrainDone
  PROVE  TypeOK'
BY DEF DrainDone, TypeOK, TaskTypeOK, LinkTypeOK, DeviceTypeOK, CommandTypeOK,
   WorldTypeOK, Places, tickVars, linkVars, deviceVars, tagVars, commandVars,
   serviceVars, worldVars

\* Submitters, timers, devices and the operator leave the task alone.
LEMMA EnvironmentType ==
  ASSUME TypeOK, Environment
  PROVE  TypeOK'
<1>1. UNCHANGED taskFrame
  BY DEF Environment, Submit, Collect, Expire, IntervalElapses, ProbeElapses,
     FallSilent, FaultsCease, RequestShutdown
<1>2. TaskTypeOK' /\ LinkTypeOK'
  BY <1>1 DEF taskFrame, tickVars, linkVars, serviceVars, TypeOK, TaskTypeOK,
     LinkTypeOK
<1>3. DeviceTypeOK'
  <2>1. waiting' \subseteq waiting
    BY DEF Environment, Submit, Collect, Expire, IntervalElapses,
       ProbeElapses, FallSilent, FaultsCease, RequestShutdown
  <2> QED
    BY <1>1, <2>1 DEF taskFrame, tagVars, TypeOK, DeviceTypeOK
<1>4. CommandTypeOK'
  <2>1. CASE \E c \in Cmd : Submit(c)
    BY <1>1, <2>1, AppendType DEF Submit, taskFrame, TypeOK, CommandTypeOK,
       Statuses
  <2>2. CASE \E c \in Cmd : Collect(c) \/ Expire(c)
    BY <1>1, <2>2 DEF Collect, Expire, taskFrame, TypeOK, CommandTypeOK,
       Statuses
  <2>3. CASE UNCHANGED <<queue, cmd, expired, forged>>
    BY <1>1, <2>3 DEF taskFrame, TypeOK, CommandTypeOK
  <2> QED
    BY <2>1, <2>2, <2>3 DEF Environment, IntervalElapses, ProbeElapses,
       FallSilent, FaultsCease, RequestShutdown
<1>5. WorldTypeOK'
  <2>1. ready' \subseteq Period /\ UNCHANGED late
    BY <1>1 DEF Environment, Submit, Collect, Expire, IntervalElapses,
       ProbeElapses, FallSilent, FaultsCease, RequestShutdown, taskFrame,
       TypeOK, WorldTypeOK
  <2>2. mute' \subseteq Device
    BY BoundAssumption DEF Environment, Submit, Collect, Expire,
       IntervalElapses, ProbeElapses, FallSilent, FaultsCease,
       RequestShutdown, worldVars, TypeOK, WorldTypeOK
  <2>3. settled' \in BOOLEAN
    BY DEF Environment, Submit, Collect, Expire, IntervalElapses,
       ProbeElapses, FallSilent, FaultsCease, RequestShutdown, worldVars,
       TypeOK, WorldTypeOK
  <2>4. shutdown' \in BOOLEAN
    BY DEF Environment, Submit, Collect, Expire, IntervalElapses,
       ProbeElapses, FallSilent, FaultsCease, RequestShutdown, worldVars,
       TypeOK, WorldTypeOK
  <2> QED
    BY <2>1, <2>2, <2>3, <2>4 DEF TypeOK, WorldTypeOK
<1> QED
  BY <1>2, <1>3, <1>4, <1>5 DEF TypeOK

LEMMA InitType == Init => TypeOK
<1> SUFFICES ASSUME Init PROVE TypeOK
  OBVIOUS
<1>1. TaskTypeOK
  <2>1. draining \in BOOLEAN
    BY DEF Init
  <2>2. retries \in 0..MaxRetries
    BY BoundAssumption DEF Init
  <2> QED
    BY <2>1, <2>2, EmptySeq DEF Init, TaskTypeOK, Places
<1>2. LinkTypeOK
  <2>1. swept \in BOOLEAN
    BY DEF Init
  <2>2. healthy \in BOOLEAN
    BY DEF Init
  <2>3. consec \in 0..2
    BY DEF Init
  <2>4. backoff \in 0..MaxBackoff
    BY BoundAssumption DEF Init
  <2> QED
    BY <2>1, <2>2, <2>3, <2>4 DEF LinkTypeOK
<1>3. DeviceTypeOK
  <2>1. online \in [Device -> BOOLEAN]
    BY DEF Init
  <2>2. fails \in [Device -> 0..OfflineAfter]
    BY BoundAssumption DEF Init
  <2> QED
    BY <2>1, <2>2 DEF Init, DeviceTypeOK, Quality
<1>4. CommandTypeOK
  BY EmptySeq DEF Init, CommandTypeOK, Statuses
<1>5. WorldTypeOK
  <2>1. settled \in BOOLEAN
    BY DEF Init
  <2>2. shutdown \in BOOLEAN
    BY DEF Init
  <2> QED
    BY <2>1, <2>2, EmptySeq DEF Init, WorldTypeOK
<1> QED
  BY <1>1, <1>2, <1>3, <1>4, <1>5 DEF TypeOK

LEMMA NextType ==
  ASSUME TypeOK, [Next]_vars
  PROVE  TypeOK'
<1>1. CASE Tick \/ Poll
  BY <1>1, TickType, PollRetryType, PollTimeoutType, PollFatalType, PollOkType,
     PollExceptionType DEF Poll
<1>2. CASE Serve \/ SelectCommand \/ DrainCommand \/ DrainDone
  BY <1>2, CommandTimeoutType, CommandFatalType, CommandAnsweredType, TakeType,
     DrainDoneType DEF Serve, SelectCommand, DrainCommand
<1>3. CASE \/ BeginConnect \/ ConnectOk \/ ConnectFail \/ BackoffElapses
           \/ BackoffRefuse \/ BackoffStop \/ SelectStop \/ SelectDue
           \/ YieldToDue
  BY <1>3, ConnectionType, ConnectFailType, BackoffRefuseType, DueType
<1>4. CASE Environment
  BY <1>4, EnvironmentType
<1>5. CASE UNCHANGED vars
  BY <1>5 DEF vars, tickVars, linkVars, deviceVars, tagVars, commandVars,
     serviceVars, worldVars, TypeOK, TaskTypeOK, LinkTypeOK, DeviceTypeOK,
     CommandTypeOK, WorldTypeOK
<1> QED
  BY <1>1, <1>2, <1>3, <1>4, <1>5 DEF Next, Task

\* Every variable of the channel task keeps its type; in particular a request
\* in flight always has a transaction or a command behind it, so that no arm
\* of run_channel looks at the head of an empty list.
THEOREM TypeCorrect == Spec => []TypeOK
<1>1. TypeOK /\ [Next]_vars => TypeOK'
  BY NextType
<1> QED
  BY InitType, <1>1, PTL DEF Spec

-----------------------------------------------------------------------------
(* The watchdog: an offline device shows Bad *)

\* Steps that leave tags and the watchdog alone.
Aside == UNCHANGED <<quality, online>>

LEMMA OfflineAside ==
  ASSUME OfflineIsBad, Aside
  PROVE  OfflineIsBad'
BY DEF OfflineIsBad, Aside

\* Taking a device offline and sweeping it go together.
LEMMA OfflineSweep ==
  ASSUME TypeOK, OfflineIsBad, NEW d \in Device, OnCommFailure(d),
         \/ Crosses(d) /\ SetQuality(AllTags(d), "Bad")
         \/ ~Crosses(d) /\ UNCHANGED tagVars
         \/ online[d] /\ ~Crosses(d) /\ \E S \in SUBSET AllTags(d),
              q \in Quality :
                                          SetQuality(S, q)
  PROVE  OfflineIsBad'
<1> SUFFICES ASSUME NEW x \in Tag, ~online'[TagDev[x]]
             PROVE  quality'[x] = "Bad"
  BY DEF OfflineIsBad
<1>1. TagDev[x] \in Device
  BY PlanAssumption
<1>2. CASE TagDev[x] = d
  <2>1. online'[d] = (online[d] /\ ~Crosses(d))
    BY DEF OnCommFailure, TypeOK, DeviceTypeOK
  <2>2. CASE Crosses(d)
    BY <1>2, <2>2 DEF SetQuality, AllTags
  <2>3. CASE ~Crosses(d)
    <3>1. ~online[d]
      BY <1>2, <2>1, <2>3
    <3>2. UNCHANGED quality
      BY <2>3, <3>1 DEF tagVars
    <3> QED
      BY <1>2, <3>1, <3>2 DEF OfflineIsBad
  <2> QED
    BY <2>2, <2>3
<1>3. CASE TagDev[x] # d
  <2>1. ~online[TagDev[x]]
    BY <1>1, <1>3 DEF OnCommFailure, TypeOK, DeviceTypeOK
  <2>2. quality[x] = "Bad"
    BY <2>1 DEF OfflineIsBad
  <2>3. quality'[x] = quality[x]
    BY <1>3 DEF SetQuality, AllTags, tagVars
  <2> QED
    BY <2>2, <2>3
<1> QED
  BY <1>2, <1>3

\* A device that answers is online, and only its tags are touched.
LEMMA OfflineAlive ==
  ASSUME TypeOK, OfflineIsBad, NEW d \in Device, OnSuccess(d),
         NEW S \in SUBSET AllTags(d),
         \A x \in Tag \ S : quality'[x] = quality[x]
  PROVE  OfflineIsBad'
<1> SUFFICES ASSUME NEW x \in Tag, ~online'[TagDev[x]]
             PROVE  quality'[x] = "Bad"
  BY DEF OfflineIsBad
<1>1. TagDev[x] # d /\ ~online[TagDev[x]]
  BY PlanAssumption DEF OnSuccess, TypeOK, DeviceTypeOK
<1>2. x \notin S
  BY <1>1 DEF AllTags
<1> QED
  BY <1>1, <1>2 DEF OfflineIsBad

\* The fields of a transaction belong to its device.
LEMMA TxnTags ==
  ASSUME NEW t \in Txn
  PROVE  TagsOf[t] \in SUBSET AllTags(TxnDev[t])
BY PlanAssumption DEF AllTags

LEMMA OfflinePoll ==
  ASSUME TypeOK, OfflineIsBad, Poll
  PROVE  OfflineIsBad'
<1> DEFINE d == TxnDev[Current]
<1>1. pc = "polling"
  BY DEF Poll, PollRetry, PollTimeout, PollFatal
<1>2. Current \in Txn /\ d \in Device
  BY <1>1, CurrentType
<1>3. TagsOf[Current] \in SUBSET AllTags(d)
  BY <1>2, TxnTags
<1>4. CASE PollRetry
  BY <1>4, OfflineAside DEF PollRetry, Aside, tagVars, deviceVars
<1>5. CASE PollTimeout
  <2>1. /\ OnCommFailure(d)
        /\ IF Crosses(d) THEN SetQuality(AllTags(d), "Bad")
           ELSE IF online[d] THEN SetQuality(TagsOf[Current], "Uncertain")
           ELSE UNCHANGED tagVars
    BY <1>5 DEF PollTimeout
  <2> QED
    BY <1>2, <1>3, <2>1, OfflineSweep DEF Quality
<1>6. CASE PollFatal
  <2>1. OnCommFailure(d) /\ SweepIfCrossing(d)
    BY <1>6 DEF PollFatal
  <2> QED
    BY <1>2, <2>1, OfflineSweep DEF SweepIfCrossing
<1>7. CASE \E src \in Sources : PollOk(src)
  <2>1. PICK src \in Sources : PollOk(src)
    BY <1>7
  <2>2. OnSuccess(d) /\ Scatter(Current, src)
    BY <2>1 DEF PollOk, ProofOfLife
  <2>3. \A x \in Tag \ TagsOf[Current] : quality'[x] = quality[x]
    BY <2>2 DEF Scatter, SetQuality
  <2> QED
    BY <1>2, <1>3, <2>2, <2>3, OfflineAlive
<1>8. CASE \E src \in Sources,
     kind \in {"illegal", "busy", "fault"} : PollException(src, kind)
  <2>1. PICK src \in Sources,
       kind \in {"illegal", "busy", "fault"} : PollException(src, kind)
    BY <1>8
  <2>2. OnSuccess(d) /\ HandleException(Current, kind)
    BY <2>1 DEF PollException, ProofOfLife
  <2>3. \A x \in Tag \ TagsOf[Current] : quality'[x] = quality[x]
    BY <2>2 DEF HandleException, SetQuality, tagVars
  <2> QED
    BY <1>2, <1>3, <2>2, <2>3, OfflineAlive
<1> QED
  BY <1>4, <1>5, <1>6, <1>7, <1>8 DEF Poll

LEMMA OfflineServe ==
  ASSUME TypeOK, OfflineIsBad, Serve
  PROVE  OfflineIsBad'
<1> DEFINE d == Target[cur]
<1>1. pc = "writing"
  BY DEF Serve, CommandTimeout, CommandFatal, CommandAnswered
<1>2. d \in Device
  BY <1>1, ServiceType
<1>3. CASE UNCHANGED <<online, tagVars>>
  BY <1>3, OfflineAside DEF Aside, tagVars
<1>4. CASE OnCommFailure(d) /\ SweepIfCrossing(d)
  BY <1>2, <1>4, OfflineSweep DEF SweepIfCrossing
<1>5. CASE OnSuccess(d) /\ UNCHANGED tagVars
  <2>1. \A x \in Tag \ {} : quality'[x] = quality[x]
    BY <1>5 DEF tagVars
  <2>2. {} \in SUBSET AllTags(d)
    OBVIOUS
  <2> QED
    BY <1>2, <1>5, <2>1, <2>2, OfflineAlive
<1>6. \/ UNCHANGED <<online, tagVars>>
      \/ OnCommFailure(d) /\ SweepIfCrossing(d)
      \/ OnSuccess(d) /\ UNCHANGED tagVars
  BY DEF Serve, CommandTimeout, CommandFatal, CommandAnswered, CommandFailure,
     ProofOfLife
<1> QED
  BY <1>3, <1>4, <1>5, <1>6

LEMMA OfflineStep ==
  ASSUME TypeOK, OfflineIsBad, [Next]_vars
  PROVE  OfflineIsBad'
<1>1. CASE Poll
  BY <1>1, OfflinePoll
<1>2. CASE Serve
  BY <1>2, OfflineServe
<1>3. CASE ConnectFail
  <2>1. UNCHANGED online /\ \A x \in Tag : quality'[x] \in {quality[x], "Bad"}
    BY <1>3 DEF ConnectFail, SetQuality, deviceVars, tagVars
  <2> QED
    BY <2>1 DEF OfflineIsBad
<1>4. CASE Tick
  BY <1>4, OfflineAside DEF Tick, TickStop, EnterGroup, EnterTxn, SendPoll,
     EndTick, tickFrame, Aside, tagVars, deviceVars
<1>5. CASE \/ BeginConnect \/ ConnectOk \/ BackoffElapses \/ BackoffRefuse
           \/ BackoffStop \/ SelectStop
  BY <1>5, OfflineAside DEF BeginConnect, ConnectOk, connectedFrame,
       BackoffElapses,
     BackoffRefuse, BackoffStop, SelectStop, Stop, Aside, tagVars, deviceVars
<1>6. CASE \/ SelectCommand \/ SelectDue \/ YieldToDue \/ DrainCommand \/ DrainDone
  BY <1>6, OfflineAside DEF SelectCommand, SelectDue, YieldToDue, DrainCommand,
     DrainDone, BeginTick, Take, Aside, tagVars, deviceVars
<1>7. CASE Environment \/ UNCHANGED vars
  BY <1>7, OfflineAside DEF Environment, Submit, Collect, Expire,
     IntervalElapses, ProbeElapses, FallSilent, FaultsCease, RequestShutdown,
     taskFrame, vars, Aside, tagVars, deviceVars
<1> QED
  BY <1>1, <1>2, <1>3, <1>4, <1>5, <1>6, <1>7 DEF Next, Task

\* A device the watchdog has taken offline shows Bad on every tag until it
\* answers again, for every plan, retry policy and threshold.
THEOREM OfflineBad == Spec => []OfflineIsBad
<1>1. Init => OfflineIsBad
  BY DEF Init, OfflineIsBad
<1>2. TypeOK /\ OfflineIsBad /\ [Next]_vars => OfflineIsBad'
  BY OfflineStep
<1> QED
  BY <1>1, <1>2, TypeCorrect, PTL DEF Spec

-----------------------------------------------------------------------------
(* The outage sweep *)

\* OutageIsBad is not inductive: that nothing is read while the sweep holds is
\* because it holds only while the channel is down.
OutageInv == swept => pc \in Down /\ \A x \in Tag : quality[x] = "Bad"

LEMMA OutageAside ==
  ASSUME OutageInv, UNCHANGED <<swept, quality>>, pc \in Down => pc' \in Down
  PROVE  OutageInv'
BY DEF OutageInv

LEMMA OutageStep ==
  ASSUME OutageInv, [Next]_vars
  PROVE  OutageInv'
<1>1. CASE ConnectFail
  <2>1. pc' \in Down
    BY <1>1 DEF ConnectFail, Reconnect, Down
  <2>2. \A x \in Tag : quality'[x] = "Bad"
    BY <1>1 DEF ConnectFail, SetQuality, OutageInv, tagVars
  <2> QED
    BY <2>1, <2>2 DEF OutageInv
<1>2. CASE ConnectOk
  <2>1. ~swept'
    BY <1>2 DEF ConnectOk
  <2> QED
    BY <2>1 DEF OutageInv
<1>3. CASE \/ BeginConnect \/ BackoffElapses \/ BackoffRefuse \/ BackoffStop
           \/ SelectStop
  BY <1>3, OutageAside DEF BeginConnect, BackoffElapses, BackoffRefuse,
     BackoffStop, SelectStop, Stop, Down, linkVars, tagVars
<1>4. CASE \/ SelectCommand \/ SelectDue \/ YieldToDue \/ DrainCommand \/ DrainDone
           \/ Tick
  <2>1. pc \notin Down /\ UNCHANGED swept
    BY <1>4 DEF SelectCommand, SelectDue, YieldToDue, DrainCommand, DrainDone,
       BeginTick, Take, Tick, TickStop, EnterGroup, EnterTxn, SendPoll, EndTick,
       BetweenGroups, tickFrame, Down, linkVars
  <2> QED
    BY <2>1 DEF OutageInv
<1>5. CASE Poll
  <2>1. pc = "polling" /\ UNCHANGED swept
    BY <1>5 DEF Poll, PollRetry, PollTimeout, PollFatal, PollOk, PollException,
       pollFrame, linkVars
  <2> QED
    BY <2>1 DEF OutageInv, Down
<1>6. CASE Serve
  <2>1. pc = "writing" /\ UNCHANGED swept
    BY <1>6 DEF Serve, CommandTimeout, CommandFatal, CommandAnswered
  <2> QED
    BY <2>1 DEF OutageInv, Down
<1>7. CASE Environment \/ UNCHANGED vars
  BY <1>7, OutageAside DEF Environment, Submit, Collect, Expire,
     IntervalElapses, ProbeElapses, FallSilent, FaultsCease, RequestShutdown,
     taskFrame, vars, tagVars, linkVars
<1> QED
  BY <1>1, <1>2, <1>3, <1>4, <1>5, <1>6, <1>7 DEF Next, Task

\* From the first failed connect of an outage until the channel is up again
\* every tag is Bad, although later failures of the outage announce nothing.
THEOREM OutageBad == Spec => []OutageIsBad
<1>1. Init => OutageInv
  BY DEF Init, OutageInv
<1>2. OutageInv /\ [Next]_vars => OutageInv'
  BY OutageStep
<1>3. OutageInv => OutageIsBad
  BY DEF OutageInv, OutageIsBad
<1> QED
  BY <1>1, <1>2, <1>3, PTL DEF Spec

-----------------------------------------------------------------------------
(* Polls begun while a command waits *)

\* One poll has been begun past a waiting command only while that poll and the
\* drain after it last, and the command is still in the queue.
LatencyInv ==
  /\ passed \in {0, 1}
  /\ passed = 1 => pc \in {"polling", "boundary"} /\ queue # <<>>

LEMMA LatencyStep ==
  ASSUME TypeOK, LatencyInv, [Next]_vars
  PROVE  LatencyInv'
<1>1. CASE passed' = 0
  BY <1>1 DEF LatencyInv
<1>2. CASE /\ UNCHANGED <<passed, queue>>
           /\ pc \in {"polling", "boundary"} => pc' \in {"polling", "boundary"}
  BY <1>2 DEF LatencyInv
<1>3. CASE SendPoll
  <2>1. passed = 0 /\ UNCHANGED queue /\ pc' = "polling"
    BY <1>3 DEF SendPoll, LatencyInv, tickFrame
  <2>2. passed' = IF queue = <<>> THEN 0 ELSE Least(0 + 1, 2)
    BY <1>3, <2>1 DEF SendPoll
  <2> QED
    BY <2>1, <2>2 DEF LatencyInv, Least
<1>4. CASE DrainDone
  <2>1. passed = 0 /\ UNCHANGED passed
    BY <1>4 DEF DrainDone, LatencyInv, commandVars
  <2> QED
    BY <1>1, <2>1
<1>5. CASE \E c \in Cmd : Submit(c)
  <2>1. PICK c \in Cmd : Submit(c)
    BY <1>5
  <2>2. queue' # <<>>
    <3>1. queue \in Seq(Cmd) /\ queue' = Append(queue, c)
      BY <2>1 DEF Submit, TypeOK, CommandTypeOK
    <3>2. Len(queue') = Len(queue) + 1 /\ Len(queue) \in Nat
      BY <3>1, AppendProperties, LenProperties
    <3> QED
      BY <3>2
  <2> QED
    BY <2>1, <2>2 DEF Submit, LatencyInv, taskFrame
<1>6. CASE UNCHANGED passed /\ pc \notin {"polling", "boundary"}
  BY <1>1, <1>6 DEF LatencyInv
<1>7. CASE \/ BeginConnect \/ ConnectOk \/ ConnectFail \/ BackoffElapses
           \/ BackoffRefuse \/ BackoffStop \/ SelectStop
  BY <1>1, <1>6, <1>7 DEF BeginConnect, ConnectOk, connectedFrame, ConnectFail,
     BackoffElapses, BackoffRefuse, BackoffStop, SelectStop, Stop, Reconnect,
     commandVars
<1>8. CASE \/ SelectCommand \/ SelectDue \/ YieldToDue \/ DrainCommand
  BY <1>1, <1>2, <1>8 DEF SelectCommand, SelectDue, YieldToDue, DrainCommand,
     Take, BeginTick, commandVars
<1>9. CASE Tick
  BY <1>2, <1>3, <1>9 DEF Tick, TickStop, EnterGroup, EnterTxn, EndTick,
     BetweenGroups, tickFrame
<1>10. CASE Poll
  BY <1>1, <1>2, <1>10 DEF Poll, PollRetry, PollTimeout, PollFatal, PollOk,
     PollException, Reconnect, pollFrame, commandVars
<1>11. CASE Serve
  BY <1>1, <1>2, <1>11 DEF Serve, CommandTimeout, CommandFatal,
     CommandAnswered, Reconnect
<1>12. CASE Environment \/ UNCHANGED vars
  BY <1>2, <1>5, <1>12 DEF Environment, Collect, Expire, IntervalElapses,
     ProbeElapses, FallSilent, FaultsCease, RequestShutdown, taskFrame, vars,
     commandVars
<1> QED
  BY <1>4, <1>7, <1>8, <1>9, <1>10, <1>11, <1>12 DEF Next, Task

\* A waiting command is passed by at most one poll that was not yet on the
\* wire when it arrived, whatever the plan, the splits and the retries.
THEOREM LatencyBounded == Spec => []WriteLatency
<1>1. Init => LatencyInv
  BY DEF Init, LatencyInv
<1>2. TypeOK /\ LatencyInv /\ [Next]_vars => LatencyInv'
  BY LatencyStep
<1>3. LatencyInv => WriteLatency
  BY DEF LatencyInv, WriteLatency
<1> QED
  BY <1>1, <1>2, <1>3, TypeCorrect, PTL DEF Spec

-----------------------------------------------------------------------------
(* Acknowledgements on a byte stream *)

Reads == Txn \cup (Diagnostic \ Refused)

\* On a byte stream no write is ever given up on with its connection left
\* open, so what can still arrive late was asked by a read; and a read's reply
\* does not have the function code of a write.
AckInv ==
  /\ HalfDuplex => late \in Seq(Reads)
  /\ pc = "writing" => cur \notin Refused
  /\ forged \subseteq Diagnostic

LEMMA AckAside ==
  ASSUME AckInv, UNCHANGED <<pc, cur, forged>>, late' \in {late, <<>>}
  PROVE  AckInv'
BY EmptySeq DEF AckInv

LEMMA AckLeaves ==
  ASSUME AckInv, pc' # "writing", forged' \subseteq forged,
         late' \in {late, <<>>}
  PROVE  AckInv'
BY EmptySeq DEF AckInv

\* A late reply taken for the answer to r leaves only replies to reads behind.
LEMMA AckLate ==
  ASSUME AckInv, HalfDuplex, NEW r, NEW src, ReplyAccepted(r, src),
         r \in Reads \/ src = r
  PROVE  late' \in Seq(Reads)
<1>1. late \in Seq(Reads)
  BY DEF AckInv
<1>2. CASE UNCHANGED late
  BY <1>1, <1>2
<1>3. CASE late # <<>> /\ late' = Tail(late)
  BY <1>1, <1>3, HeadTail
<1>4. CASE late # <<>> /\ late' = Append(Tail(late), r) /\ src = Head(late)
  <2>1. Head(late) \in Reads /\ Tail(late) \in Seq(Reads)
    BY <1>1, <1>4, HeadTail
  <2>2. r \in Reads
    BY <1>4, <2>1
  <2> QED
    BY <1>4, <2>1, <2>2, AppendType
<1> QED
  BY <1>2, <1>3, <1>4 DEF ReplyAccepted

LEMMA AckPoll ==
  ASSUME TypeOK, AckInv, Poll
  PROVE  AckInv'
<1>1. pc = "polling" /\ Current \in Reads /\ UNCHANGED forged
  BY CurrentType DEF Poll, PollRetry, PollTimeout, PollFatal, PollOk,
     PollException, pollFrame, commandVars, Reads
<1>2. pc' # "writing"
  BY <1>1 DEF Poll, PollRetry, PollTimeout, PollFatal, PollOk, PollException,
     Reconnect
<1>3. HalfDuplex => late' \in Seq(Reads)
  <2> HAVE HalfDuplex
  <2>1. CASE \E src : ReplyAccepted(Current, src)
    BY <1>1, <2>1, AckLate
  <2>2. CASE late' \in LeftBehind(Current)
    BY <1>1, <2>2, AppendType DEF LeftBehind, AckInv
  <2>3. CASE late' = <<>>
    BY <2>3, EmptySeq
  <2> QED
    BY <2>1, <2>2, <2>3 DEF Poll, PollRetry, PollTimeout, PollFatal, PollOk,
       PollException, Reconnect
<1> QED
  BY <1>1, <1>2, <1>3 DEF AckInv

LEMMA AckServe ==
  ASSUME TypeOK, AckInv, Serve
  PROVE  AckInv'
<1>1. cur \in Cmd \ Refused /\ pc = "writing"
  BY ServiceType DEF Serve, CommandTimeout, CommandFatal, CommandAnswered,
       AckInv
<1>2. pc' # "writing"
  BY DEF Serve, CommandTimeout, CommandFatal, CommandAnswered, Reconnect,
     AfterService
<1>3. CASE CommandFatal \/ CommandTimeout
  <2>1. UNCHANGED forged
    BY <1>3 DEF CommandFatal, CommandTimeout
  <2>2. HalfDuplex => late' = <<>>
    BY <1>3 DEF CommandFatal, CommandTimeout, Reconnect
  <2> QED
    BY <1>2, <2>1, <2>2, EmptySeq DEF AckInv
<1>4. ASSUME NEW src, NEW reply, CommandAnswered(src, reply)
      PROVE  AckInv'
  <2>1. ReplyAccepted(cur, src)
    BY <1>4 DEF CommandAnswered
  <2>2. cur \in Reads \/ src = cur
    <3>1. SUFFICES ASSUME src # cur PROVE cur \in Diagnostic
      BY <1>1 DEF Reads
    <3>2. HalfDuplex /\ late # <<>> /\ src = Head(late) /\ Header[cur] = Header[src]
      BY <2>1, <3>1 DEF ReplyAccepted, Passes
    <3>3. src \in Reads
      BY <3>2, HeadTail DEF AckInv
    <3> QED
      BY <1>1, <3>2, <3>3, HeaderAssumption DEF Reads
  <2>3. HalfDuplex => late' \in Seq(Reads)
    BY <2>1, <2>2, AckLate
  <2>4. forged' \subseteq Diagnostic
    <3>1. src # cur => cur \in Diagnostic
      BY <1>1, <2>2, CommandAssumption DEF Reads
    <3> QED
      BY <1>4, <3>1 DEF CommandAnswered, AckInv
  <2> QED
    BY <1>2, <2>3, <2>4 DEF AckInv
<1> QED
  BY <1>3, <1>4 DEF Serve

LEMMA AckStep ==
  ASSUME TypeOK, AckInv, [Next]_vars
  PROVE  AckInv'
<1>1. CASE Poll \/ Serve
  BY <1>1, AckPoll, AckServe
<1>2. ASSUME NEW inTick, Take(inTick)
      PROVE  AckInv'
  BY <1>2 DEF Take, AnsweredLocally, AckInv, AfterService, serviceVars
<1>3. CASE \/ BeginConnect \/ ConnectOk \/ ConnectFail \/ BackoffElapses
           \/ BackoffRefuse \/ BackoffStop \/ SelectStop
  BY <1>3, AckLeaves DEF BeginConnect, ConnectOk, connectedFrame, ConnectFail,
       BackoffElapses,
     BackoffRefuse, BackoffStop, SelectStop, Stop, Reconnect, commandVars
<1>4. CASE SelectDue \/ YieldToDue \/ DrainDone
  BY <1>4, AckLeaves DEF SelectDue, YieldToDue, DrainDone, BeginTick,
     commandVars
<1>5. CASE Tick
  BY <1>5, AckLeaves DEF Tick, TickStop, EnterGroup, EnterTxn, SendPoll,
     EndTick, BetweenGroups, tickFrame
<1>6. CASE Environment \/ UNCHANGED vars
  <2>1. UNCHANGED <<pc, cur, late>> /\ forged' \subseteq forged
    BY <1>6 DEF Environment, Submit, Collect, Expire, IntervalElapses,
       ProbeElapses, FallSilent, FaultsCease, RequestShutdown, taskFrame, vars,
       commandVars, serviceVars
  <2> QED
    BY <2>1 DEF AckInv
<1> QED
  BY <1>1, <1>2, <1>3, <1>4, <1>5, <1>6 DEF Next, Task, SelectCommand,
     DrainCommand

\* However many replies are late, a write is acknowledged only by the reply to
\* that write, because a byte stream is dropped after any write timeout.
THEOREM AckGenuine == Spec => []GenuineAck
<1>1. Init => AckInv
  BY EmptySeq DEF Init, AckInv
<1>2. TypeOK /\ AckInv /\ [Next]_vars => AckInv'
  BY AckStep
<1>3. AckInv => GenuineAck
  BY DEF AckInv, GenuineAck
<1> QED
  BY <1>1, <1>2, <1>3, TypeCorrect, PTL DEF Spec

-----------------------------------------------------------------------------
(* Whose reply a Good value comes from *)

\* A reply to s that passes for the answer to r reaches the tags of r.
Fits(r, s) == /\ Header[r] = Header[s]
              /\ \/ Length[s] = Length[r]
                 \/ LengthRule[r] = "atLeast" /\ Length[s] >= Length[r]
                 \/ LengthRule[r] = "none"

\* What a channel needs for its values to be its own: a transaction id, or a
\* byte stream on which no two reads share unit, function code and length.
ToldApart ==
  HalfDuplex => \A r \in Txn : \A s \in Reads \ {r} : ~Fits(r, s)

\* On a byte stream what is late was asked by a read, and only the read's own
\* reply reaches its tags.
LEMMA OwnPollOk ==
  ASSUME ToldApart, TypeOK, AckInv, GoodIsOwn, NEW src, PollOk(src)
  PROVE  GoodIsOwn'
<1> DEFINE t == Current
<1>1. t \in Txn /\ ReplyAccepted(t, src) /\ ~IsIllegal(src) /\ Scatter(t, src)
  BY CurrentType DEF PollOk
<1>2. CASE src = t
  BY <1>1, <1>2 DEF GoodIsOwn, Scatter, SetQuality
<1>3. CASE src # t
  <2>1. /\ HalfDuplex /\ late # <<>> /\ src = Head(late)
        /\ Header[t] = Header[src] /\ LengthFits(t, src)
    BY <1>1, <1>3 DEF ReplyAccepted, Passes
  <2>2. src \in Reads \ {t}
    BY <1>3, <2>1, HeadTail DEF AckInv
  <2>3. ~Fits(t, src)
    BY <1>1, <2>1, <2>2 DEF ToldApart
  <2>4. LengthRule[t] \in {"exact", "atLeast", "scatter", "none"}
    BY <1>1, CommandAssumption
  <2>5. LengthRule[t] = "scatter" /\ Length[src] # Length[t]
    BY <2>1, <2>3, <2>4 DEF Fits, LengthFits
  <2>6. SetQuality(TagsOf[t], "Bad")
    BY <1>1, <2>5 DEF Scatter
  <2> QED
    BY <2>6 DEF GoodIsOwn, SetQuality
<1> QED
  BY <1>2, <1>3

LEMMA OwnStep ==
  ASSUME ToldApart, TypeOK, AckInv, GoodIsOwn, [Next]_vars
  PROVE  GoodIsOwn'
<1>1. ASSUME NEW src, PollOk(src)
      PROVE  GoodIsOwn'
  BY <1>1, OwnPollOk
<1>2. ASSUME NEW src, NEW kind, PollException(src, kind)
      PROVE  GoodIsOwn'
  BY <1>2 DEF PollException, HandleException, GoodIsOwn, SetQuality, tagVars
<1>3. CASE PollRetry \/ PollTimeout \/ PollFatal \/ Serve
  BY <1>3 DEF PollRetry, PollTimeout, PollFatal, SweepIfCrossing, Serve,
     CommandTimeout, CommandFatal, CommandAnswered, CommandFailure, GoodIsOwn,
     SetQuality, tagVars
<1>4. CASE \/ BeginConnect \/ ConnectOk \/ ConnectFail \/ BackoffElapses
           \/ BackoffRefuse \/ BackoffStop \/ SelectStop
  BY <1>4 DEF BeginConnect, ConnectOk, connectedFrame, ConnectFail,
     BackoffElapses, BackoffRefuse, BackoffStop, SelectStop, Stop, GoodIsOwn,
     SetQuality, tagVars
<1>5. CASE Tick \/ SelectCommand \/ SelectDue \/ YieldToDue \/ DrainCommand
           \/ DrainDone
  BY <1>5 DEF Tick, TickStop, EnterGroup, EnterTxn, SendPoll, EndTick,
     tickFrame, SelectCommand, SelectDue, YieldToDue, DrainCommand, DrainDone,
     Take, BeginTick, GoodIsOwn, tagVars
<1>6. CASE Environment \/ UNCHANGED vars
  BY <1>6 DEF Environment, Submit, Collect, Expire, IntervalElapses,
     ProbeElapses, FallSilent, FaultsCease, RequestShutdown, taskFrame, vars,
     GoodIsOwn, tagVars
<1> QED
  BY <1>1, <1>2, <1>3, <1>4, <1>5, <1>6 DEF Next, Task, Poll

\* On Modbus TCP, and on a byte stream whose reads can be told apart, a value
\* shown Good was read from the tag's own register, however many replies are
\* late.  Without the hypothesis it fails: a late reply fills in for another.
THEOREM OwnValues == ASSUME ToldApart PROVE Spec => []GoodIsOwn
<1>1. Init => GoodIsOwn /\ AckInv
  BY EmptySeq DEF Init, GoodIsOwn, AckInv
<1>2. TypeOK /\ AckInv /\ GoodIsOwn /\ [Next]_vars => AckInv' /\ GoodIsOwn'
  BY AckStep, OwnStep
<1> QED
  BY <1>1, <1>2, TypeCorrect, PTL DEF Spec

-----------------------------------------------------------------------------
(* The reconnect delay *)

\* Only a Reconnect changes the delay, and it lowers it only when the
\* connection it ends was alive.
LEMMA BackoffStep ==
  ASSUME TypeOK, Next
  PROVE  backoff' < backoff => healthy
<1>1. CASE UNCHANGED backoff
  BY <1>1 DEF TypeOK, LinkTypeOK
<1>2. ASSUME NEW alive \in {FALSE, healthy}, NEW c, NEW reply,
             Reconnect(alive, c, reply)
      PROVE  backoff' < backoff => healthy
  <2>1. CASE healthy
    BY <2>1
  <2>2. CASE ~healthy
    <3>1. backoff' = Least(backoff + 1, MaxBackoff)
      <4>1. backoff' = Least((IF alive THEN 0 ELSE backoff) + 1, MaxBackoff)
        BY <1>2 DEF Reconnect
      <4>2. alive = FALSE
        BY <1>2, <2>2 DEF TypeOK, LinkTypeOK
      <4> QED
        BY <4>1, <4>2
    <3>2. backoff \in 0..MaxBackoff /\ MaxBackoff \in Nat
      BY BoundAssumption DEF TypeOK, LinkTypeOK
    <3>3. ~(backoff' < backoff)
      <4>1. Least(backoff + 1, MaxBackoff) >= backoff
        BY <3>2 DEF Least
      <4>2. Least(backoff + 1, MaxBackoff) \in Nat
        BY <3>2 DEF Least
      <4> QED
        BY <3>1, <3>2, <4>1, <4>2
    <3> QED
      BY <3>3
  <2> QED
    BY <2>1, <2>2
<1>3. CASE Poll \/ Serve
  BY <1>1, <1>2, <1>3 DEF Poll, PollRetry, PollTimeout, PollFatal, PollOk,
     PollException, pollFrame, linkVars, Serve, CommandTimeout, CommandFatal,
     CommandAnswered
<1>4. CASE \/ BeginConnect \/ ConnectOk \/ ConnectFail \/ BackoffElapses
           \/ BackoffRefuse \/ BackoffStop \/ SelectStop
  BY <1>1, <1>2, <1>4 DEF BeginConnect, ConnectOk, connectedFrame, ConnectFail,
     BackoffElapses, BackoffRefuse, BackoffStop, SelectStop, Stop, linkVars
<1>5. CASE Tick \/ SelectCommand \/ SelectDue \/ YieldToDue \/ DrainCommand
           \/ DrainDone
  BY <1>1, <1>5 DEF Tick, TickStop, EnterGroup, EnterTxn, SendPoll, EndTick,
     tickFrame, SelectCommand, SelectDue, YieldToDue, DrainCommand, DrainDone,
     Take, BeginTick, linkVars
<1>6. CASE Environment
  BY <1>1, <1>6 DEF Environment, Submit, Collect, Expire, IntervalElapses,
     ProbeElapses, FallSilent, FaultsCease, RequestShutdown, taskFrame, linkVars
<1> QED
  BY <1>3, <1>4, <1>5, <1>6 DEF Next, Task

\* Connects that succeed and carry no reply never shorten the delay.
THEOREM BackoffIsEarned == Spec => BackoffEarned
<1>1. TypeOK /\ [Next]_vars => [backoff' < backoff => healthy]_vars
  BY BackoffStep
<1> QED
  BY <1>1, TypeCorrect, PTL DEF Spec, BackoffEarned
=============================================================================
