----------------------- MODULE ChannelContractProofs -----------------------
(***************************************************************************)
(* The channel task implements CommandContract: the bookkeeping that ties  *)
(* the queue, the status of the commands and the command in service        *)
(* together, and the step simulation that rests on it.                     *)
(***************************************************************************)
EXTENDS ChannelTaskProofs

-----------------------------------------------------------------------------
(* Queues without repetition *)

Elements(s) == {s[i] : i \in DOMAIN s}
NoRepeat(s) == \A i, j \in DOMAIN s : s[i] = s[j] => i = j

\* Taking the head of a queue without repetition takes it out of the queue.
LEMMA TakeHead ==
  ASSUME NEW S, NEW s \in Seq(S), s # <<>>, NoRepeat(s)
  PROVE  /\ NoRepeat(Tail(s)) /\ Head(s) \in Elements(s)
         /\ Elements(Tail(s)) = Elements(s) \ {Head(s)}
<1>1. /\ Len(s) \in Nat /\ Len(s) > 0 /\ DOMAIN s = 1..Len(s)
      /\ Head(s) = s[1]
  BY EmptySeq, LenProperties
<1>2. /\ Tail(s) \in Seq(S) /\ DOMAIN Tail(s) = 1..(Len(s) - 1)
      /\ \A i \in 1..(Len(s) - 1) : Tail(s)[i] = s[i + 1]
  BY HeadTailProperties, LenProperties, <1>1
<1>3. NoRepeat(Tail(s))
  BY <1>1, <1>2 DEF NoRepeat
<1>4. Head(s) \in Elements(s)
  BY <1>1 DEF Elements
<1>5. ASSUME NEW x \in Elements(Tail(s))
      PROVE  x \in Elements(s) \ {Head(s)}
  <2>1. PICK i \in 1..(Len(s) - 1) : x = s[i + 1]
    BY <1>2, <1>5 DEF Elements
  <2>2. i + 1 \in DOMAIN s /\ 1 \in DOMAIN s /\ i + 1 # 1
    BY <1>1
  <2>3. s[i + 1] # s[1]
    BY <2>2 DEF NoRepeat
  <2> QED
    BY <1>1, <2>1, <2>2, <2>3 DEF Elements
<1>6. ASSUME NEW x \in Elements(s) \ {Head(s)}
      PROVE  x \in Elements(Tail(s))
  <2>1. PICK i \in 1..Len(s) : x = s[i]
    BY <1>1 DEF Elements
  <2>2. i - 1 \in 1..(Len(s) - 1) /\ (i - 1) + 1 = i
    BY <1>1, <2>1
  <2>3. Tail(s)[i - 1] = s[i]
    BY <1>2, <2>2
  <2> QED
    BY <1>2, <2>1, <2>2, <2>3 DEF Elements
<1> QED
  BY <1>3, <1>4, <1>5, <1>6

\* A newcomer keeps the queue free of repetition.
LEMMA JoinQueue ==
  ASSUME NEW S, NEW s \in Seq(S), NEW e \in S, NoRepeat(s), e \notin Elements(s)
  PROVE  /\ NoRepeat(Append(s, e))
         /\ Elements(Append(s, e)) = Elements(s) \cup {e}
<1>1. Len(s) \in Nat /\ DOMAIN s = 1..Len(s)
  BY LenProperties
<1>2. /\ DOMAIN Append(s, e) = 1..(Len(s) + 1)
      /\ \A i \in 1..Len(s) : Append(s, e)[i] = s[i]
      /\ Append(s, e)[Len(s) + 1] = e
  BY AppendProperties, LenProperties, <1>1
<1>3. \A i \in 1..(Len(s) + 1) : i \in 1..Len(s) \/ i = Len(s) + 1
  BY <1>1
<1>4. \A i \in 1..Len(s) : s[i] # e
  BY <1>1 DEF Elements
<1>5. NoRepeat(Append(s, e))
  BY <1>1, <1>2, <1>3, <1>4 DEF NoRepeat
<1>6. Elements(Append(s, e)) = Elements(s) \cup {e}
  <2>1. \A i \in 1..Len(s) : i \in 1..(Len(s) + 1)
    BY <1>1
  <2>2. Len(s) + 1 \in 1..(Len(s) + 1)
    BY <1>1
  <2> QED
    BY <1>1, <1>2, <1>3, <2>1, <2>2 DEF Elements
<1> QED
  BY <1>5, <1>6

-----------------------------------------------------------------------------
(* The books of the command queue *)

QueueInv ==
  /\ NoRepeat(queue)
  /\ \A c \in Cmd : cmd[c] = "queued" <=> c \in Elements(queue)
  /\ \A c \in Cmd : cmd[c] = "sent" <=> pc = "writing" /\ cur = c
  /\ \A c \in expired : cmd[c] \in {"queued", "sent"}

LEMMA QueueElements == InQueue = Elements(queue)
BY DEF InQueue, Elements

\* A step of the link alone.
LEMMA QueueAside ==
  ASSUME TypeOK, QueueInv, UNCHANGED <<queue, cmd, expired>>,
         pc # "writing", pc' # "writing"
  PROVE  QueueInv' /\ (\A c \in Cmd : cmd[c] # "sent")
BY DEF QueueInv

\* Everything that was pending is answered.
LEMMA QueueEmptied ==
  ASSUME TypeOK, QueueInv, NEW c, pc' # "writing",
         IF pc = "writing" THEN c = cur ELSE c \notin Cmd,
         NEW reply \in Contract!Failures, FailPendingWrites(c, reply)
  PROVE  /\ QueueInv' /\ queue' = <<>> /\ expired' = {}
         /\ \E answer \in [Contract!Pending -> Contract!Failures] :
              cmd' = [x \in Cmd |-> IF x \in Contract!Pending THEN answer[x]
                                    ELSE cmd[x]]
<1> USE QueueElements
<1>1. Contract!Pending = {x \in Cmd : x = c \/ x \in InQueue}
  BY DEF QueueInv, Contract!Pending
<1>2. expired' = {} /\ queue' = <<>>
  BY <1>1 DEF FailPendingWrites, QueueInv, Contract!Pending, TypeOK,
     CommandTypeOK
<1>3. \A x \in Cmd : cmd'[x] = IF x = c THEN reply
                               ELSE IF x \in InQueue THEN "notconnected"
                               ELSE cmd[x]
  BY DEF FailPendingWrites
<1>4. reply \notin {"queued", "sent"} /\ "notconnected" \in Contract!Failures
  BY DEF Contract!Failures
<1>5. \A x \in Cmd : cmd'[x] \notin {"queued", "sent"}
  <2> SUFFICES ASSUME NEW x \in Cmd, x # c, x \notin InQueue
               PROVE  cmd[x] \notin {"queued", "sent"}
    BY <1>3, <1>4
  <2> QED
    BY DEF QueueInv
<1>6. QueueInv'
  <2>1. NoRepeat(queue') /\ Elements(queue') = {}
    BY <1>2 DEF NoRepeat, Elements
  <2> QED
    BY <1>2, <1>5, <2>1 DEF QueueInv
<1>7. \E answer \in [Contract!Pending -> Contract!Failures] :
        cmd' = [x \in Cmd |-> IF x \in Contract!Pending THEN answer[x]
                              ELSE cmd[x]]
  <2> DEFINE a == [x \in Contract!Pending |-> IF x = c THEN reply
                                              ELSE "notconnected"]
  <2>1. a \in [Contract!Pending -> Contract!Failures]
    BY <1>4
  <2>2. cmd' = [x \in Cmd |-> IF x \in Contract!Pending THEN a[x] ELSE cmd[x]]
    BY <1>1 DEF FailPendingWrites
  <2> QED
    BY <2>1, <2>2
<1> QED
  BY <1>2, <1>6, <1>7

-----------------------------------------------------------------------------
(* Each step of the task is a step of the contract, or a stutter *)

Simulated == QueueInv' /\ [Contract!Next]_(Contract!vars)

\* The link's own steps.
LEMMA LinkStutter ==
  ASSUME TypeOK, QueueInv, UNCHANGED <<queue, cmd, expired>>,
         pc # "writing", pc' # "writing", pc \in Down <=> pc' \in Down
  PROVE  Simulated
BY QueueAside DEF Simulated, Contract!vars

LEMMA LinkComesUp ==
  ASSUME TypeOK, QueueInv, ConnectOk
  PROVE  Simulated
<1>1. UNCHANGED <<queue, cmd, expired>> /\ pc \in Down /\ pc' \notin Down
  BY DEF ConnectOk, connectedFrame, commandVars, Down
<1>2. pc # "writing" /\ pc' # "writing"
  BY DEF ConnectOk
<1>3. Contract!LinkUp
  BY <1>1 DEF Contract!LinkUp
<1> QED
  BY <1>1, <1>2, <1>3, QueueAside DEF Simulated, Contract!Next

\* The link is lost: with a command in service, with none, or for good.
LEMMA LinkGoesDown ==
  ASSUME TypeOK, QueueInv, pc' \in Down, NEW c, NEW reply \in Contract!Failures,
         IF pc = "writing" THEN c = cur ELSE c \notin Cmd,
         FailPendingWrites(c, reply)
  PROVE  Simulated
<1>1. pc' # "writing"
  BY DEF Down
<1>2. /\ QueueInv' /\ queue' = <<>> /\ expired' = {}
      /\ \E answer \in [Contract!Pending -> Contract!Failures] :
           cmd' = [x \in Cmd |-> IF x \in Contract!Pending THEN answer[x]
                                 ELSE cmd[x]]
  BY <1>1, QueueEmptied
<1>3. Contract!LinkLost
  BY <1>2 DEF Contract!LinkLost
<1> QED
  BY <1>2, <1>3 DEF Simulated, Contract!Next

\* The task ends only where no command is in service.
LEMMA TaskEnds ==
  ASSUME TypeOK, QueueInv, Stop, pc # "writing"
  PROVE  Simulated
<1>1. queue' = <<>> /\ pc' = "stopped"
  BY DEF Stop
<1>2. Contract!Pending = InQueue
  BY QueueElements, InQueueType DEF QueueInv, Contract!Pending, TypeOK,
     CommandTypeOK
<1>3. /\ cmd' = [x \in Cmd |-> IF x \in InQueue THEN "dropped" ELSE cmd[x]]
      /\ expired' = {}
  BY <1>2 DEF Stop, Answer, QueueInv, Contract!Pending, TypeOK, CommandTypeOK
<1>4. QueueInv'
  <2>1. NoRepeat(queue') /\ Elements(queue') = {}
    BY <1>1 DEF NoRepeat, Elements
  <2>2. \A x \in Cmd : cmd'[x] \notin {"queued", "sent"}
    BY <1>2, <1>3 DEF Contract!Pending
  <2> QED
    BY <1>1, <1>3, <2>1, <2>2 DEF QueueInv
<1>5. Contract!LinkLost
  <2> DEFINE a == [x \in Contract!Pending |-> "dropped"]
  <2>1. a \in [Contract!Pending -> Contract!Failures]
    BY DEF Contract!Failures
  <2>2. cmd' = [x \in Cmd |-> IF x \in Contract!Pending THEN a[x] ELSE cmd[x]]
    BY <1>2, <1>3
  <2> QED
    BY <1>1, <1>3, <2>1, <2>2 DEF Contract!LinkLost, Down
<1> QED
  BY <1>4, <1>5 DEF Simulated, Contract!Next

\* The oldest command is answered without being transmitted.
LEMMA HeadRefused ==
  ASSUME TypeOK, QueueInv, pc # "writing", pc' # "writing", queue # <<>>,
         pc \in Down <=> pc' \in Down, queue' = Tail(queue),
         NEW reply \in Contract!Failures, Answer({Head(queue)}, reply)
  PROVE  Simulated
<1> DEFINE h == Head(queue)
<1>1. /\ queue \in Seq(Cmd) /\ h \in Cmd /\ NoRepeat(queue')
      /\ Elements(queue') = Elements(queue) \ {h}
  BY TakeHead, HeadTail DEF TypeOK, CommandTypeOK, QueueInv
<1>2. /\ cmd' = [cmd EXCEPT ![h] = reply]
      /\ expired' = expired \ {h}
  BY DEF Answer, TypeOK, CommandTypeOK
<1>3. reply \notin {"queued", "sent"}
  BY DEF Contract!Failures
<1>4. QueueInv'
  <2>1. \A c \in Cmd : cmd'[c] = IF c = h THEN reply ELSE cmd[c]
    BY <1>2 DEF TypeOK, CommandTypeOK
  <2> QED
    BY <1>1, <1>2, <1>3, <2>1 DEF QueueInv, TypeOK, CommandTypeOK
<1>5. Contract!InFlight = {}
  BY DEF QueueInv, Contract!InFlight
<1>6. Contract!Refuse(reply)
  BY <1>2, <1>5 DEF Contract!Refuse
<1> QED
  BY <1>1, <1>4, <1>6 DEF Simulated, Contract!Next

LEMMA HeadTransmitted ==
  ASSUME TypeOK, QueueInv, pc # "writing", pc \notin Down, queue # <<>>,
         queue' = Tail(queue), Head(queue) \notin expired, UNCHANGED expired,
         cmd' = [cmd EXCEPT ![Head(queue)] = "sent"],
         pc' = "writing", cur' = Head(queue)
  PROVE  Simulated
<1> DEFINE h == Head(queue)
<1>1. /\ queue \in Seq(Cmd) /\ h \in Cmd /\ NoRepeat(queue')
      /\ Elements(queue') = Elements(queue) \ {h}
  BY TakeHead, HeadTail DEF TypeOK, CommandTypeOK, QueueInv
<1>2. QueueInv'
  <2>1. \A c \in Cmd : cmd'[c] = IF c = h THEN "sent" ELSE cmd[c]
    BY DEF TypeOK, CommandTypeOK
  <2> QED
    BY <1>1, <2>1 DEF QueueInv, TypeOK, CommandTypeOK
<1>3. Contract!InFlight = {}
  BY DEF QueueInv, Contract!InFlight
<1>4. Contract!Transmit
  BY <1>3 DEF Contract!Transmit, Down
<1> QED
  BY <1>2, <1>4 DEF Simulated, Contract!Next

LEMMA TakeStep ==
  ASSUME TypeOK, QueueInv, pc \in {"select", "boundary"}, NEW inTick,
            Take(inTick)
  PROVE  Simulated
<1> DEFINE h == Head(queue)
<1>1. pc # "writing" /\ pc \notin Down /\ queue # <<>> /\ queue' = Tail(queue)
  BY DEF Take, Down
<1>2. CASE AnsweredLocally(h)
  <2>1. \E reply \in Contract!Failures : Answer({h}, reply)
    BY <1>2 DEF Take, Contract!Failures
  <2>2. pc' # "writing" /\ pc' \notin Down
    BY <1>2 DEF Take, AfterService, Down
  <2> QED
    BY <1>1, <2>1, <2>2, HeadRefused
<1>3. CASE ~AnsweredLocally(h)
  BY <1>1, <1>3, HeadTransmitted DEF Take, AnsweredLocally
<1> QED
  BY <1>2, <1>3

\* The command in service is answered and the link stays up.
LEMMA ServiceAnswered ==
  ASSUME TypeOK, QueueInv, pc = "writing", pc' \notin Down \cup {"writing"},
         UNCHANGED queue, NEW reply \in Contract!Acks \cup Contract!Failures,
         Answer({cur}, reply)
  PROVE  Simulated
<1>1. cur \in Cmd /\ cmd[cur] = "sent"
  BY ServiceType DEF QueueInv
<1>2. cmd' = [cmd EXCEPT ![cur] = reply] /\ expired' = expired \ {cur}
  BY DEF Answer, TypeOK, CommandTypeOK
<1>3. reply \notin {"queued", "sent"}
  BY DEF Contract!Failures, Contract!Acks
<1>4. QueueInv'
  <2>1. \A c \in Cmd : cmd'[c] = IF c = cur THEN reply ELSE cmd[c]
    BY <1>2 DEF TypeOK, CommandTypeOK
  <2>2. \A c \in Cmd : cmd'[c] = "sent" <=> FALSE
    BY <1>3, <2>1 DEF QueueInv
  <2>3. \A c \in Cmd : cmd'[c] = "queued" <=> cmd[c] = "queued"
    BY <1>1, <1>3, <2>1
  <2>4. \A c \in expired' : cmd'[c] \in {"queued", "sent"}
    BY <1>2, <2>1 DEF QueueInv, TypeOK, CommandTypeOK
  <2> QED
    BY <2>2, <2>3, <2>4 DEF QueueInv
<1>5. Contract!Reply(cur, reply)
  BY <1>1, <1>2 DEF Contract!Reply, Down
<1> QED
  BY <1>1, <1>4, <1>5 DEF Simulated, Contract!Next

-----------------------------------------------------------------------------
(* The simulation *)

LEMMA ConnectionStep ==
  ASSUME TypeOK, QueueInv,
         \/ BeginConnect \/ ConnectOk \/ ConnectFail \/ BackoffElapses
         \/ BackoffRefuse \/ BackoffStop \/ SelectStop
  PROVE  Simulated
<1>1. pc # "writing"
  BY DEF BeginConnect, ConnectOk, ConnectFail, BackoffElapses, BackoffRefuse,
     BackoffStop, SelectStop
<1>2. CASE Stop
  BY <1>1, <1>2, TaskEnds
<1>3. CASE ConnectOk
  BY <1>3, LinkComesUp
<1>4. CASE ConnectFail
  <2>1. FailPendingWrites(NoCmd, "notconnected") /\ pc' \in Down
    BY <1>4 DEF ConnectFail, Reconnect, Down
  <2>2. NoCmd \notin Cmd /\ "notconnected" \in Contract!Failures
    BY CommandAssumption DEF Contract!Failures
  <2> QED
    BY <1>1, <2>1, <2>2, LinkGoesDown
<1>5. CASE BackoffRefuse
  <2>1. /\ queue # <<>> /\ queue' = Tail(queue) /\ UNCHANGED pc
        /\ Answer({Head(queue)}, "notconnected")
    BY <1>5 DEF BackoffRefuse
  <2> QED
    BY <1>1, <2>1, HeadRefused DEF Contract!Failures
<1>6. CASE (BeginConnect /\ ~Stop) \/ BackoffElapses
  BY <1>6, LinkStutter DEF BeginConnect, BackoffElapses, commandVars, Down
<1> QED
  BY <1>2, <1>3, <1>4, <1>5, <1>6 DEF BackoffStop, SelectStop

LEMMA PollStep ==
  ASSUME TypeOK, QueueInv, Poll
  PROVE  Simulated
<1>1. pc = "polling"
  BY DEF Poll, PollRetry, PollTimeout, PollFatal
<1>2. CASE \E alive : Reconnect(alive, NoCmd, "notconnected")
  <2>1. FailPendingWrites(NoCmd, "notconnected") /\ pc' \in Down
    BY <1>2 DEF Reconnect, Down
  <2>2. NoCmd \notin Cmd /\ "notconnected" \in Contract!Failures
    BY CommandAssumption DEF Contract!Failures
  <2> QED
    BY <1>1, <2>1, <2>2, LinkGoesDown
<1>3. CASE pc' \in {"polling", "boundary"} /\ UNCHANGED <<queue, cmd, expired>>
  BY <1>1, <1>3, LinkStutter DEF Down
<1> QED
  BY <1>1, <1>2, <1>3 DEF Poll, PollRetry, PollTimeout, PollFatal, PollOk,
     PollException, pollFrame, commandVars

LEMMA ServeStep ==
  ASSUME TypeOK, QueueInv, Serve
  PROVE  Simulated
<1>1. pc = "writing"
  BY DEF Serve, CommandTimeout, CommandFatal, CommandAnswered
<1>2. ASSUME NEW alive, NEW reply \in Contract!Failures,
             Reconnect(alive, cur, reply)
      PROVE  Simulated
  <2>1. FailPendingWrites(cur, reply) /\ pc' \in Down
    BY <1>2 DEF Reconnect, Down
  <2> QED
    BY <1>1, <2>1, LinkGoesDown
<1>3. ASSUME NEW reply \in Contract!Acks \cup Contract!Failures,
             Answer({cur}, reply), UNCHANGED queue,
             pc' = AfterService(cur, draining)
      PROVE  Simulated
  <2>1. pc' \notin Down \cup {"writing"}
    BY <1>3 DEF AfterService, Down
  <2> QED
    BY <1>1, <1>3, <2>1, ServiceAnswered
<1>4. CASE CommandTimeout
  <2>1. "timeout" \in Contract!Failures
    BY DEF Contract!Failures
  <2>2. \/ Reconnect(healthy, cur, "timeout")
        \/ /\ Answer({cur}, "timeout") /\ UNCHANGED queue
           /\ pc' = AfterService(cur, draining)
    BY <1>4 DEF CommandTimeout
  <2> QED
    BY <1>2, <1>3, <2>1, <2>2
<1>5. CASE CommandFatal
  <2>1. "failed" \in Contract!Failures /\ Reconnect(healthy, cur, "failed")
    BY <1>5 DEF CommandFatal, Contract!Failures
  <2> QED
    BY <1>2, <2>1
<1>6. ASSUME NEW src, NEW reply, CommandAnswered(src, reply)
      PROVE  Simulated
  BY <1>3, <1>6 DEF CommandAnswered, Contract!Acks
<1> QED
  BY <1>4, <1>5, <1>6 DEF Serve

LEMMA EnvironmentStep ==
  ASSUME TypeOK, QueueInv, Environment
  PROVE  Simulated
<1>1. UNCHANGED <<pc, cur>>
  BY DEF Environment, Submit, Collect, Expire, IntervalElapses, ProbeElapses,
     FallSilent, FaultsCease, RequestShutdown, taskFrame, serviceVars
<1>2. ASSUME NEW c \in Cmd, Submit(c)
      PROVE  Simulated
  <2>1. /\ cmd[c] = "idle" /\ c \notin Elements(queue)
        /\ cmd' = [cmd EXCEPT ![c] = "queued"] /\ queue' = Append(queue, c)
        /\ UNCHANGED expired
    BY <1>2 DEF Submit, QueueInv
  <2>2. NoRepeat(queue') /\ Elements(queue') = Elements(queue) \cup {c}
    BY <2>1, JoinQueue DEF QueueInv, TypeOK, CommandTypeOK
  <2>3. \A x \in Cmd : cmd'[x] = IF x = c THEN "queued" ELSE cmd[x]
    BY <2>1 DEF TypeOK, CommandTypeOK
  <2>4. QueueInv'
    BY <1>1, <2>1, <2>2, <2>3 DEF QueueInv, TypeOK, CommandTypeOK
  <2>5. Contract!Submit(c)
    BY <1>1, <1>2, <2>1 DEF Submit, Contract!Submit
  <2> QED
    BY <2>4, <2>5 DEF Simulated, Contract!Next
<1>3. ASSUME NEW c \in Cmd, Collect(c)
      PROVE  Simulated
  <2>1. /\ cmd[c] \in Replies /\ cmd' = [cmd EXCEPT ![c] = "idle"]
        /\ UNCHANGED <<queue, expired>>
    BY <1>3 DEF Collect
  <2>2. \A x \in Cmd : cmd'[x] = IF x = c THEN "idle" ELSE cmd[x]
    BY <2>1 DEF TypeOK, CommandTypeOK
  <2>3. cmd[c] \notin {"queued", "sent"}
    BY <2>1 DEF Replies
  <2>4. QueueInv'
    BY <1>1, <2>1, <2>2, <2>3 DEF QueueInv, TypeOK, CommandTypeOK
  <2>5. Contract!Collect(c)
    BY <1>1, <1>3, <2>1 DEF Collect, Contract!Collect, Contract!Acks,
       Contract!Failures, Replies
  <2> QED
    BY <2>4, <2>5 DEF Simulated, Contract!Next
<1>4. ASSUME NEW c \in Cmd, Expire(c)
      PROVE  Simulated
  <2>1. QueueInv'
    BY <1>1, <1>4 DEF Expire, QueueInv
  <2>2. Contract!Expire(c)
    BY <1>1, <1>4 DEF Expire, Contract!Expire
  <2> QED
    BY <2>1, <2>2 DEF Simulated, Contract!Next
<1>5. CASE UNCHANGED <<queue, cmd, expired>>
  BY <1>1, <1>5 DEF QueueInv, Simulated, Contract!vars
<1> QED
  BY <1>2, <1>3, <1>4, <1>5 DEF Environment, IntervalElapses, ProbeElapses,
     FallSilent, FaultsCease, RequestShutdown

LEMMA ContractStep ==
  ASSUME TypeOK, QueueInv, [Next]_vars
  PROVE  Simulated
<1>1. CASE \/ BeginConnect \/ ConnectOk \/ ConnectFail \/ BackoffElapses
           \/ BackoffRefuse \/ BackoffStop \/ SelectStop
  BY <1>1, ConnectionStep
<1>2. CASE SelectCommand \/ DrainCommand
  BY <1>2, TakeStep DEF SelectCommand, DrainCommand
<1>3. CASE SelectDue \/ YieldToDue \/ DrainDone
  BY <1>3, LinkStutter DEF SelectDue, YieldToDue, DrainDone, BeginTick,
     commandVars, Down
<1>4. CASE Tick
  BY <1>4, LinkStutter DEF Tick, TickStop, EnterGroup, EnterTxn, SendPoll,
     EndTick, BetweenGroups, tickFrame, Down
<1>5. CASE Poll \/ Serve \/ Environment
  BY <1>5, PollStep, ServeStep, EnvironmentStep
<1>6. CASE UNCHANGED vars
  BY <1>6 DEF vars, commandVars, serviceVars, QueueInv, Simulated, Contract!vars
<1> QED
  BY <1>1, <1>2, <1>3, <1>4, <1>5, <1>6 DEF Next, Task

\* The channel task keeps the contract with the submitters of commands: each
\* is transmitted at most once, in order, never past its deadline, never after
\* a loss of the link it waited through, and answered once.
THEOREM ContractKept == Spec => KeepsContract
<1>1. Init => QueueInv /\ Contract!Init
  BY DEF Init, QueueInv, NoRepeat, Elements, Contract!Init, Down
<1>2. TypeOK /\ QueueInv /\ [Next]_vars
      => QueueInv' /\ [Contract!Next]_(Contract!vars)
  BY ContractStep DEF Simulated
<1> QED
  BY <1>1, <1>2, TypeCorrect, PTL DEF Spec, KeepsContract, Contract!Spec
=============================================================================
