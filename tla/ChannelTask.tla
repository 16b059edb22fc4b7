---------------------------- MODULE ChannelTask ----------------------------
(***************************************************************************)
(* run_channel of mb-poller: the one task that owns a physical Modbus      *)
(* channel.  It connects, polls the due transactions, serves the bounded   *)
(* queue of write and diagnostic commands between transactions, keeps a    *)
(* failure counter per device and maps what happens on the wire to the     *)
(* quality of the tags.                                                    *)
(*                                                                         *)
(* The wire and the devices are an environment: a reply may be in time,    *)
(* late, missing or somebody else's, and a connection may break.           *)
(* Durations are left out; a timer is an action that may happen.           *)
(***************************************************************************)
EXTENDS Naturals, Sequences, FiniteSets

CONSTANTS
  Device,       \* the channel's enabled devices
  Tag,          \* the tags they feed
  Txn,          \* the transactions of the plan and of their splits
  Group,        \* (device, poll group) pairs that have transactions
  Period,       \* the distinct poll periods
  Cmd,          \* command slots: the submitters of writes and diagnostics
  NoCmd,        \* "no command is in service"
  TagDev,       \* [Tag -> Device], the device whose all_tags holds the tag
  TxnDev,       \* [Txn -> Device]
  TagsOf,       \* [Txn -> SUBSET Tag], the fields of a transaction
  SplitOf,      \* [Txn -> Seq(Txn)], its singletons; <<>> when not coalesced
  GroupDev,     \* [Group -> Device]
  GroupTxns,    \* [Group -> Seq(Txn)]
  BatchOf,      \* [SUBSET Period -> Seq(Group)], by descending priority
  Diagnostic,   \* commands that are read-only diagnostics
  Refused,      \* commands with no route: unknown device, non-read diagnostic
  Recurring,    \* commands whose submitter comes back for more
  Mortal,       \* devices that may stop answering for good
  Settles,      \* TRUE: transient faults end some day
  Target,       \* [Cmd -> Device]
  Header,       \* [Txn \cup Cmd -> unit and function code]
  Length,       \* [Txn \cup Cmd -> length of the normal reply]
  LengthRule,   \* [Txn \cup Cmd -> how the length of a reply is checked]
  BadTag,       \* tags whose register the device does not have
  HalfDuplex,   \* TRUE for RTU and RTU over TCP, FALSE for Modbus TCP
  OfflineAfter, \* offline_after, at least 1
  MaxRetries,   \* retry.max_retries
  MaxBackoff,   \* number of doublings from base_backoff_ms to max_backoff_ms
  QueueCap,     \* capacity of the command queue (64 in the code)
  MaxLate       \* bound of the model: late replies under way at one time

ASSUME PlanAssumption ==
  /\ TagDev \in [Tag -> Device]
  /\ TxnDev \in [Txn -> Device]
  /\ TagsOf \in [Txn -> SUBSET Tag]
  /\ \A t \in Txn : \A x \in TagsOf[t] : TagDev[x] = TxnDev[t]
  /\ SplitOf \in [Txn -> Seq(Txn)]
  /\ GroupDev \in [Group -> Device]
  /\ GroupTxns \in [Group -> Seq(Txn)]
  /\ BatchOf \in [SUBSET Period -> Seq(Group)]

ASSUME CommandAssumption ==
  /\ NoCmd \notin Cmd
  /\ Diagnostic \subseteq Cmd
  /\ Refused \subseteq Cmd
  /\ Target \in [Cmd -> Device]
  /\ Txn \cap Cmd = {}
  /\ LengthRule \in [Txn \cup Cmd -> {"exact", "atLeast", "scatter", "none"}]

\* A write has a function code no read has; a configuration whose custom read
\* collides with a standard code draws a warning of its own.
ASSUME HeaderAssumption ==
  \A w \in Cmd \ Diagnostic, r \in Txn \cup (Diagnostic \ Refused) :
    Header[w] # Header[r]

ASSUME BoundAssumption ==
  /\ HalfDuplex \in BOOLEAN
  /\ Settles \in BOOLEAN
  /\ Mortal \subseteq Device
  /\ OfflineAfter \in Nat \ {0}
  /\ MaxRetries \in Nat
  /\ MaxBackoff \in Nat
  /\ QueueCap \in Nat \ {0}
  /\ MaxLate \in Nat

VARIABLES
  (* the task *)
  pc,        \* where run_channel is
  groups,    \* groups of the batch not yet begun
  base,      \* base transactions left in the group being polled
  subs,      \* transactions left of the base transaction being polled
  retries,   \* retries left for the request in flight
  cur,       \* command in service, or NoCmd
  draining,  \* TRUE: cur was taken inside a tick, FALSE: at the select!
  swept,     \* the outage has been announced on every tag
  healthy,   \* this connection has carried a reply
  consec,    \* consec_timeouts, counted up to 2
  backoff,   \* doublings of the delay the next backoff will sleep
  (* DeviceRuntime, which outlives connections *)
  online, fails, split,
  waiting,   \* offline devices whose next_probe_at lies ahead
  (* the tag cache *)
  quality,
  foreign,   \* history: Good tags whose value is from another request's reply
  (* commands *)
  queue, cmd, expired,
  forged,    \* history: commands acknowledged by another request's reply
  passed,    \* history: polls begun since a command was last served, <= 2
  (* timers, wire, devices, operator *)
  ready,     \* poll intervals that have elapsed
  late,      \* requests given up on whose reply is still under way
  mute,      \* devices that have stopped answering for good
  settled,   \* transient faults are over
  shutdown   \* the watch channel carries TRUE

tickVars    == <<groups, base, subs, retries>>
linkVars    == <<swept, healthy, consec, backoff>>
deviceVars  == <<online, fails, split, waiting>>
tagVars     == <<quality, foreign>>
commandVars == <<queue, cmd, expired, forged, passed>>
serviceVars == <<cur, draining>>
worldVars   == <<mute, settled, shutdown>>
vars == <<pc, tickVars, linkVars, deviceVars, tagVars, commandVars,
          serviceVars, ready, late, worldVars>>

-----------------------------------------------------------------------------
(* Vocabulary *)

Places   == {"reconnect", "connecting", "select", "yield", "dispatch",
             "polling", "boundary", "writing", "backoff", "stopped"}
Down     == {"reconnect", "connecting", "backoff", "stopped"}
Quality  == {"Good", "Uncertain", "Bad"}
Replies  == {"ok", "exception", "timeout", "failed", "refused", "notconnected",
             "dropped"}
Statuses == {"idle", "queued", "sent"} \cup Replies

InQueue   == {queue[i] : i \in DOMAIN queue}
AllTags(d) == {x \in Tag : TagDev[x] = d}
Current   == Head(subs)
Least(a, b) == IF a < b THEN a ELSE b

\* What the addressed device makes of a request it hears: the register map
\* decides, an IllegalDataAddress exception when a register is missing.
IsIllegal(r) == r \in Txn /\ TagsOf[r] \cap BadTag # {}

\* What Transport::request checks of a reply to s before it takes it for the
\* answer to r.  A TCP reply carries the transaction id of its own request.
LengthFits(r, s) == CASE LengthRule[r] = "exact"   -> Length[s] = Length[r]
                      [] LengthRule[r] = "atLeast" -> Length[s] >= Length[r]
                      [] OTHER                     -> TRUE

Passes(r, s) == /\ HalfDuplex
                /\ Header[r] = Header[s]
                /\ IsIllegal(s) \/ LengthFits(r, s)

Listens(r) == IF r \in Txn THEN TxnDev[r] \notin mute
              ELSE r \in Diagnostic \/ Target[r] \notin mute

-----------------------------------------------------------------------------
(* One exchange, as Transport::request reports it *)

\* The reply to request src is accepted as the answer to r; a late reply that
\* takes the place of r's own leaves r's own under way.
ReplyAccepted(r, src) ==
  \/ /\ src = r
     /\ Listens(r)
     /\ UNCHANGED late
  \/ /\ late # <<>>
     /\ src = Head(late)
     /\ Passes(r, src)
     /\ \/ Listens(r) /\ late' = Append(Tail(late), r)
        \/ ~(Listens(r) /\ settled) /\ late' = Tail(late)

\* Nothing is accepted within the timeout: the peer is silent, slow, or the
\* command's deadline left it too little time.
TimesOut(r) == ~Listens(r) \/ ~settled \/ r \in Diagnostic \/ r \in expired

\* What may be under way after that: the reply may still come.
LeftBehind(r) ==
  {late} \cup {x \in {Append(late, r)} : Listens(r) /\ Len(late) < MaxLate}

\* I/O error, or a frame that cannot be the answer.
Breaks(r) == ~settled \/ (late # <<>> /\ ~Passes(r, Head(late)))

-----------------------------------------------------------------------------
(* DeviceRuntime and the sink *)

SetQuality(S, q) ==
  /\ quality' = [x \in Tag |-> IF x \in S THEN q ELSE quality[x]]
  /\ foreign' = foreign \ S

\* Mutant of Scatter: the length of a custom reply is not looked at.
ScatterUnchecked(t, src) ==
  /\ quality' = [x \in Tag |-> IF x \in TagsOf[t] THEN "Good" ELSE quality[x]]
  /\ foreign' = IF src = t THEN foreign \ TagsOf[t]
                ELSE foreign \cup TagsOf[t]

\* scatter: the fields become Good, unless a custom reply has another length
\* than expect_len.
Scatter(t, src) ==
  IF LengthRule[t] = "scatter" /\ Length[src] # Length[t]
  THEN SetQuality(TagsOf[t], "Bad")
  ELSE /\ quality' = [x \in Tag |-> IF x \in TagsOf[t] THEN "Good"
                                     ELSE quality[x]]
       /\ foreign' = IF src = t THEN foreign \ TagsOf[t]
                     ELSE foreign \cup TagsOf[t]

OnSuccess(d) == /\ fails' = [fails EXCEPT ![d] = 0]
                /\ online' = [online EXCEPT ![d] = TRUE]
                /\ waiting' = waiting \ {d}

\* The failure that takes the device offline; fails is counted up to there.
Crosses(d) == online[d] /\ fails[d] + 1 >= OfflineAfter

OnCommFailure(d) ==
  /\ fails' = [fails EXCEPT ![d] = Least(fails[d] + 1, OfflineAfter)]
  /\ online' = [online EXCEPT ![d] = online[d] /\ ~Crosses(d)]
  /\ waiting' = IF online'[d] THEN waiting ELSE waiting \cup {d}

\* Mutant of SweepIfCrossing: the device goes offline unannounced.
SweepNever(d) == UNCHANGED tagVars

\* The watchdog sweep that goes with a comm failure.
SweepIfCrossing(d) == IF Crosses(d) THEN SetQuality(AllTags(d), "Bad")
                      ELSE UNCHANGED tagVars

NotDueToProbe(d) == ~online[d] /\ d \in waiting

EffectiveTxns(t) == IF t \in split THEN SplitOf[t] ELSE <<t>>

\* Mutant of HandleException: a coalesced read is never split.
HandleExceptionWhole(t, kind) == SetQuality(TagsOf[t], "Bad") /\ UNCHANGED split

\* handle_exception: split a coalesced read once, else its tags go Bad.
HandleException(t, kind) ==
  IF kind = "illegal" /\ SplitOf[t] # <<>> /\ t \notin split
  THEN /\ split' = split \cup {t}
       /\ UNCHANGED tagVars
  ELSE /\ SetQuality(TagsOf[t], "Bad")
       /\ UNCHANGED split

-----------------------------------------------------------------------------
(* Answering commands *)

Answer(S, reply) ==
  /\ cmd' = [c \in Cmd |-> IF c \in S THEN reply ELSE cmd[c]]
  /\ expired' = expired \ S

\* Mutant of FailPendingWrites: only the first command of the queue is failed,
\* the rest outlives the connection.
FailFirstPending(c, reply) ==
  LET failed == IF queue = <<>> THEN {} ELSE {Head(queue)}
  IN /\ cmd' = [x \in Cmd |-> IF x = c THEN reply
                              ELSE IF x \in failed THEN "notconnected"
                              ELSE cmd[x]]
     /\ expired' = expired \ (failed \cup {c})
     /\ queue' = IF queue = <<>> THEN queue ELSE Tail(queue)

\* service_write answers c, then fail_pending_writes answers the queue; c is
\* NoCmd when a poll or a connect attempt failed.
FailPendingWrites(c, reply) ==
  /\ cmd' = [x \in Cmd |-> IF x = c THEN reply
                           ELSE IF x \in InQueue THEN "notconnected"
                           ELSE cmd[x]]
  /\ expired' = expired \ (InQueue \cup {c})
  /\ queue' = <<>>

\* The tail of every Reconnect outcome and of a failed connect: the queue is
\* failed and the backoff entered with the next delay doubled.
Reconnect(alive, c, reply) ==
  /\ pc' = "backoff"
  /\ backoff' = Least((IF alive THEN 0 ELSE backoff) + 1, MaxBackoff)
  /\ FailPendingWrites(c, reply)
  /\ passed' = 0
  /\ groups' = <<>> /\ base' = <<>> /\ subs' = <<>> /\ retries' = 0
  /\ cur' = NoCmd /\ draining' = FALSE
  /\ late' = <<>>

\* Mutant of Stop: the queue is neither drained nor dropped.
StopSilently ==
  /\ pc' = "stopped"
  /\ late' = <<>>
  /\ UNCHANGED <<tickVars, linkVars, deviceVars, tagVars, commandVars,
                 serviceVars, ready, worldVars>>

Stop ==
  /\ pc' = "stopped"
  /\ Answer(InQueue, "dropped")
  /\ queue' = <<>>
  /\ late' = <<>>
  /\ UNCHANGED <<tickVars, linkVars, deviceVars, tagVars, forged, passed,
                 serviceVars, ready, worldVars>>

-----------------------------------------------------------------------------
(* Connecting and backing off *)

BeginConnect ==
  /\ pc = "reconnect"
  /\ IF shutdown THEN Stop
     ELSE /\ pc' = "connecting"
          /\ UNCHANGED <<tickVars, linkVars, deviceVars, tagVars, commandVars,
                         serviceVars, ready, late, worldVars>>

connectedFrame == <<tickVars, tagVars, commandVars, serviceVars, ready, late,
                    worldVars>>

\* Mutants of ConnectOk: the outage is not over; a connect wipes the failure
\* counters; a connect resets the backoff.
ConnectOkStillSwept ==
  /\ pc = "connecting" /\ pc' = "select"
  /\ healthy' = FALSE /\ consec' = 0
  /\ UNCHANGED <<swept, backoff, deviceVars, connectedFrame>>

ConnectOkForgives ==
  /\ pc = "connecting" /\ pc' = "select"
  /\ swept' = FALSE /\ healthy' = FALSE /\ consec' = 0
  /\ fails' = [d \in Device |-> 0]
  /\ UNCHANGED <<backoff, online, split, waiting, connectedFrame>>

ConnectOkResetsBackoff ==
  /\ pc = "connecting" /\ pc' = "select"
  /\ swept' = FALSE /\ healthy' = FALSE /\ consec' = 0 /\ backoff' = 0
  /\ UNCHANGED <<deviceVars, connectedFrame>>

ConnectOk ==
  /\ pc = "connecting"
  /\ pc' = "select"
  /\ swept' = FALSE /\ healthy' = FALSE /\ consec' = 0
  /\ UNCHANGED <<backoff, deviceVars, connectedFrame>>

\* The first failure of an outage is announced on every tag of the channel.
ConnectFail ==
  /\ pc = "connecting"
  /\ ~settled
  /\ swept' = TRUE
  /\ IF swept THEN UNCHANGED tagVars ELSE SetQuality(Tag, "Bad")
  /\ Reconnect(FALSE, NoCmd, "notconnected")
  /\ UNCHANGED <<healthy, consec, deviceVars, forged, ready, worldVars>>

BackoffElapses ==
  /\ pc = "backoff"
  /\ pc' = "reconnect"
  /\ UNCHANGED <<tickVars, linkVars, deviceVars, tagVars, commandVars,
                 serviceVars, ready, late, worldVars>>

BackoffRefuse ==
  /\ pc = "backoff" /\ queue # <<>>
  /\ Answer({Head(queue)}, "notconnected")
  /\ queue' = Tail(queue)
  /\ UNCHANGED <<pc, tickVars, linkVars, deviceVars, tagVars, forged, passed,
                 serviceVars, ready, late, worldVars>>

BackoffStop == pc = "backoff" /\ shutdown /\ Stop

-----------------------------------------------------------------------------
(* The select! loop: shutdown, then commands, then due polls *)

\* Mutant of SelectStop: the shutdown arm of the biased select! stands last.
SelectStopLast == pc = "select" /\ shutdown /\ queue = <<>> /\ ready = {} /\ Stop

SelectStop == pc = "select" /\ shutdown /\ Stop

\* Mutant of AfterService: a diagnostic does not yield to a due poll.
AfterServiceAtOnce(c, inTick) ==
  IF inTick THEN IF c \in Diagnostic THEN "dispatch" ELSE "boundary"
  ELSE "select"

\* Where run_channel goes when the command c has been dealt with.
AfterService(c, inTick) ==
  IF inTick THEN IF c \in Diagnostic THEN "dispatch" ELSE "boundary"
  ELSE IF c \in Diagnostic THEN "yield" ELSE "select"

\* Commands answered without touching the wire.
AnsweredLocally(c) == c \in expired \cup Refused

\* service_write up to the request: an expired or unroutable command is
\* answered without touching the wire.
Take(inTick) ==
  LET c == Head(queue)
  IN /\ queue # <<>>
     /\ queue' = Tail(queue)
     /\ passed' = 0
     /\ IF AnsweredLocally(c)
        THEN /\ Answer({c}, IF c \in expired THEN "timeout" ELSE "refused")
             /\ pc' = AfterService(c, inTick)
             /\ UNCHANGED serviceVars
        ELSE /\ cmd' = [cmd EXCEPT ![c] = "sent"]
             /\ pc' = "writing"
             /\ cur' = c /\ draining' = inTick
             /\ UNCHANGED expired
     /\ UNCHANGED <<tickVars, linkVars, deviceVars, tagVars, forged, ready,
                    late, worldVars>>

SelectCommand == pc = "select" /\ ~shutdown /\ Take(FALSE)

BeginTick ==
  /\ ready # {}
  /\ pc' = "dispatch"
  /\ groups' = BatchOf[ready]
  /\ ready' = {}
  /\ UNCHANGED <<base, subs, retries, linkVars, deviceVars, tagVars,
                 commandVars, serviceVars, late, worldVars>>

SelectDue == pc = "select" /\ ~shutdown /\ queue = <<>> /\ BeginTick

\* After a diagnostic a poll that is already due goes first.
YieldToDue ==
  /\ pc = "yield"
  /\ IF ready # {} THEN BeginTick
     ELSE /\ pc' = "select"
          /\ UNCHANGED <<tickVars, linkVars, deviceVars, tagVars, commandVars,
                         serviceVars, ready, late, worldVars>>

-----------------------------------------------------------------------------
(* run_tick: groups, base transactions, transactions *)

tickFrame == <<linkVars, deviceVars, tagVars, queue, cmd, expired, forged,
               serviceVars, ready, late, worldVars>>

BetweenGroups == pc = "dispatch" /\ subs = <<>> /\ base = <<>>

TickStop ==
  /\ pc = "dispatch" /\ shutdown
  /\ subs # <<>> \/ (base = <<>> /\ groups # <<>>)
  /\ pc' = "select"
  /\ groups' = <<>> /\ base' = <<>> /\ subs' = <<>>
  /\ UNCHANGED <<retries, passed, tickFrame>>

\* A device that is offline is skipped unless its probe is due.
EnterGroup ==
  /\ BetweenGroups /\ groups # <<>> /\ ~shutdown
  /\ groups' = Tail(groups)
  /\ base' = IF NotDueToProbe(GroupDev[Head(groups)]) THEN <<>>
             ELSE GroupTxns[Head(groups)]
  /\ UNCHANGED <<pc, subs, retries, passed, tickFrame>>

EnterTxn ==
  /\ pc = "dispatch" /\ subs = <<>> /\ base # <<>>
  /\ subs' = EffectiveTxns(Head(base))
  /\ base' = Tail(base)
  /\ UNCHANGED <<pc, groups, retries, passed, tickFrame>>

\* Mutant of RetryBudget: one attempt too many.
RetryBudgetOffByOne(d) == IF online[d] THEN MaxRetries + 1 ELSE 0

\* A probe of an offline device is single-shot.
RetryBudget(d) == IF online[d] THEN MaxRetries ELSE 0

SendPoll ==
  /\ pc = "dispatch" /\ subs # <<>> /\ ~shutdown
  /\ pc' = "polling"
  /\ retries' = RetryBudget(TxnDev[Current])
  /\ passed' = IF queue = <<>> THEN 0 ELSE Least(passed + 1, 2)
  /\ UNCHANGED <<groups, base, subs, tickFrame>>

EndTick ==
  /\ BetweenGroups /\ groups = <<>>
  /\ pc' = "select"
  /\ UNCHANGED <<tickVars, passed, tickFrame>>

\* A device that answered anything, an exception included, is alive.
ProofOfLife(d) ==
  /\ consec' = 0 /\ healthy' = TRUE
  /\ OnSuccess(d)

pollFrame == <<groups, base, retries, swept, backoff, commandVars, serviceVars,
               ready, worldVars>>

PollOk(src) ==
  LET t == Current
  IN /\ pc = "polling"
     /\ ReplyAccepted(t, src) /\ ~IsIllegal(src)
     /\ ProofOfLife(TxnDev[t])
     /\ Scatter(t, src)
     /\ pc' = "boundary" /\ subs' = Tail(subs)
     /\ UNCHANGED <<split, pollFrame>>

\* An exception reply: "illegal" is what the register map makes of the
\* request, "busy" a transient refusal that has used up its retries, "fault" a
\* deterministic exception of the device, which is not retried.
PollException(src, kind) ==
  LET t == Current
  IN /\ pc = "polling"
     /\ ReplyAccepted(t, src)
     /\ \/ kind = "illegal" /\ IsIllegal(src)
        \/ kind = "busy" /\ ~settled /\ retries = 0
        \/ kind = "fault" /\ ~settled
     /\ ProofOfLife(TxnDev[t])
     /\ HandleException(t, kind)
     /\ pc' = "boundary" /\ subs' = Tail(subs)
     /\ UNCHANGED pollFrame

\* poll_with_retry: the same request again on the same connection.
PollRetry ==
  /\ pc = "polling" /\ retries > 0
  /\ \/ \E src \in {Current} \cup {late[i] : i \in DOMAIN late} :
          ~settled /\ ReplyAccepted(Current, src)
     \/ ~HalfDuplex /\ TimesOut(Current) /\ late' \in LeftBehind(Current)
  /\ retries' = retries - 1
  /\ UNCHANGED <<pc, groups, base, subs, linkVars, deviceVars, tagVars,
                 commandVars, serviceVars, ready, worldVars>>

\* A timeout degrades the tags of a device that is still online, takes the
\* device offline at the threshold, and is fatal the second time in a row on
\* a byte stream.  A failed probe ends the device's turn.
PollTimeout ==
  LET t == Current
      d == TxnDev[t]
  IN /\ pc = "polling"
     /\ HalfDuplex \/ retries = 0
     /\ TimesOut(t)
     /\ OnCommFailure(d)
     /\ IF Crosses(d) THEN SetQuality(AllTags(d), "Bad")
        ELSE IF online[d] THEN SetQuality(TagsOf[t], "Uncertain")
        ELSE UNCHANGED tagVars
     /\ consec' = Least(consec + 1, 2)
     /\ IF HalfDuplex /\ consec' >= 2
        THEN Reconnect(healthy, NoCmd, "notconnected")
        ELSE /\ late' \in LeftBehind(t)
             /\ pc' = "boundary"
             /\ subs' = IF online'[d] THEN Tail(subs) ELSE <<>>
             /\ base' = IF online'[d] THEN base ELSE <<>>
             /\ UNCHANGED <<groups, retries, backoff, queue, cmd, expired,
                            passed, serviceVars>>
     /\ UNCHANGED <<swept, healthy, split, forged, ready, worldVars>>

PollFatal ==
  LET d == TxnDev[Current]
  IN /\ pc = "polling"
     /\ Breaks(Current)
     /\ OnCommFailure(d) /\ SweepIfCrossing(d)
     /\ Reconnect(healthy, NoCmd, "notconnected")
     /\ UNCHANGED <<swept, healthy, consec, split, forged, ready, worldVars>>

-----------------------------------------------------------------------------
(* Commands at a transaction boundary, and their exchange *)

DrainCommand == pc = "boundary" /\ Take(TRUE)

\* Mutant of DrainDone: the next poll starts with commands still waiting.
DrainDoneEarly ==
  /\ pc = "boundary"
  /\ pc' = "dispatch"
  /\ UNCHANGED <<tickVars, linkVars, deviceVars, tagVars, commandVars,
                 serviceVars, ready, late, worldVars>>

DrainDone ==
  /\ pc = "boundary" /\ queue = <<>>
  /\ pc' = "dispatch"
  /\ UNCHANGED <<tickVars, linkVars, deviceVars, tagVars, commandVars,
                 serviceVars, ready, late, worldVars>>

\* A reply to a command; a diagnostic says nothing about a configured device.
CommandAnswered(src, reply) ==
  /\ pc = "writing"
  /\ ReplyAccepted(cur, src)
  /\ reply \in {"ok", "exception"}
  /\ IsIllegal(src) => reply = "exception"
  /\ Answer({cur}, reply)
  /\ forged' = IF src = cur \/ reply # "ok" THEN forged \ {cur}
               ELSE forged \cup {cur}
  /\ IF cur \in Diagnostic
     THEN consec' = 0 /\ healthy' = TRUE /\ UNCHANGED <<fails, online, waiting>>
     ELSE ProofOfLife(Target[cur])
  /\ pc' = AfterService(cur, draining)
  /\ cur' = NoCmd /\ draining' = FALSE
  /\ UNCHANGED <<tickVars, swept, backoff, split, tagVars, queue, passed, ready,
                 worldVars>>

\* The watchdog side of a command that failed.
CommandFailure(c) ==
  IF c \in Diagnostic THEN UNCHANGED <<fails, online, waiting, tagVars>>
  ELSE OnCommFailure(Target[c]) /\ SweepIfCrossing(Target[c])

\* Mutant of CommandTimeout: the connection is kept after a timeout, as for a
\* poll, whose first timeout is tolerated.
CommandTimeoutStays ==
  /\ pc = "writing"
  /\ TimesOut(cur)
  /\ CommandFailure(cur)
  /\ consec' = IF cur \in Diagnostic THEN consec ELSE Least(consec + 1, 2)
  /\ late' \in LeftBehind(cur)
  /\ Answer({cur}, "timeout")
  /\ pc' = AfterService(cur, draining)
  /\ cur' = NoCmd /\ draining' = FALSE
  /\ UNCHANGED <<tickVars, backoff, queue, passed, swept, healthy, split,
                 forged, ready, worldVars>>

\* Any command timeout on a byte stream drops the connection.
CommandTimeout ==
  /\ pc = "writing"
  /\ TimesOut(cur)
  /\ CommandFailure(cur)
  /\ consec' = IF cur \in Diagnostic THEN consec ELSE Least(consec + 1, 2)
  /\ IF HalfDuplex THEN Reconnect(healthy, cur, "timeout")
     ELSE /\ late' \in LeftBehind(cur)
          /\ Answer({cur}, "timeout")
          /\ pc' = AfterService(cur, draining)
          /\ cur' = NoCmd /\ draining' = FALSE
          /\ UNCHANGED <<tickVars, backoff, queue, passed>>
  /\ UNCHANGED <<swept, healthy, split, forged, ready, worldVars>>

CommandFatal ==
  /\ pc = "writing"
  /\ Breaks(cur)
  /\ CommandFailure(cur)
  /\ Reconnect(healthy, cur, "failed")
  /\ UNCHANGED <<swept, healthy, consec, split, forged, ready, worldVars>>

-----------------------------------------------------------------------------
(* Submitters, timers, devices, operator *)

taskFrame == <<pc, tickVars, linkVars, online, fails, split, tagVars,
               serviceVars, passed, late>>

Submit(c) ==
  /\ cmd[c] = "idle" /\ pc # "stopped" /\ Len(queue) < QueueCap
  /\ cmd' = [cmd EXCEPT ![c] = "queued"]
  /\ queue' = Append(queue, c)
  /\ UNCHANGED <<taskFrame, waiting, expired, forged, ready, worldVars>>

\* The submitter is done with the reply and comes back for more.
Collect(c) ==
  /\ c \in Recurring /\ cmd[c] \in Replies
  /\ cmd' = [cmd EXCEPT ![c] = "idle"]
  /\ forged' = forged \ {c}
  /\ UNCHANGED <<taskFrame, waiting, queue, expired, ready, worldVars>>

\* The deadline passes, or the submitter drops its end of the reply channel.
Expire(c) ==
  /\ cmd[c] \in {"queued", "sent"} /\ c \notin expired
  /\ expired' = expired \cup {c}
  /\ UNCHANGED <<taskFrame, waiting, queue, cmd, forged, ready, worldVars>>

IntervalElapses(p) ==
  /\ p \notin ready
  /\ ready' = ready \cup {p}
  /\ UNCHANGED <<taskFrame, waiting, queue, cmd, expired, forged, worldVars>>

ProbeElapses(d) ==
  /\ d \in waiting
  /\ waiting' = waiting \ {d}
  /\ UNCHANGED <<taskFrame, queue, cmd, expired, forged, ready, worldVars>>

FallSilent(d) ==
  /\ d \in Mortal \ mute
  /\ mute' = mute \cup {d}
  /\ UNCHANGED <<taskFrame, waiting, queue, cmd, expired, forged, ready,
                 settled, shutdown>>

FaultsCease ==
  /\ Settles /\ ~settled
  /\ settled' = TRUE
  /\ UNCHANGED <<taskFrame, waiting, queue, cmd, expired, forged, ready, mute,
                 shutdown>>

RequestShutdown ==
  /\ ~shutdown
  /\ shutdown' = TRUE
  /\ UNCHANGED <<taskFrame, waiting, queue, cmd, expired, forged, ready, mute,
                 settled>>

-----------------------------------------------------------------------------
(* Specification *)

\* Nothing has been read: every tag is Bad.  The first tick of every interval
\* is immediate.
Init ==
  /\ pc = "reconnect"
  /\ groups = <<>> /\ base = <<>> /\ subs = <<>> /\ retries = 0
  /\ swept = FALSE /\ healthy = FALSE /\ consec = 0 /\ backoff = 0
  /\ online = [d \in Device |-> TRUE]
  /\ fails = [d \in Device |-> 0]
  /\ split = {} /\ waiting = {}
  /\ quality = [x \in Tag |-> "Bad"]
  /\ foreign = {}
  /\ queue = <<>> /\ cmd = [c \in Cmd |-> "idle"]
  /\ expired = {} /\ forged = {} /\ passed = 0
  /\ cur = NoCmd /\ draining = FALSE
  /\ ready = Period
  /\ late = <<>>
  /\ mute = {} /\ settled = FALSE /\ shutdown = FALSE

Sources == {Current} \cup {late[i] : i \in DOMAIN late}

Poll ==
  \/ PollRetry \/ PollTimeout \/ PollFatal
  \/ pc = "polling" /\ \E src \in Sources :
       \/ PollOk(src)
       \/ \E kind \in {"illegal", "busy", "fault"} : PollException(src, kind)

Serve ==
  \/ CommandTimeout \/ CommandFatal
  \/ \E src \in {cur} \cup {late[i] : i \in DOMAIN late},
        reply \in {"ok", "exception"} : CommandAnswered(src, reply)

Tick == TickStop \/ EnterGroup \/ EnterTxn \/ SendPoll \/ EndTick

Task ==
  \/ BeginConnect \/ ConnectOk \/ ConnectFail
  \/ BackoffElapses \/ BackoffRefuse \/ BackoffStop
  \/ SelectStop \/ SelectCommand \/ SelectDue \/ YieldToDue
  \/ Tick \/ Poll \/ DrainCommand \/ DrainDone \/ Serve

Environment ==
  \/ \E c \in Cmd : Submit(c) \/ Collect(c) \/ Expire(c)
  \/ \E p \in Period : IntervalElapses(p)
  \/ \E d \in Device : ProbeElapses(d) \/ FallSilent(d)
  \/ FaultsCease \/ RequestShutdown

Next == Task \/ Environment

\* The runtime polls a runnable task and fires timers; every await in the task
\* is bounded by a timer of its own.  Nothing is assumed of submitters and of
\* the operator, and of the devices only that transient faults end.
Fairness ==
  /\ WF_vars(Task)
  /\ WF_vars(BackoffElapses)
  /\ \A p \in Period : WF_vars(IntervalElapses(p))
  /\ \A d \in Device : WF_vars(ProbeElapses(d))
  /\ WF_vars(FaultsCease)

Spec     == Init /\ [][Next]_vars
FairSpec == Spec /\ Fairness

-----------------------------------------------------------------------------
(* Properties *)

TaskTypeOK ==
  /\ pc \in Places
  /\ groups \in Seq(Group) /\ base \in Seq(Txn) /\ subs \in Seq(Txn)
  /\ pc = "polling" => subs # <<>>
  /\ retries \in 0..MaxRetries
  /\ cur \in Cmd \cup {NoCmd} /\ draining \in BOOLEAN
  /\ pc = "writing" => cur \in Cmd

LinkTypeOK ==
  /\ swept \in BOOLEAN /\ healthy \in BOOLEAN
  /\ consec \in 0..2 /\ backoff \in 0..MaxBackoff

DeviceTypeOK ==
  /\ online \in [Device -> BOOLEAN] /\ fails \in [Device -> 0..OfflineAfter]
  /\ split \subseteq Txn /\ waiting \subseteq Device
  /\ quality \in [Tag -> Quality] /\ foreign \subseteq Tag

CommandTypeOK ==
  /\ queue \in Seq(Cmd) /\ cmd \in [Cmd -> Statuses]
  /\ expired \subseteq Cmd /\ forged \subseteq Cmd /\ passed \in 0..2

WorldTypeOK ==
  /\ ready \subseteq Period /\ late \in Seq(Txn \cup Cmd)
  /\ mute \subseteq Device /\ settled \in BOOLEAN /\ shutdown \in BOOLEAN

\* Every variable has its type; a request in flight has a transaction or a
\* command behind it.
TypeOK ==
  TaskTypeOK /\ LinkTypeOK /\ DeviceTypeOK /\ CommandTypeOK /\ WorldTypeOK

\* A device the watchdog has taken offline shows Bad on every tag until it
\* answers: no failed probe, stale batch, exception or reconnect lifts one
\* (channel.rs, #3).
OfflineIsBad ==
  \A x \in Tag : ~online[TagDev[x]] => quality[x] = "Bad"

\* From the first failed connect of an outage until the channel is up again
\* every tag of the channel is Bad, although only that first failure sweeps
\* (channel.rs, #28).
OutageIsBad == swept => \A x \in Tag : quality[x] = "Bad"

\* While a command waits at most one more poll transaction is begun before
\* a command is served, offline devices, probes and splits included (#8).
WriteLatency == passed <= 1

\* A write acknowledged "ok" was acknowledged by the reply to that very write,
\* not by the late reply of an earlier one that had timed out, however many
\* replies were late before it (#5, #13).
GenuineAck == forged \subseteq Diagnostic

\* The channel keeps the contract of CommandContract: order, one command on
\* the wire, one reply each, no transmission past the deadline, and nothing
\* accepted before the connection was lost is sent after it (#27).
Contract == INSTANCE CommandContract WITH up <- pc \notin Down
KeepsContract == Contract!Spec

\* A value shown Good was read from the tag's own register, whichever replies
\* were given up on and came late, as long as what tokio-modbus, the transport
\* and scatter compare tells the reads of the stream apart (#6).
GoodIsOwn == foreign = {}

\* Reconnects do not storm a dead line: the delay starts over only after a
\* connection that carried a reply, never because a connect succeeded (#7).
BackoffEarned == [][backoff' < backoff => healthy]_vars

\* Every command that enters the queue is answered, whatever fails.
EveryCommandAnswered == \A c \in Cmd : cmd[c] = "queued" ~> cmd[c] \in Replies

\* A device that has fallen silent shows Bad on every tag for good, although
\* on a byte stream its timeouts keep cycling the connection (#1, #2), whatever
\* is written to it meanwhile, unless commands never cease: then no poll may
\* ever be sent again.
SilentDeviceTurnsBad ==
  \A d \in Mortal :
    \/ []<><<\E c \in Cmd : Submit(c)>>_vars
    \/ d \in mute ~> \/ pc = "stopped"
                     \/ [](\A x \in AllTags(d) : quality[x] = "Bad")

\* Once transient faults are over every tag of a living device whose register
\* exists turns Good and stays so: an offline device is probed back, and a bad
\* register does not strand the ones it is coalesced with (section 5).  An
\* endless stream of commands is excused: the late reply of one breaks the
\* connection in the middle of a tick, over and over.
TagsRecover ==
  \/ \A x \in Tag \ BadTag :
       <>[](quality[x] = "Good" \/ pc = "stopped" \/ TagDev[x] \in mute)
  \/ []<><<\E c \in Cmd : Submit(c)>>_vars

\* A stream of diagnostics does not keep a due poll from being begun.
DuePollServed ==
  \A p \in Period : p \in ready ~> p \notin ready \/ pc = "stopped"

\* A shutdown request ends the task, unless submitters keep refilling the queue
\* for ever: the drain loop of a tick serves them all without looking at the
\* shutdown, but every command that is not replaced brings the task to a place
\* where it looks.
ShutdownStops ==
  (shutdown ~> pc = "stopped") \/ []<><<\E c \in Cmd : Submit(c)>>_vars

\* A shutdown request ends the task whatever submitters do; the drain loop of
\* a tick breaks it when the queue is never found empty.
ShutdownStopsAlways == shutdown ~> pc = "stopped"

\* No command is left in the queue when a new connection comes up.
OutageEmptiesQueue ==
  [][(pc \in Down) /\ pc' \notin Down => queue' = <<>>]_vars

\* A poll that fails for good marks its tags Bad.
FatalMarksTags ==
  [][PollFatal => \A x \in TagsOf[Current] : quality'[x] = "Bad"]_vars
=============================================================================
