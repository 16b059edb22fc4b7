--------------------------- MODULE CommandContract ---------------------------
(***************************************************************************)
(* What a channel promises the submitters of write commands, whatever      *)
(* happens on the wire: commands are taken in the order they were queued,  *)
(* one at a time; each gets one reply; a command whose deadline has passed *)
(* is not transmitted; a success is reported only of a transmitted         *)
(* command; and when the link is lost nothing that was accepted before     *)
(* survives to be transmitted after it.                                    *)
(***************************************************************************)
EXTENDS Naturals, Sequences

CONSTANTS
  Cmd,       \* command slots
  Recurring, \* slots that are used again
  QueueCap   \* capacity of the queue

VARIABLES
  up,        \* the link is up
  queue,     \* accepted commands, oldest first
  cmd,       \* status of each command
  expired    \* commands whose deadline has passed

vars == <<up, queue, cmd, expired>>

Acks     == {"ok", "exception"}
Failures == {"timeout", "failed", "refused", "notconnected", "dropped"}
InFlight == {c \in Cmd : cmd[c] = "sent"}
Pending  == {c \in Cmd : cmd[c] \in {"queued", "sent"}}

Init ==
  /\ up = FALSE
  /\ queue = <<>>
  /\ cmd = [c \in Cmd |-> "idle"]
  /\ expired = {}

Submit(c) ==
  /\ cmd[c] = "idle" /\ Len(queue) < QueueCap
  /\ cmd' = [cmd EXCEPT ![c] = "queued"]
  /\ queue' = Append(queue, c)
  /\ UNCHANGED <<up, expired>>

Collect(c) ==
  /\ c \in Recurring /\ cmd[c] \in Acks \cup Failures
  /\ cmd' = [cmd EXCEPT ![c] = "idle"]
  /\ UNCHANGED <<up, queue, expired>>

Expire(c) ==
  /\ cmd[c] \in {"queued", "sent"}
  /\ expired' = expired \cup {c}
  /\ UNCHANGED <<up, queue, cmd>>

Transmit ==
  /\ up /\ queue # <<>> /\ InFlight = {}
  /\ Head(queue) \notin expired
  /\ cmd' = [cmd EXCEPT ![Head(queue)] = "sent"]
  /\ queue' = Tail(queue)
  /\ UNCHANGED <<up, expired>>

Refuse(reply) ==
  /\ queue # <<>> /\ InFlight = {}
  /\ reply \in Failures
  /\ cmd' = [cmd EXCEPT ![Head(queue)] = reply]
  /\ queue' = Tail(queue)
  /\ expired' = expired \ {Head(queue)}
  /\ UNCHANGED up

Reply(c, reply) ==
  /\ cmd[c] = "sent"
  /\ reply \in Acks \cup Failures
  /\ cmd' = [cmd EXCEPT ![c] = reply]
  /\ expired' = expired \ {c}
  /\ UNCHANGED <<up, queue>>

\* The link goes down or a connect attempt fails: everything is answered.
LinkLost ==
  /\ up' = FALSE
  /\ queue' = <<>> /\ expired' = {}
  /\ \E answer \in [Pending -> Failures] :
       cmd' = [c \in Cmd |-> IF c \in Pending THEN answer[c] ELSE cmd[c]]

LinkUp == /\ ~up /\ up' = TRUE
          /\ UNCHANGED <<queue, cmd, expired>>

Next ==
  \/ \E c \in Cmd : Submit(c) \/ Collect(c) \/ Expire(c)
  \/ \E c \in Cmd, reply \in Acks \cup Failures :
       Refuse(reply) \/ Reply(c, reply)
  \/ Transmit \/ LinkLost \/ LinkUp

Spec == Init /\ [][Next]_vars
=============================================================================
