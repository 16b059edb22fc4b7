--------------------------- MODULE MCChannelTask ---------------------------
(***************************************************************************)
(* Small channels for TLC.  The byte-stream channel has a device d1 with   *)
(* two reads and a device d2 with one; the TCP channel has one coalesced   *)
(* read of d1, with its per-field splits, and one read of d2.              *)
(***************************************************************************)
EXTENDS ChannelTask

DeviceOf(r) == IF r \in {"r3", "e"} THEN "d2" ELSE "d1"
MCTagDev == [x \in Tag |-> DeviceOf(x)]
MCTxnDev == [t \in Txn |-> DeviceOf(t)]
MCTarget == [c \in Cmd |-> "d1"]

\* One poll group per device, of one period; the group of d2 has the higher
\* priority.
MCGroupDev == [g1 |-> "d1", g2 |-> "d2"]
OneBatch   == [S \in SUBSET Period |-> IF S = {} THEN <<>> ELSE <<"g2", "g1">>]

\* The byte-stream channel.
StreamTagsOf    == [r1 |-> {"a"}, r2 |-> {"b"}, r3 |-> {"e"}]
StreamSplitOf   == [t \in Txn |-> <<>>]
StreamGroupTxns == [g1 |-> <<"r1", "r2">>, g2 |-> <<"r3">>]

\* The TCP channel: r1 reads a and b, s1 and s2 are its splits.
TcpTagsOf    == [r1 |-> {"a", "b"}, s1 |-> {"a"}, s2 |-> {"b"}, r3 |-> {"e"}]
TcpSplitOf   == [t \in Txn |-> IF t = "r1" THEN <<"s1", "s2">> ELSE <<>>]
TcpGroupTxns == [g1 |-> <<"r1">>, g2 |-> <<"r3">>]

\* One device with one read, coalesced on TCP.
OneTagsOf    == [r1 |-> {"a"}]
OneTcpTagsOf == [r1 |-> {"a", "b"}, s1 |-> {"a"}, s2 |-> {"b"}]
OneGroupTxns == [g1 |-> <<"r1">>]
OneGroupDev  == [g1 |-> "d1"]
OneGroupBatch == [S \in SUBSET Period |-> IF S = {} THEN <<>> ELSE <<"g1">>]

\* A write has a function code no read has; a diagnostic reads unit 1.
MCHeader == [r \in Txn \cup Cmd |->
               IF r \in Cmd \ Diagnostic THEN <<"write", MCTarget[r]>>
               ELSE <<"read", DeviceOf(r)>>]

SameLength == [r \in Txn \cup Cmd |-> 1]
ExactRule  == [r \in Txn \cup Cmd |-> IF r \in Cmd \ Diagnostic THEN "none"
                                      ELSE "exact"]

\* Two custom reads of d1 with the same function code and different
\* expect_len, and a bit read of d2.
MixedLength == [r \in Txn \cup Cmd |-> IF r = "r2" THEN 2 ELSE 1]
MixedRule   == [r \in Txn \cup Cmd |-> IF r \in {"r1", "r2"} THEN "scatter"
                                       ELSE IF r = "r3" THEN "atLeast"
                                       ELSE ExactRule[r]]
=============================================================================
