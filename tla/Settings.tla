------------------------------- MODULE Settings -------------------------------
(***************************************************************************)
(* The configuration as crates/config loads it: the rules of validate.rs,  *)
(* the resolution of resolve.rs and the bus-load count of rule 10.  A      *)
(* configuration is a record with the shape of ConfigV1: poll groups and   *)
(* channels, a channel's devices, a device's register entries.  Names are  *)
(* strings; scale and offset are integers; a formula is the name of a      *)
(* function ("minus" negates).  OPC UA, MCP, logging, deadband and history *)
(* settings are left out: nothing here depends on them.                    *)
(***************************************************************************)
EXTENDS Integers, Sequences, FiniteSets, SequencesExt

CONSTANTS
    AddrSpace,    \* addresses of an area: 2^16 in the code
    RegCap,       \* registers one read may return: 125
    CoilCap,      \* coils one read may return: 2000
    MaxLength,    \* cap on the length of an ascii or bcd entry: 125
    MaxResponse,  \* cap on a custom reply, in bytes: 250
    WordBits,     \* bits of a register: 16
    None          \* an absent option

\* The caps of the Modbus PDU lie inside the address space.
ASSUME CapsAssumption ==
    /\ AddrSpace \in Nat /\ MaxLength \in Nat \ {0} /\ MaxResponse \in Nat \ {0}
    /\ RegCap \in 1..(AddrSpace - 1) /\ CoilCap \in 1..(AddrSpace - 1)
    /\ WordBits \in {n \in Nat : n > 0 /\ n % 2 = 0}

\* An absent formula is not a formula.
ASSUME NoneAssumption == None # "minus"

Areas == <<"coils", "discrete", "holding", "input">>

BitDomain(area) == area \in {"coils", "discrete"}

MaxQty(area) == IF BitDomain(area) THEN CoilCap ELSE RegCap

ReadArea == [ReadCoils |-> "coils", ReadDiscreteInputs |-> "discrete",
             ReadHoldingRegisters |-> "holding", ReadInputRegisters |-> "input"]

IsRead(fn) == fn \in DOMAIN ReadArea

\* Types of a fixed width; ascii and bcd have none and take the entry's length.
RegisterCount == [bit |-> 1, bitfield |-> 1, u16 |-> 1, i16 |-> 1,
                  u32 |-> 2, i32 |-> 2, u64 |-> 4, i64 |-> 4]

Width(e) == IF e.type \in DOMAIN RegisterCount THEN RegisterCount[e.type] ELSE e.length

-----------------------------------------------------------------------------
(* What the file's schema admits.                                           *)

WriteFunctions == {"WriteSingleCoil", "WriteSingleRegister",
                   "WriteMultipleCoils", "WriteMultipleRegisters"}

FunctionCodes == DOMAIN ReadArea \cup WriteFunctions \cup {"Custom"}

Entries ==
    [tag : STRING, group : STRING, fn : FunctionCodes, code : Nat, address : 0..(AddrSpace - 1),
     type : DOMAIN RegisterCount \cup {"ascii", "bcd"}, length : Nat \cup {None},
     bit : Nat \cup {None}, bytes : {"big", "little"}, words : {"big", "little"},
     request : STRING \cup {None}, response : Nat \cup {None}, scale : Int, offset : Int,
     formula : {None, "minus"}, inverse : {None, "minus"}, writable : BOOLEAN,
     write : FunctionCodes \cup {None}]

Devices ==
    [id : STRING, enabled : BOOLEAN, max_gap : Nat \cup {None}, registers : Seq(Entries)]

Channels ==
    [id : STRING, enabled : BOOLEAN, transport : {"Tcp", "RtuOverTcp", "Rtu"},
     endpoint : {"given", "blank"}, rate : Nat, max_inflight : Nat, max_gap : Nat,
     devices : Seq(Devices)]

Configurations == [groups : Seq([id : STRING, period : Nat]), channels : Seq(Channels)]

-----------------------------------------------------------------------------
(* Filtering and sorting.                                                   *)

\* The elements of the finite set S in the order of earlier, a strict total order on S.
Listed(S, earlier) ==
    [i \in 1..Cardinality(S) |->
       CHOOSE x \in S : Cardinality({y \in S : <<y, x>> \in earlier}) = i - 1]

Ascending(S) == Listed(S, {p \in S \X S : p[1] < p[2]})

\* The elements of a sequence at the given positions.
Through(s, positions) == [i \in DOMAIN positions |-> s[positions[i]]]

-----------------------------------------------------------------------------
(* Validation: the set of the errors found.  Warnings fail nothing and are  *)
(* not listed.                                                              *)

Named(rules) == {name \in DOMAIN rules : rules[name]}

CoilWritable(e) ==
    /\ e.fn = "ReadCoils"
    /\ e.write \in {None, "WriteSingleCoil", "WriteMultipleCoils"}

HoldingWritable(e) ==
    /\ e.fn = "ReadHoldingRegisters"
    /\ e.type \notin {"bit", "bitfield", "ascii", "bcd"}
    /\ e.formula # None => e.inverse # None
    /\ e.inverse = None => e.scale # 0
    /\ \/ e.write \in {None, "WriteMultipleRegisters"}
       \/ e.write = "WriteSingleRegister" /\ Width(e) = 1

Writable(e) == CoilWritable(e) \/ HoldingWritable(e)

Overflows(e, span) == e.address + span > AddrSpace

ReadErrors(e) ==
    LET span == Width(e)
        word == ~BitDomain(ReadArea[e.fn])
        known == word /\ span # None /\ span # 0
    IN  Named([IncompatibleDataType |-> ~word /\ e.type # "bit",
               MissingBitIndex |-> word /\ e.type = "bit" /\ e.bit = None,
               BadBitIndex |-> word /\ e.bit # None /\ e.bit >= WordBits,
               MissingLength |-> word /\ span = None,
               ZeroLength |-> word /\ span = 0,
               QtyExceedsCap |-> known /\ (span > RegCap \/ span > MaxLength),
               AddressOverflow |-> known /\ Overflows(e, span)])

CustomErrors(ch, e) ==
    Named([BadCustomFunctionCode |-> e.code \notin 1..127,
           CustomReadOnSerialRtu |-> ch.transport = "Rtu",
           BadCustomRequest |-> e.request = "malformed",
           MissingCustomResponseLen |-> e.response = None /\ ch.transport # "Tcp",
           BadCustomResponseLen |-> e.response # None /\ e.response \notin 1..MaxResponse])

EntryErrors(cfg, ch, e) ==
    Named([UnknownPollGroup |-> \A i \in DOMAIN cfg.groups : cfg.groups[i].id # e.group,
           NotWritable |-> IF e.writable THEN ~Writable(e) ELSE e.inverse # None,
           BadCustomRequest |-> e.request # None /\ e.fn # "Custom",
           NonReadFunction |-> e.fn # "Custom" /\ ~IsRead(e.fn)])
    \cup (IF e.fn = "Custom" THEN CustomErrors(ch, e) ELSE {})
    \cup (IF IsRead(e.fn) THEN ReadErrors(e) ELSE {})

ChannelErrors(ch) ==
    Named([BadTransport |-> ch.endpoint = "blank" \/ ch.rate = 0,
           MaxInflightNotTcp |-> ch.max_inflight > 1 /\ ch.transport # "Tcp"])

\* The places <<channel, device>> and <<channel, device, register>>, in declaration order.
DevicePlaces(cfg) ==
    FlattenSeq([c \in DOMAIN cfg.channels |->
                  [d \in DOMAIN cfg.channels[c].devices |-> <<c, d>>]])

EntryPlaces(cfg) ==
    FlattenSeq([i \in DOMAIN DevicePlaces(cfg) |->
                  LET p == DevicePlaces(cfg)[i]
                  IN  [r \in DOMAIN cfg.channels[p[1]].devices[p[2]].registers |->
                         <<p[1], p[2], r>>]])

EntryAt(cfg, p) == cfg.channels[p[1]].devices[p[2]].registers[p[3]]

Unique(ids) == IsInjective(ids)

Ids(seq) == [i \in DOMAIN seq |-> seq[i].id]

Errors(cfg) ==
    LET places == EntryPlaces(cfg)
        devices == DevicePlaces(cfg)
        Folder(p) == "dev:" \o cfg.channels[p[1]].devices[p[2]].id
    IN  Named([DuplicateId |->
                  \/ ~Unique(Ids(cfg.channels))
                  \/ ~Unique(Ids(cfg.groups))
                  \/ ~Unique([i \in DOMAIN devices |->
                                 cfg.channels[devices[i][1]].devices[devices[i][2]].id])
                  \/ ~Unique([i \in DOMAIN places |-> EntryAt(cfg, places[i]).tag]),
               BadPollPeriod |-> \E i \in DOMAIN cfg.groups : cfg.groups[i].period = 0,
               TagFolderCollision |-> \E i \in DOMAIN places, j \in DOMAIN devices :
                                         EntryAt(cfg, places[i]).tag = Folder(devices[j])])
        \cup (UNION {ChannelErrors(cfg.channels[c]) : c \in DOMAIN cfg.channels})
        \cup (UNION {EntryErrors(cfg, cfg.channels[p[1]], EntryAt(cfg, p)) :
                        p \in {places[i] : i \in DOMAIN places}})

-----------------------------------------------------------------------------
(* Resolution: a tag's name becomes its position in declaration order, so   *)
(* that a channel owns a contiguous range of tags; a poll group's name      *)
(* becomes its index; a device's options fall back on its channel's.        *)

Resolve(cfg) ==
    LET places == EntryPlaces(cfg)
        TagId(p) == CHOOSE i \in DOMAIN places : places[i] = p
        GroupId(name) == CHOOSE i \in DOMAIN cfg.groups : cfg.groups[i].id = name
    IN  [c \in DOMAIN cfg.channels |->
           LET ch == cfg.channels[c] IN
           [id |-> c, enabled |-> ch.enabled, max_inflight |-> 1,
            devices |->
              [d \in DOMAIN ch.devices |->
                 LET dev == ch.devices[d] IN
                 [id |-> <<c, d>>,
                  enabled |-> dev.enabled /\ ch.enabled,
                  max_gap |-> IF dev.max_gap = None THEN ch.max_gap ELSE dev.max_gap,
                  registers |->
                    [r \in DOMAIN dev.registers |->
                       [dev.registers[r] EXCEPT
                          !.tag = TagId(<<c, d, r>>), !.group = GroupId(@)]]]]]]

-----------------------------------------------------------------------------
(* Rule 10 mirrors the coalescer to count the requests of a device in one   *)
(* cycle of a poll group.  The airtime of a request is arithmetic over its  *)
(* size and is left out.                                                    *)

\* sort_unstable: by start, then by end.
Ordered(ivals) ==
    Through(ivals, Listed(DOMAIN ivals,
        {p \in (DOMAIN ivals) \X (DOMAIN ivals) :
            LET a == ivals[p[1]]
                b == ivals[p[2]]
            IN  \/ a[1] < b[1]
                \/ a[1] = b[1] /\ a[2] < b[2]
                \/ a = b /\ p[1] < p[2]}))

Merged(runs, iv, gap, cap) ==
    LET Larger(a, b) == IF a > b THEN a ELSE b
    IN  IF /\ runs # <<>>
           /\ iv[1] - Last(runs)[2] <= gap
           /\ iv[2] - Last(runs)[1] <= cap
        THEN Append(Front(runs), <<Last(runs)[1], Larger(Last(runs)[2], iv[2])>>)
        ELSE Append(runs, iv)

MergeRuns(ivals, gap, cap) ==
    LET sorted == Ordered(ivals)
        runs[n \in 0..Len(ivals)] ==
            IF n = 0 THEN <<>> ELSE Merged(runs[n - 1], sorted[n], gap, cap)
    IN  runs[Len(ivals)]

EntrySpan(e, area) == IF BitDomain(area) THEN 1 ELSE Width(e)

\* The entries of poll group g that are read from an area, and its custom entries.
ReadsOf(registers, g, area) ==
    Through(registers, Ascending({r \in DOMAIN registers :
        /\ registers[r].group = g /\ IsRead(registers[r].fn)
        /\ ReadArea[registers[r].fn] = area}))

CustomsOf(registers, g) ==
    Through(registers, Ascending({r \in DOMAIN registers :
        registers[r].group = g /\ registers[r].fn = "Custom"}))

\* The requests rule 10 charges device dev of channel ch for one cycle of poll group g.
ChargedRequests(ch, dev, g) ==
    LET gap == IF dev.max_gap = None THEN ch.max_gap ELSE dev.max_gap
        Polled(area) == ReadsOf(dev.registers, g, area)
        Runs(area) ==
            MergeRuns([i \in DOMAIN Polled(area) |->
                         <<Polled(area)[i].address,
                           Polled(area)[i].address + EntrySpan(Polled(area)[i], area)>>],
                      gap, MaxQty(area))
    IN  Len(CustomsOf(dev.registers, g))
        + Len(FlattenSeq([i \in DOMAIN Areas |-> Runs(Areas[i])]))

=============================================================================
