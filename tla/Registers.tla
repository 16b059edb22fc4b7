------------------------------- MODULE Registers -------------------------------
(***************************************************************************)
(* From a configuration to the registers of the devices and back: the plan *)
(* mb-poller compiles (plan.rs, coalesce.rs), the polls that read it and   *)
(* cut the replies into tags (channel.rs scatter), the splitting of a read *)
(* a device refuses (device.rs), and a client's write through the inverse  *)
(* transform and the encoder (opcua-gateway write.rs, tags-core decode.rs).*)
(*                                                                         *)
(* Devices answer every request here; timeouts, retries and the scheduling *)
(* of polls are ChannelTask's.  A device refuses a read or a write that    *)
(* touches one of the addresses it does not have (IllegalDataAddress).     *)
(***************************************************************************)
EXTENDS Settings

CONSTANTS Files,      \* the configurations a run tries
          Missing,    \* the sets of addresses the devices may not have
          Amounts,    \* the values a client may write
          Mantissa,   \* significant bits of a double: 53
          Finest,     \* doubles lie at least 2^-Finest apart: 1074
          Coarsest    \* and at most 2^Coarsest: 971

VARIABLES
    file,      \* the configuration read from disk
    missing,   \* the addresses no device of this plant has
    status,    \* "refused" or "running"
    plan,      \* the transactions of a full cycle, in polling order
    next,      \* <<transaction, part>> to request next
    splits,    \* transactions that were split into one request per field
    memory,    \* device -> area -> address -> content
    cache,     \* tag -> quality and words
    answer     \* the last write and its status, None before

\* What the schema gives, and what a client may write to a number.
ASSUME FilesAssumption == \A f \in Files : f \in Configurations
ASSUME AmountsAssumption == Amounts \subseteq Int

\* Doubles carry a fraction of as many bits as their mantissa, and reach past every register.
ASSUME DoublesAssumption ==
    /\ Mantissa \in Nat \ {0} /\ Finest \in Nat /\ Coarsest \in Nat
    /\ Finest >= Mantissa /\ Mantissa + Coarsest > 4 * WordBits

vars == <<file, missing, status, plan, next, splits, memory, cache, answer>>
loaded == <<file, missing, status, plan>>

-----------------------------------------------------------------------------
(* The plan                                                                 *)

Larger(a, b) == IF a > b THEN a ELSE b

\* Mutant of Extends: the cap is compared with the length before the entry.
ExtendsLate(run, iv, gap, cap) ==
    iv.start - run.end <= gap /\ run.end - run.start <= cap

Extends(run, iv, gap, cap) ==
    iv.start - run.end <= gap /\ iv.end - run.start <= cap

\* Mutant of Joined: the offset is taken from the end of the run so far.
JoinedAtEnd(run, iv) ==
    [run EXCEPT !.end = Larger(@, iv.end),
                !.fields = Append(@, [tag |-> iv.tag, off |-> run.end - run.start,
                                      len |-> iv.end - iv.start])]

Joined(run, iv) ==
    [run EXCEPT !.end = Larger(@, iv.end),
                !.fields = Append(@, [tag |-> iv.tag, off |-> iv.start - run.start,
                                      len |-> iv.end - iv.start])]

Started(iv) ==
    [start |-> iv.start, end |-> iv.end,
     fields |-> <<[tag |-> iv.tag, off |-> 0, len |-> iv.end - iv.start]>>]

\* Address and quantity are cast to 16 bits.
Emit(area, run) ==
    [area |-> area, base |-> run.start % AddrSpace,
     qty |-> (run.end - run.start) % AddrSpace,
     fields |-> run.fields, coalesced |-> Len(run.fields) > 1]

\* sort_by_key: by start, and stable.
Sorted(ivals) ==
    Through(ivals, Listed(DOMAIN ivals,
        {p \in (DOMAIN ivals) \X (DOMAIN ivals) :
            \/ ivals[p[1]].start < ivals[p[2]].start
            \/ ivals[p[1]].start = ivals[p[2]].start /\ p[1] < p[2]}))

Added(runs, iv, gap, cap) ==
    IF runs # <<>> /\ Extends(Last(runs), iv, gap, cap)
    THEN Append(Front(runs), Joined(Last(runs), iv))
    ELSE Append(runs, Started(iv))

Coalesce(area, ivals, gap) ==
    LET sorted == Sorted(ivals)
        runs[n \in 0..Len(ivals)] ==
            IF n = 0 THEN <<>> ELSE Added(runs[n - 1], sorted[n], gap, MaxQty(area))
    IN  [i \in DOMAIN runs[Len(ivals)] |-> Emit(area, runs[Len(ivals)][i])]

ToInterval(e, area) ==
    [start |-> e.address, tag |-> e.tag,
     end |-> e.address + (IF BitDomain(area) THEN 1 ELSE Width(e))]

CustomTxn(e) ==
    [area |-> "custom", base |-> e.address, qty |-> 0, coalesced |-> FALSE,
     fields |-> <<[tag |-> e.tag, off |-> 0,
                   len |-> IF e.response = None THEN 0 ELSE e.response]>>]

Transactions(dev, g) ==
    LET Of(area) == ReadsOf(dev.registers, g, area)
        Reads(area) == Coalesce(area, [i \in DOMAIN Of(area) |-> ToInterval(Of(area)[i], area)],
                                dev.max_gap)
        custom == CustomsOf(dev.registers, g)
    IN  FlattenSeq([i \in DOMAIN Areas |-> Reads(Areas[i])])
        \o [i \in DOMAIN custom |-> CustomTxn(custom[i])]

Enabled(seq) == Through(seq, Ascending({i \in DOMAIN seq : seq[i].enabled}))

Polled(ch) == Enabled(ch.devices)

GroupsOf(ch) ==
    Ascending(UNION {{dev.registers[r].group : r \in DOMAIN dev.registers} :
                        dev \in {Polled(ch)[d] : d \in DOMAIN Polled(ch)}})

\* One entry per transaction of the channel's devices and poll groups.
BuildChannel(ch) ==
    FlattenSeq([d \in DOMAIN Polled(ch) |->
        FlattenSeq([g \in DOMAIN GroupsOf(ch) |->
            LET txns == Transactions(Polled(ch)[d], GroupsOf(ch)[g])
            IN  [i \in DOMAIN txns |-> [dev |-> Polled(ch)[d].id, group |-> GroupsOf(ch)[g],
                                        index |-> i, txn |-> txns[i]]]])])

BuildAll(channels) ==
    FlattenSeq([c \in DOMAIN Enabled(channels) |-> BuildChannel(Enabled(channels)[c])])

-----------------------------------------------------------------------------
(* Polling                                                                  *)

\* One request per field, each with its own quantity and no offset.
SplitTxn(t) ==
    [i \in DOMAIN t.fields |->
       [area |-> t.area, base |-> t.base + t.fields[i].off,
        qty |-> Larger(t.fields[i].len, 1),
        fields |-> <<[t.fields[i] EXCEPT !.off = 0]>>, coalesced |-> FALSE]]

Effective(i) == IF i \in splits THEN SplitTxn(plan[i].txn) ELSE <<plan[i].txn>>

Span(t) == t.base..(t.base + t.qty - 1)

\* The device's answer: its registers, a vendor payload, or an exception.
Reply(dev, t) ==
    IF t.area = "custom" THEN [kind |-> "raw"]
    ELSE IF Span(t) \cap missing # {} THEN [kind |-> "exception"]
    ELSE [kind |-> "words",
          words |-> [i \in 1..t.qty |-> memory[dev][t.area][t.base + i - 1]]]

InReply(f, words) == f.off + f.len <= Len(words)

\* scatter: every field of the transaction that the reply covers gets its slice.
Scatter(t, reply) ==
    [tag \in DOMAIN cache |->
       IF \A i \in DOMAIN t.fields : t.fields[i].tag # tag THEN cache[tag]
       ELSE LET f == t.fields[CHOOSE i \in DOMAIN t.fields : t.fields[i].tag = tag] IN
            IF reply.kind = "raw" THEN [quality |-> "Good", words |-> <<>>]
            ELSE IF InReply(f, reply.words)
            THEN [quality |-> "Good", words |-> SubSeq(reply.words, f.off + 1, f.off + f.len)]
            ELSE [cache[tag] EXCEPT !.quality = "Bad"]]

TagsBad(t) ==
    [tag \in DOMAIN cache |->
       IF \E i \in DOMAIN t.fields : t.fields[i].tag = tag
       THEN [cache[tag] EXCEPT !.quality = "Bad"] ELSE cache[tag]]

Following ==
    IF next[2] < Len(Effective(next[1])) THEN <<next[1], next[2] + 1>>
    ELSE <<(next[1] % Len(plan)) + 1, 1>>

\* Mutant of Divisible: only a read of exactly two fields is split.
DivisibleAtMostTwo(i, t) == t.coalesced /\ i \notin splits /\ Len(t.fields) <= 2

\* An IllegalDataAddress splits a coalesced read once.
Divisible(i, t) == t.coalesced /\ i \notin splits

Poll ==
    /\ status = "running" /\ plan # <<>>
    /\ LET i == next[1]
           t == Effective(i)[next[2]]
           reply == Reply(plan[i].dev, t)
       IN  \/ /\ reply.kind # "exception"
              /\ cache' = Scatter(t, reply)
              /\ UNCHANGED splits
           \/ /\ reply.kind = "exception" /\ Divisible(i, t)
              /\ splits' = splits \cup {i}
              /\ UNCHANGED cache
           \/ /\ reply.kind = "exception" /\ ~Divisible(i, t)
              /\ cache' = TagsBad(t)
              /\ UNCHANGED splits
    /\ next' = Following
    /\ UNCHANGED <<loaded, memory, answer>>

-----------------------------------------------------------------------------
(* Values: words of WordBits bits, two bytes each.                          *)

Pow2[n \in 0..(Mantissa + Finest + Coarsest)] == IF n = 0 THEN 1 ELSE 2 * Pow2[n - 1]

Byte == Pow2[WordBits \div 2]
Word == Pow2[WordBits]

\* How many numbers k words tell apart.
Numbers(k) == Pow2[k * WordBits]

SwapBytes(w) == (w % Byte) * Byte + w \div Byte

Swapped(words, e) ==
    IF e.bytes = "little" THEN [i \in DOMAIN words |-> SwapBytes(words[i])] ELSE words

InOrder(words, e) == IF e.words = "little" THEN Reverse(words) ELSE words

IsSigned(type) == type \in {"i16", "i32", "i64"}

\* decode: byte swap, word order, most significant word first, two's complement.
Decode(words, e) ==
    LET ordered == InOrder(Swapped(words, e), e)
        number[i \in 0..Len(words)] ==
            IF i = 0 THEN 0 ELSE number[i - 1] * Word + ordered[i]
        n == number[Len(words)]
        size == Numbers(Len(words))
    IN  IF IsSigned(e.type) /\ n >= size \div 2 THEN n - size ELSE n

\* The least and the greatest number of the type of e, were it k words wide.
Lowest(e, k) == IF IsSigned(e.type) THEN -(Numbers(k) \div 2) ELSE 0
Highest(e, k) == IF IsSigned(e.type) THEN Numbers(k) \div 2 - 1 ELSE Numbers(k) - 1

\* Mutant of Fits: the range check of the narrowing conversion is dropped.
FitsAlways(n, e) == TRUE

\* The checked narrowing of encode.
Fits(n, e) == n \in Lowest(e, Width(e))..Highest(e, Width(e))

\* encode: most significant word first, word order, byte swap.
Encode(n, e) ==
    LET k == Width(e)
        bits == n % Numbers(k)
        words == [i \in 1..k |-> (bits \div Numbers(k - i)) % Word]
    IN  Swapped(InOrder(words, e), e)

-----------------------------------------------------------------------------
(* Doubles: f64 numbers, counted in units of the finest spacing.            *)

Sign(n) == IF n < 0 THEN -1 ELSE IF n > 0 THEN 1 ELSE 0
Abs(n) == IF n < 0 THEN -n ELSE n

\* The units in one.
Unit == Pow2[Finest]

\* The integer nearest to num / den, the even one of two.
Nearest(num, den) ==
    LET a == Sign(den) * num
        d == Abs(den)
        below == a \div d
    IN  IF 2 * (a % d) < d \/ (2 * (a % d) = d /\ below % 2 = 0) THEN below ELSE below + 1

\* Mantissa bits in steps of 2^k units reach num / den units.
Reaches(k, num, den) == Abs(num) < Pow2[Mantissa + k] * Abs(den)

Finite(num, den) == Reaches(Finest + Coarsest, num, den)

\* The double nearest to num / den units.
Double(num, den) ==
    LET k == CHOOSE k \in 0..(Finest + Coarsest) :
                Reaches(k, num, den) /\ (k > 0 => ~Reaches(k - 1, num, den))
    IN  Pow2[k] * Nearest(num, den * Pow2[k])

FromInt(n) == Double(n * Unit, 1)

\* f64::round: to the nearest integer, halves away from zero.
Rounded(x) == Sign(x) * ((2 * Abs(x) + Unit) \div (2 * Unit))

\* No transform: a tag keeps the type of its registers.
Native(e) == e.scale = 1 /\ e.offset = 0

\* The engineering value of a decoded number.
Apply(e, n) ==
    IF e.formula = "minus" THEN -FromInt(n)
    ELSE IF Native(e) THEN n * Unit
    ELSE Double(Double(FromInt(n) * e.scale, 1) + e.offset * Unit, 1)

\* A client's value less the offset of its tag.
Shifted(e, v) == FromInt(v) - e.offset * Unit

\* The inverse transform of a client's value stays among the finite doubles.
RawFinite(e, v) ==
    /\ Finite(v * Unit, 1)
    /\ \/ e.inverse = "minus" \/ Native(e)
       \/ Finite(Shifted(e, v), 1) /\ Finite(Double(Shifted(e, v), 1), e.scale)

\* The number a client's value stands for.
RawOf(e, v) ==
    IF e.inverse = "minus" THEN -FromInt(v)
    ELSE IF Native(e) THEN FromInt(v)
    ELSE Double(Double(Shifted(e, v), 1), e.scale)

\* raw_to_typed: a number past the doubles nearest to the ends of 64 bits is refused, and the
\* conversion of what is left to 64 bits saturates.
OutOfRange(n, e) == n < Lowest(e, 4) \/ n * Unit > FromInt(Highest(e, 4))

Saturated(n, e) == IF n > Highest(e, 4) THEN Highest(e, 4) ELSE n

-----------------------------------------------------------------------------
(* Writing                                                                  *)

WriteFn(e) ==
    IF e.fn = "ReadCoils"
    THEN IF e.write = "WriteMultipleCoils" THEN e.write ELSE "WriteSingleCoil"
    ELSE IF e.write # None THEN e.write
    ELSE IF Width(e) = 1 THEN "WriteSingleRegister" ELSE "WriteMultipleRegisters"

\* to_request: the words to write, or the status the client gets instead.
ToRequest(e, v) ==
    LET raw == RawOf(e, v)
        n == Saturated(Rounded(raw), e)
        Refused(reason) == [status |-> reason, words |-> <<>>]
        Sending(words) == [status |-> "Good", words |-> words]
    IN  IF ~RawFinite(e, v) THEN Refused("BadOutOfRange")
        ELSE IF e.fn = "ReadCoils" THEN Sending(<<IF raw = 0 THEN 0 ELSE 1>>)
        ELSE IF OutOfRange(Rounded(raw), e) THEN Refused("BadOutOfRange")
        ELSE IF ~Fits(n, e) \/ (WriteFn(e) = "WriteSingleRegister" /\ Width(e) # 1)
        THEN Refused("BadTypeMismatch")
        ELSE Sending(Encode(n, e))

\* The entries with a write plan, each with its device.
WritePlans(channels) ==
    UNION {{[dev |-> dev.id, entry |-> dev.registers[r]] :
               r \in {r \in DOMAIN dev.registers : dev.registers[r].writable}} :
            dev \in UNION {{Polled(ch)[d] : d \in DOMAIN Polled(ch)} :
                ch \in {Enabled(channels)[c] : c \in DOMAIN Enabled(channels)}}}

\* The one write of a behaviour, so that the answer stays the last word.
Write ==
    /\ status = "running" /\ answer = None
    /\ \E p \in WritePlans(Resolve(file)), v \in Amounts :
         LET e == p.entry
             area == ReadArea[e.fn]
             req == ToRequest(e, v)
             at == e.address..(e.address + Len(req.words) - 1)
             refused == req.status = "Good" /\ at \cap missing # {}
         IN  /\ memory' = IF req.status = "Good" /\ ~refused
                          THEN [memory EXCEPT ![p.dev][area] =
                                  [a \in DOMAIN @ |->
                                     IF a \in at THEN req.words[a - e.address + 1] ELSE @[a]]]
                          ELSE memory
             /\ answer' = [plan |-> p, value |-> v,
                           status |-> IF refused THEN "BadDeviceFailure" ELSE req.status]
    /\ UNCHANGED <<loaded, next, splits, cache>>

-----------------------------------------------------------------------------
(* The content of the plant at the start: a register holds a word that      *)
(* tells its address, area and device apart from its neighbours.            *)
Content(place, area, a) ==
    IF BitDomain(area) THEN (IF a \in {1, 2, 4} THEN 1 ELSE 0)
    ELSE (3 * a + 5 * place[2] + (IF area = "input" THEN 7 ELSE 0)) % Word

\* load_str: a configuration with any error is refused whole.
Accepted == Errors(file) = {}

\* The program has loaded its file and compiled its plan before anything else happens.
Init ==
    /\ file \in Files
    /\ \/ Accepted /\ status = "running" /\ plan = BuildAll(Resolve(file))
       \/ ~Accepted /\ status = "refused" /\ plan = <<>>
    /\ next = <<1, 1>> /\ splits = {}
    /\ memory = [p \in ToSet(DevicePlaces(file)) |->
                   [area \in ToSet(Areas) |->
                      [a \in 0..(AddrSpace - 1) |-> Content(p, area, a)]]]
    /\ cache = [tag \in DOMAIN EntryPlaces(file) |-> [quality |-> "Bad", words |-> <<>>]]
    /\ answer = None
    /\ missing \in Missing

Next == Poll \/ Write

\* The runtime polls every due group; that the wheel comes round is ChannelTask's.
Spec == Init /\ [][Next]_vars /\ WF_vars(Poll)

-----------------------------------------------------------------------------
(* Properties                                                               *)

EntryOf(tag) == EntryAt(file, EntryPlaces(file)[tag])
DeviceOf(tag) == <<EntryPlaces(file)[tag][1], EntryPlaces(file)[tag][2]>>

\* A tag is polled when its device and its channel are enabled.
IsPolled(tag) ==
    LET p == DeviceOf(tag)
    IN  file.channels[p[1]].enabled /\ file.channels[p[1]].devices[p[2]].enabled

\* The addresses of a tag as the configuration states them.
OwnAddresses(tag) ==
    LET e == EntryOf(tag)
    IN  e.address..(e.address + (IF BitDomain(ReadArea[e.fn]) THEN 1 ELSE Width(e)) - 1)

Parts(i) == {plan[i].txn} \cup ToSet(SplitTxn(plan[i].txn))

BlocksFit ==
    \A i \in DOMAIN plan : \A t \in Parts(i) :
        t.area # "custom" =>
            /\ t.qty \in 1..MaxQty(t.area)
            /\ t.base + t.qty <= AddrSpace
            /\ \A k \in DOMAIN t.fields : t.fields[k].off + t.fields[k].len <= t.qty

\* The fields of the plan: <<transaction, field>>.
FieldPlaces == UNION {{<<i, k>> : k \in DOMAIN plan[i].txn.fields} : i \in DOMAIN plan}

EachTagOnce ==
    \A tag \in DOMAIN cache :
        LET places == {p \in FieldPlaces : plan[p[1]].txn.fields[p[2]].tag = tag}
        IN  /\ Cardinality(places) = IF status = "running" /\ IsPolled(tag) THEN 1 ELSE 0
            /\ \A p \in places :
                  /\ plan[p[1]].dev = DeviceOf(tag)
                  /\ file.groups[plan[p[1]].group].id = EntryOf(tag).group

ChargedAsPolled ==
    status = "running" =>
        \A p \in ToSet(DevicePlaces(file)), g \in DOMAIN file.groups :
            LET ch == file.channels[p[1]]
                dev == ch.devices[p[2]]
            IN  ch.enabled /\ dev.enabled =>
                  Cardinality({i \in DOMAIN plan : plan[i].dev = p /\ plan[i].group = g})
                    = ChargedRequests(ch, dev, file.groups[g].id)

\* The plan compiled from an accepted configuration: every request, whole or split, is one
\* Modbus can carry and stays inside the address space; every tag of an enabled device is fed by
\* exactly one field of one request of its own device and poll group, every other tag by none;
\* and the bus-load rule of validate.rs, which mirrors the coalescer, charges as many requests as
\* the plan holds (coalesce.rs:33-66, plan.rs:90-189, validate.rs:529-714).
PlanCovers == BlocksFit /\ EachTagOnce /\ ChargedAsPolled

\* What a poll publishes as Good for a tag is what its device holds at the tag's own configured
\* addresses, however the read was merged with its neighbours or split after a refusal
\* (coalesce.rs:47-49, device.rs:150-182, channel.rs:713-719).
OwnRegisters ==
    [][\A tag \in DOMAIN cache :
          /\ cache'[tag] # cache[tag] /\ cache'[tag].quality = "Good"
          /\ IsRead(EntryOf(tag).fn)
          => cache'[tag].words =
               [i \in 1..Cardinality(OwnAddresses(tag)) |->
                  memory[DeviceOf(tag)][ReadArea[EntryOf(tag).fn]][EntryOf(tag).address + i - 1]]]_vars

\* A tag whose own addresses the device has.
Readable(tag) ==
    /\ tag \in DOMAIN cache /\ status = "running" /\ IsPolled(tag)
    /\ EntryOf(tag).fn = "Custom" \/ OwnAddresses(tag) \cap missing = {}

GoodTag(tag) == tag \in DOMAIN cache /\ cache[tag].quality = "Good"

MaxTags == 4

\* A tag whose own registers exist becomes Good and stays so, although the read it was merged
\* into bridges or joins registers the device refuses (device.rs:114-147).
EveryTagRead == \A tag \in 1..MaxTags : Readable(tag) => <>[]GoodTag(tag)

\* Validation demands an inverse only of holding registers: the transform of a coil with a
\* formula and no inverse, and of a pair that is not inverse to each other, cannot be undone.
Invertible(e) == (e.formula = None) = (e.inverse = None)

\* Values whose transform a double carries without rounding.
Carried(e, v) == Abs(v) + Abs(e.offset) + Abs(e.scale) < Pow2[Mantissa - 1]

\* A write answered Good left in the device the number that reads back as the value the client
\* wrote, never a wrapped one, whatever the type, word order and byte order.  Doubles lie in
\* between: an untransformed tag holds exactly what a double and its type both hold, and is else
\* off by a double's precision at most; a transformed one is within half a step of its scale for
\* the values a double carries with a fraction (write.rs:215-326, decode.rs:168-257,
\* formula.rs:257-272).
WritesReadBack ==
    (answer # None /\ answer.status = "Good" /\ Invertible(answer.plan.entry)) =>
        LET e == answer.plan.entry
            v == answer.value
            area == ReadArea[e.fn]
            words == [i \in 1..(IF BitDomain(area) THEN 1 ELSE Width(e)) |->
                        memory[answer.plan.dev][area][e.address + i - 1]]
            read == Apply(e, IF BitDomain(area) THEN words[1] ELSE Decode(words, e))
            off == Abs(read - v * Unit)
        IN  IF e.fn = "ReadCoils"
            THEN Carried(e, v) /\ v * Unit \in {Apply(e, 0), Apply(e, 1)} => off = 0
            ELSE IF Native(e) /\ e.formula = None
            THEN IF FromInt(v) = v * Unit /\ Fits(v, e) THEN off = 0
                 ELSE off * Pow2[Mantissa - 1] <= Abs(v) * Unit
            ELSE Carried(e, v) => 2 * off <= (IF e.formula = None THEN Abs(e.scale) * Unit ELSE 0)

\* raw_to_typed says that it rejects "out-of-range values instead of wrapping" (write.rs:301-302):
\* a number the registers of a transformed tag cannot hold, not even rounded, is never answered
\* Good.  It is not wrapped but clipped: the greatest 64-bit number plus one passes the comparison
\* of doubles (write.rs:311, 317).  The clients of such a tag write doubles.
RefusesOutOfRange ==
    (answer # None /\ answer.status = "Good") =>
        LET e == answer.plan.entry
            v == answer.value
        IN  /\ e.fn = "ReadHoldingRegisters" /\ e.formula = None /\ e.inverse = None
            /\ ~Native(e) /\ FromInt(v) = v * Unit
            => 2 * Sign(e.scale) * (v - e.offset) <= (2 * Highest(e, Width(e)) + 1) * Abs(e.scale)

=============================================================================
