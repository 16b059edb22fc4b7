------------------------------ MODULE MCRegisters ------------------------------
(* Instances of Registers: families of configurations, each around one matter. *)
EXTENDS Registers

Entry(fn, address, type, length) ==
    [tag |-> "", group |-> "fast", fn |-> fn, code |-> 0, address |-> address, type |-> type,
     length |-> length, bit |-> None, bytes |-> "big", words |-> "big", request |-> None,
     response |-> None, scale |-> 1, offset |-> 0, formula |-> None, inverse |-> None,
     writable |-> FALSE, write |-> None]

Holding(address, length) == Entry("ReadHoldingRegisters", address, "ascii", length)
Coil(address) == Entry("ReadCoils", address, "bit", None)
Vendor == [Entry("Custom", 0, "u16", None) EXCEPT !.code = 65, !.response = 2]

\* Tags get their names from their place, so that they are unique.
TagNames == <<"t1", "t2", "t3", "t4">>
NamedEntries(seq, from) == [i \in DOMAIN seq |-> [seq[i] EXCEPT !.tag = TagNames[from + i]]]

Device(id, gap, regs) == [id |-> id, enabled |-> TRUE, max_gap |-> gap, registers |-> regs]

Channel(id, transport, gap, devices) ==
    [id |-> id, enabled |-> TRUE, transport |-> transport, endpoint |-> "given", rate |-> 1,
     max_inflight |-> 1, max_gap |-> gap, devices |-> devices]

Groups == <<[id |-> "fast", period |-> 1], [id |-> "slow", period |-> 2]>>

Config(channels) == [groups |-> Groups, channels |-> channels]

One(transport, gap, regs) ==
    Config(<<Channel("c1", transport, gap, <<Device("d1", None, NamedEntries(regs, 0))>>)>>)

-----------------------------------------------------------------------------
\* Three entries of one device in every order: neighbours, overlaps, holes, the caps, the top.
Menu == {Holding(0, 1), Holding(0, 3), Holding(1, 1), Holding(2, 2), Holding(3, 4), Holding(6, 2),
         Holding(7, 2), [Holding(2, 1) EXCEPT !.group = "slow"],
         Entry("ReadInputRegisters", 1, "u32", None), Coil(0), Coil(2)}
Merging == {One("Tcp", gap, regs) : gap \in 0..1, regs \in Menu \X Menu \X Menu}

\* Two channels and three devices, enabled or not, with an override of the gap.
Layout(on1, on2, d1, d2, gap) ==
    Config(<<
      [Channel("c1", "RtuOverTcp", 0,
         <<[Device("d1", gap, NamedEntries(<<Holding(0, 1), Holding(2, 1)>>, 0))
              EXCEPT !.enabled = d1],
           [Device("d2", None, NamedEntries(<<Vendor>>, 2)) EXCEPT !.enabled = d2]>>)
         EXCEPT !.enabled = on1],
      [Channel("c2", "Tcp", 1, <<Device("d3", None, NamedEntries(<<Coil(1)>>, 3))>>)
         EXCEPT !.enabled = on2]>>)
Layouts == {Layout(on1, on2, d1, d2, gap) :
              on1 \in BOOLEAN, on2 \in BOOLEAN, d1 \in BOOLEAN, d2 \in BOOLEAN, gap \in {None, 1}}

\* One writable entry of each type: in every order of bytes and words, and with every pair of
\* transforms and every write function, valid or not.
Writer(type, order, linear, formulas, write) ==
    [Entry("ReadHoldingRegisters", 2, type, None) EXCEPT
       !.writable = TRUE, !.bytes = order[1], !.words = order[2], !.scale = linear[1],
       !.offset = linear[2], !.formula = formulas[1], !.inverse = formulas[2], !.write = write]

Types == {"u16", "i16", "u32", "i32", "u64", "i64", "bit"}
Linear == {<<1, 0>>, <<2, 1>>, <<-3, 0>>, <<0, 1>>}

Writers ==
    {Writer(type, order, linear, <<None, None>>, None) :
       type \in Types, order \in {"big", "little"} \X {"big", "little"}, linear \in Linear}
    \cup {Writer(type, <<"little", "little">>, linear, formulas, write) :
            type \in Types, linear \in Linear,
            formulas \in {<<None, None>>, <<"minus", "minus">>, <<"minus", None>>},
            write \in {None, "WriteSingleRegister", "WriteMultipleRegisters"}}

CoilWriters ==
    {[Coil(2) EXCEPT !.writable = TRUE, !.scale = scale, !.offset = offset, !.formula = formula,
                     !.inverse = formula, !.write = write] :
       scale \in {0, 1, 2}, offset \in 0..1, formula \in {None, "minus"},
       write \in {None, "WriteMultipleCoils", "WriteSingleRegister"}}
Writing == {One("Tcp", 0, <<e>>) : e \in Writers \cup CoilWriters}

\* Mistakes that validation refuses.
Faulty ==
    {One("Tcp", 0, <<Coil(0), e>>) :
       e \in {[Coil(1) EXCEPT !.type = "u16"], Holding(1, 0), Holding(1, None), Holding(1, 5),
              Holding(7, 2), [Coil(1) EXCEPT !.group = "none"],
              [Entry("ReadHoldingRegisters", 1, "bit", None) EXCEPT !.bit = 4],
              [Coil(1) EXCEPT !.inverse = "minus"], [Coil(1) EXCEPT !.request = "hex"],
              [Vendor EXCEPT !.code = 128], [Vendor EXCEPT !.response = 9],
              [Vendor EXCEPT !.request = "malformed"], Entry("WriteSingleCoil", 1, "bit", None)}}
    \cup {One("Rtu", 0, <<Vendor>>),
          One("RtuOverTcp", 0, <<[Vendor EXCEPT !.response = None]>>),
          [One("Tcp", 0, <<Coil(0)>>) EXCEPT !.groups[1].period = 0],
          [One("Rtu", 0, <<Coil(0)>>) EXCEPT !.channels[1].max_inflight = 2],
          [One("Tcp", 0, <<Coil(0), Coil(1)>>) EXCEPT
              !.channels[1].devices[1].registers[2].tag = "t1"],
          [One("Tcp", 0, <<Coil(0), Coil(1)>>) EXCEPT
              !.channels[1].devices[1].registers[2].tag = "dev:d1"]}

MCFiles == Merging \cup Layouts \cup Writing \cup Faulty
MCMissing == {{}, {1}, {2, 3}}

\* Among them 2^Mantissa + 1, which no double holds, the last number of 64 bits and the next, and
\* what the next is scaled by -3.
MCAmounts == {-196608, -9, -1, 0, 1, 2, 5, 8, 16, 507, 1025, 32768, 65535, 65536}

=============================================================================
