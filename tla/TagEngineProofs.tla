--------------------------- MODULE TagEngineProofs ---------------------------
(***************************************************************************)
(* Proofs about TagEngine, for every set of tags, every acyclic dependency *)
(* graph, every formula, deadband and ring capacity.                       *)
(***************************************************************************)
EXTENDS TagEngine, SequenceTheorems, TLAPS

-----------------------------------------------------------------------------
(* The inductive invariants *)

\* Between waves there is no wave, and a batch writes tags it announces.
WaveInv ==
  /\ phase = "recv" => wave = {}
  /\ \A c \in Channel : batch[c].todo \subseteq batch[c].tags

\* A tag is in flight while it is being written, announced, or may have been
\* in a message that was lost.
InFlight(t) ==
  \/ raw.lagged
  \/ \E i \in 1..Len(raw.pending) : t \in raw.pending[i]
  \/ \E c \in Channel : t \in batch[c].tags

Evaluated(t) == phase = "eval" /\ t \in wave \ todo

Frozen(t) == t \in wave /\ (phase = "eval" \/ (phase = "freeze" /\ t \notin todo))

\* A wave holds all dependents of its tags, and those evaluated already depend
\* on none that is still to come.
OrderInv ==
  /\ Closed(wave)
  /\ \A t \in Tag : Evaluated(t) => Deps[t] \cap todo = {}

\* What the cache, the frozen inputs and the results have to do with each
\* other: a tag outside the wave is up to date or in flight, a frozen input is
\* the cache's or in flight, an evaluated tag is what its frozen input gives.
ResultInv ==
  \A t \in Tag :
    /\ t \notin wave => calc[t] = Computed(t, cache[t], calc) \/ InFlight(t)
    /\ Frozen(t) => frozen[t] = cache[t] \/ InFlight(t)
    /\ Evaluated(t) => calc[t] = Computed(t, frozen[t], calc)

\* The published slot of a tag that does not wait for its evaluation.
GateInv ==
  \A t \in Tag :
    /\ published[t] = store[t].value
    /\ t \notin wave \/ Evaluated(t) => Stands(t)

\* A Good slot holds a value; a value was read or computed by this process.
LiveInv ==
  \A t \in Tag :
    /\ cache[t].quality = "Good" => cache[t].value # Absent
    /\ calc[t].quality = "Good" => calc[t].value # Absent
    /\ frozen[t].quality = "Good" => cache[t].value # Absent

\* What differs from what was announced last is about to be announced.
AnnounceInv == unseen \subseteq changed

\* The database is told of every retentive value that is shown.
DiskInv == \A t \in Retentive : disk[t] = store[t].value

-----------------------------------------------------------------------------
(* Lemmas about the operators *)

\* The affected tags are the given ones and their dependents, and no others.
LEMMA AffectedCloses ==
  ASSUME NEW S \in SUBSET Tag
  PROVE  S \subseteq Affected(S) /\ Affected(S) \subseteq Tag
         /\ Closed(Affected(S))
<1>1. S \subseteq Affected(S) /\ Affected(S) \subseteq Tag
  BY DEF Affected
<1>2. ASSUME NEW t \in Tag, Deps[t] \cap Affected(S) # {}
      PROVE  t \in Affected(S)
  <2>1. PICK d \in Deps[t] : d \in Affected(S)
    BY <1>2
  <2>2. ASSUME NEW C \in SUBSET Tag, S \subseteq C, Closed(C)
        PROVE  t \in C
    <3>1. d \in C
      BY <2>1, <2>2 DEF Affected
    <3> QED
      BY <3>1, <2>2 DEF Closed
  <2> QED
    BY <2>2 DEF Affected
<1> QED
  BY <1>1, <1>2 DEF Closed

\* No tag refers to itself.
LEMMA NotOwnInput ==
  ASSUME NEW t \in Tag
  PROVE  t \notin Deps[t]
BY AcyclicAssumption, {t} \in SUBSET Tag, {t} # {}

LEMMA WorstType ==
  ASSUME NEW Q
  PROVE  /\ Worst(Q) \in Quality
         /\ Worst(Q) = "Good" => "Bad" \notin Q /\ "Uncertain" \notin Q
BY DEF Worst, Quality

\* What a tag computes to is a slot; when Good it is a value, and its own
\* register and every input are Good.
LEMMA ComputedType ==
  ASSUME NEW t \in Tag, NEW r \in Slot, NEW c \in [Tag -> Slot]
  PROVE  /\ Computed(t, r, c) \in Slot
         /\ Computed(t, r, c).quality = "Good" =>
              /\ Computed(t, r, c).value \in Value
              /\ t \in UsesRaw => r.quality = "Good"
              /\ \A d \in Deps[t] : c[d].quality = "Good"
<1> DEFINE own == IF t \in UsesRaw THEN r
                  ELSE [value |-> Absent, quality |-> "Good"]
           qualities == {own.quality} \cup {c[d].quality : d \in Deps[t]}
           inputs == [d \in Deps[t] |-> c[d].value]
           v == Eval(t, own.value, inputs)
<1>1. Deps[t] \subseteq Tag
  BY TagAssumption
<1>2. own \in Slot /\ own.value \in Content
  BY DEF Slot, Content, Quality
<1>3. inputs \in [Deps[t] -> Value \cup {Absent}]
  BY <1>1 DEF Slot, Content
<1>4. v \in Value \cup {Failed}
  BY <1>2, <1>3, EvalAssumption DEF Content
<1>5. qualities \subseteq Quality
  BY <1>1, <1>2 DEF Slot
<1>6. Worst(qualities) \in Quality
      /\ (Worst(qualities) = "Good" => \A q \in qualities : q = "Good")
  BY <1>5, WorstType DEF Quality
<1>7. Computed(t, r, c) = IF Worst(qualities) = "Good" /\ v # Failed
        THEN [value |-> v, quality |-> "Good"]
        ELSE [value |-> c[t].value,
              quality |-> IF Worst(qualities) = "Good" THEN "Bad"
                          ELSE Worst(qualities)]
  BY DEF Computed
<1> HIDE DEF v
<1>8. CASE Worst(qualities) = "Good" /\ v # Failed
  <2>1. own.quality = "Good" /\ \A d \in Deps[t] : c[d].quality = "Good"
    BY <1>6, <1>8
  <2> QED
    BY <2>1, <1>4, <1>7, <1>8 DEF Slot, Content, Quality
<1>9. CASE ~(Worst(qualities) = "Good" /\ v # Failed)
  <2> HIDE DEF qualities
  <2>1. c[t].value \in Content
    BY DEF Slot
  <2> QED
    BY <2>1, <1>6, <1>7, <1>9 DEF Slot, Quality
<1> QED
  BY <1>8, <1>9

\* Computed as an operator of what it reads: the qualities Q and the values V
\* of its inputs, and its old value.
Outcome(t, r, Q, V, old) ==
  LET own == IF t \in UsesRaw THEN r ELSE [value |-> Absent, quality |-> "Good"]
      q == Worst({own.quality} \cup Q)
      v == Eval(t, own.value, V)
  IN IF q = "Good" /\ v # Failed THEN [value |-> v, quality |-> "Good"]
     ELSE [value |-> old, quality |-> IF q = "Good" THEN "Bad" ELSE q]

LEMMA ComputedOutcome ==
  ASSUME NEW t, NEW r, NEW c
  PROVE  Computed(t, r, c) =
           Outcome(t, r, {c[d].quality : d \in Deps[t]},
                   [d \in Deps[t] |-> c[d].value], c[t].value)
BY DEF Computed, Outcome

\* Computing again from the value computed gives it again.
LEMMA OutcomeAgain ==
  ASSUME NEW t, NEW r, NEW Q, NEW V, NEW old
  PROVE  Outcome(t, r, Q, V, Outcome(t, r, Q, V, old).value)
           = Outcome(t, r, Q, V, old)
<1> DEFINE own == IF t \in UsesRaw THEN r
                  ELSE [value |-> Absent, quality |-> "Good"]
           q == Worst({own.quality} \cup Q)
           v == Eval(t, own.value, V)
<1>1. \A x : Outcome(t, r, Q, V, x) =
        IF q = "Good" /\ v # Failed THEN [value |-> v, quality |-> "Good"]
        ELSE [value |-> x, quality |-> IF q = "Good" THEN "Bad" ELSE q]
  BY DEF Outcome
<1> HIDE DEF own, q, v
<1>2. CASE q = "Good" /\ v # Failed
  BY <1>1, <1>2
<1>3. CASE ~(q = "Good" /\ v # Failed)
  BY <1>1, <1>3
<1> QED
  BY <1>2, <1>3

\* A result depends on the results of its inputs and on its own value only.
LEMMA ComputedSame ==
  ASSUME NEW c, NEW e, NEW u, NEW s,
         \A d \in Deps[u] : e[d] = c[d], e[u].value = c[u].value
  PROVE  Computed(u, s, e) = Computed(u, s, c)
<1>1. {e[d].quality : d \in Deps[u]} = {c[d].quality : d \in Deps[u]}
  OBVIOUS
<1>2. [d \in Deps[u] |-> e[d].value] = [d \in Deps[u] |-> c[d].value]
  OBVIOUS
<1> DEFINE Q == {c[d].quality : d \in Deps[u]}
           V == [d \in Deps[u] |-> c[d].value]
<1>3. Computed(u, s, e) = Outcome(u, s, Q, V, e[u].value)
  BY <1>1, <1>2, ComputedOutcome
<1>4. Computed(u, s, c) = Outcome(u, s, Q, V, c[u].value)
  BY ComputedOutcome
<1> QED
  BY <1>3, <1>4

\* It keeps its own value when it has no new one.
LEMMA ComputedAgain ==
  ASSUME NEW c, NEW e, NEW t, NEW r,
         \A d \in Deps[t] : e[d] = c[d], e[t] = Computed(t, r, c)
  PROVE  Computed(t, r, e) = Computed(t, r, c)
<1>1. {e[d].quality : d \in Deps[t]} = {c[d].quality : d \in Deps[t]}
  OBVIOUS
<1>2. [d \in Deps[t] |-> e[d].value] = [d \in Deps[t] |-> c[d].value]
  OBVIOUS
<1> DEFINE Q == {c[d].quality : d \in Deps[t]}
           V == [d \in Deps[t] |-> c[d].value]
<1>3. Computed(t, r, e) = Outcome(t, r, Q, V, e[t].value)
  BY <1>1, <1>2, ComputedOutcome
<1>4. Computed(t, r, c) = Outcome(t, r, Q, V, c[t].value)
  BY ComputedOutcome
<1> HIDE DEF Q, V
<1>5. e[t].value = Outcome(t, r, Q, V, c[t].value).value
  BY <1>4
<1>6. Outcome(t, r, Q, V, e[t].value) = Outcome(t, r, Q, V, c[t].value)
  BY <1>5, OutcomeAgain
<1> QED
  BY <1>3, <1>4, <1>6

\* What the ring does to the messages under way.
LEMMA SendType ==
  ASSUME NEW ring \in [lagged : BOOLEAN, pending : Seq(SUBSET Tag)],
         NEW S \in SUBSET Tag
  PROVE  Send(ring, S) \in [lagged : BOOLEAN, pending : Seq(SUBSET Tag)]
<1>1. Len(ring.pending) < Capacity \/ ring.pending # <<>>
  BY TagAssumption, EmptySeq
<1>2. Append(ring.pending, S) \in Seq(SUBSET Tag)
  BY AppendProperties
<1>3. ring.pending # <<>> => Append(Tail(ring.pending), S) \in Seq(SUBSET Tag)
  BY HeadTailProperties, AppendProperties
<1> QED
  BY <1>1, <1>2, <1>3 DEF Send
-----------------------------------------------------------------------------
(* Type correctness *)

LEMMA InitType == Init => TypeOK /\ WaveInv
BY EmptySeq DEF Init, TypeOK, WaveInv, Slot, Batch, Content, Quality,
                NeverRead, NoBatch, Nothing

LEMMA StartBatchType ==
  ASSUME TypeOK, WaveInv, NEW c \in Channel, NEW S \in Lists[c],
         NEW q \in {"Good"} \cup Marks, StartBatch(c, S, q)
  PROVE  TypeOK' /\ WaveInv'
<1>1. S \subseteq Tag /\ q \in Quality
  BY TagAssumption DEF Quality
<1>2. [tags |-> S, todo |-> S, quality |-> q] \in Batch
  BY <1>1 DEF Batch
<1> QED
  BY <1>2 DEF TypeOK, WaveInv, StartBatch, waveVars, outputVars, diskVars

LEMMA WriteSlotType ==
  ASSUME TypeOK, WaveInv, NEW c \in Channel, NEW t \in batch[c].todo,
         NEW v \in Register[t], WriteSlot(c, t, v)
  PROVE  TypeOK' /\ WaveInv'
<1>1. t \in Tag /\ v \in Content
  BY TagAssumption DEF TypeOK, Batch, Content
<1>2. cache' \in [Tag -> Slot]
  BY <1>1 DEF TypeOK, WriteSlot, Slot, Batch
<1>3. batch' \in [Channel -> Batch]
      /\ \A d \in Channel : batch'[d].todo \subseteq batch'[d].tags
  BY DEF TypeOK, WaveInv, WriteSlot, Batch
<1> QED
  BY <1>2, <1>3 DEF TypeOK, WaveInv, WriteSlot, waveVars, outputVars, diskVars

LEMMA SendBatchType ==
  ASSUME TypeOK, WaveInv, NEW c \in Channel, SendBatch(c)
  PROVE  TypeOK' /\ WaveInv'
<1>1. raw' \in [lagged : BOOLEAN, pending : Seq(SUBSET Tag)]
  <2>1. batch[c].tags \in SUBSET Tag
    BY DEF TypeOK, Batch
  <2> QED
    BY <2>1, SendType DEF TypeOK, SendBatch
<1>2. batch' \in [Channel -> Batch]
      /\ \A d \in Channel : batch'[d].todo \subseteq batch'[d].tags
  BY DEF TypeOK, WaveInv, SendBatch, Batch, NoBatch, Quality
<1> QED
  BY <1>1, <1>2 DEF TypeOK, WaveInv, SendBatch, waveVars, outputVars, diskVars

LEMMA ReceiveType ==
  ASSUME TypeOK, WaveInv, Receive
  PROVE  TypeOK' /\ WaveInv'
<1>1. raw' \in [lagged : BOOLEAN, pending : Seq(SUBSET Tag)]
  <2>1. raw.pending # <<>> => Tail(raw.pending) \in Seq(SUBSET Tag)
    BY HeadTailProperties DEF TypeOK
  <2> QED
    BY <2>1 DEF TypeOK, Receive
<1>2. wave' \subseteq Tag
  BY DEF Receive, Affected
<1>3. changed' \subseteq wave'
  BY DEF TypeOK, WaveInv, Receive, outputVars
<1> QED
  BY <1>1, <1>2, <1>3 DEF TypeOK, WaveInv, Receive, outputVars, diskVars

LEMMA FreezeType ==
  ASSUME TypeOK, WaveInv, NEW t \in todo, Freeze(t)
  PROVE  TypeOK' /\ WaveInv'
BY DEF TypeOK, WaveInv, Freeze, inputVars, outputVars, diskVars

\* The three outcomes of an evaluation.
LEMMA EvaluateCases ==
  ASSUME NEW t, Evaluate(t), NEW new, new = Computed(t, frozen[t], calc)
  PROVE  \/ new.quality # "Good" /\ MarkStore(t, new.quality)
         \/ /\ new.quality = "Good" /\ Suppressed(t, new.value)
            /\ UNCHANGED <<store, published, changed, disk>>
         \/ new.quality = "Good" /\ Publish(t, new.value)
BY DEF Evaluate

LEMMA EvaluateType ==
  ASSUME TypeOK, WaveInv, NEW t \in todo, Evaluate(t)
  PROVE  TypeOK' /\ WaveInv'
<1> DEFINE new == Computed(t, frozen[t], calc)
<1>1. t \in Tag /\ t \in wave
  BY DEF TypeOK
<1>2. new \in Slot /\ (new.quality = "Good" => new.value \in Value)
  BY <1>1, ComputedType DEF TypeOK
<1>3. calc' \in [Tag -> Slot]
  BY <1>2 DEF TypeOK, Evaluate
<1>4. UNCHANGED <<phase, wave, frozen, inputVars, durable>>
      /\ todo' = todo \ {t} /\ unseen' \in {unseen, unseen \cup {t}}
  BY DEF Evaluate
<1> HIDE DEF new
<1>5. /\ store' \in [Tag -> Slot] /\ published' \in [Tag -> Content]
      /\ changed' \subseteq wave /\ disk' \in [Tag -> Content]
  <2>1. CASE new.quality # "Good" /\ MarkStore(t, new.quality)
    BY <1>1, <1>2, <2>1 DEF TypeOK, MarkStore, Slot
  <2>2. CASE UNCHANGED <<store, published, changed, disk>>
    BY <2>2 DEF TypeOK
  <2>3. CASE new.quality = "Good" /\ Publish(t, new.value)
    BY <1>1, <1>2, <2>3 DEF TypeOK, Publish, Slot, Content, Quality
  <2> QED
    BY <2>1, <2>2, <2>3, EvaluateCases DEF new
<1> QED
  BY <1>1, <1>3, <1>4, <1>5 DEF TypeOK, WaveInv, inputVars

LEMMA EndWaveType ==
  ASSUME TypeOK, WaveInv, EndWave
  PROVE  TypeOK' /\ WaveInv'
BY DEF TypeOK, WaveInv, EndWave, inputVars, diskVars, NeverRead, Slot, Content,
       Quality

LEMMA RestartType ==
  ASSUME NEW saved \in [Tag -> Content], Restart(saved)
  PROVE  TypeOK' /\ WaveInv'
<1>1. NeverRead \in Slot /\ NoBatch \in Batch
  BY DEF NeverRead, NoBatch, Slot, Batch, Content, Quality
<1>2. \A t \in Tag : Restored(saved, t) \in Slot
  BY <1>1 DEF Restored, Slot, Quality
<1>3. store' \in [Tag -> Slot] /\ published' \in [Tag -> Content]
  BY <1>2 DEF Restart, Slot
<1> QED
  BY <1>1, <1>3, EmptySeq DEF TypeOK, WaveInv, Restart, Nothing, NoBatch

LEMMA NextType ==
  ASSUME TypeOK, WaveInv, [Next]_vars
  PROVE  TypeOK' /\ WaveInv'
<1>1. CASE Pollers
  BY <1>1, StartBatchType, WriteSlotType, SendBatchType DEF Pollers
<1>2. CASE Engine
  BY <1>2, ReceiveType, FreezeType, EvaluateType, EndWaveType DEF Engine
<1>3. CASE Flush
  BY <1>3 DEF TypeOK, WaveInv, Flush, inputVars, waveVars, outputVars
<1>4. CASE Stop \/ Crash
  BY <1>4, RestartType DEF TypeOK, Stop, Crash
<1>5. CASE UNCHANGED vars
  BY <1>5 DEF TypeOK, WaveInv, vars, inputVars, waveVars, outputVars, diskVars
<1> QED
  BY <1>1, <1>2, <1>3, <1>4, <1>5 DEF Next, Process

LEMMA Types == Spec => [](TypeOK /\ WaveInv)
BY InitType, NextType, PTL DEF Spec

\* Every variable of the engine has its type: in particular every published
\* value is one that some formula yields, and only tags of the wave change.
THEOREM TypeCorrect == Spec => []TypeOK
BY Types, PTL

-----------------------------------------------------------------------------
(* The order of evaluation *)

LEMMA OrderInit == Init => OrderInv
BY DEF Init, OrderInv, Closed, Evaluated

LEMMA NextOrder ==
  ASSUME TypeOK, WaveInv, OrderInv, [Next]_vars
  PROVE  OrderInv'
<1>1. ASSUME UNCHANGED waveVars PROVE OrderInv'
  BY <1>1 DEF OrderInv, Closed, Evaluated, waveVars
<1>2. CASE Pollers
  BY <1>1, <1>2 DEF Pollers, StartBatch, WriteSlot, SendBatch
<1>3. CASE Receive
  <2>1. Closed(wave')
    <3>1. CASE raw.lagged
      BY <1>3, <3>1 DEF Receive, Closed
    <3>2. CASE ~raw.lagged
      <4>1. Head(raw.pending) \in SUBSET Tag
        BY <1>3, <3>2, HeadTailProperties DEF Receive, TypeOK
      <4> QED
        BY <1>3, <3>2, <4>1, AffectedCloses DEF Receive
    <3> QED
      BY <3>1, <3>2
  <2> QED
    BY <1>3, <2>1 DEF Receive, OrderInv, Evaluated, Closed
<1>4. ASSUME NEW t \in todo, Freeze(t) PROVE OrderInv'
  BY <1>4 DEF Freeze, OrderInv, Evaluated, Closed
<1>5. ASSUME NEW t \in todo, Evaluate(t) PROVE OrderInv'
  BY <1>5 DEF Evaluate, OrderInv, Evaluated, Closed
<1>6. CASE EndWave
  BY <1>6 DEF EndWave, OrderInv, Evaluated, Closed
<1>7. CASE Flush
  BY <1>1, <1>7 DEF Flush
<1>8. CASE Stop \/ Crash
  BY <1>8 DEF Stop, Crash, Restart, OrderInv, Evaluated, Closed
<1>9. CASE UNCHANGED vars
  BY <1>1, <1>9 DEF vars
<1> QED
  BY <1>2, <1>3, <1>4, <1>5, <1>6, <1>7, <1>8, <1>9 DEF Next, Engine, Process

-----------------------------------------------------------------------------
(* Results and inputs *)

\* A message lost leaves everything in flight, one sent its tags.
LEMMA SendKeepsFlight ==
  ASSUME TypeOK, NEW c \in Channel, SendBatch(c), NEW t \in Tag, InFlight(t)
  PROVE  InFlight(t)'
<1> DEFINE S == batch[c].tags
<1>1. raw.pending \in Seq(SUBSET Tag)
  BY DEF TypeOK
<1>2. CASE Len(raw.pending) < Capacity
  <2>1. raw' = [raw EXCEPT !.pending = Append(raw.pending, S)]
    BY <1>2 DEF SendBatch, Send
  <2>2. raw'.lagged = raw.lagged /\ raw'.pending = Append(raw.pending, S)
    BY <2>1 DEF TypeOK
  <2>3. /\ Len(raw'.pending) = Len(raw.pending) + 1
        /\ \A i \in 1..Len(raw.pending) : raw'.pending[i] = raw.pending[i]
        /\ raw'.pending[Len(raw.pending) + 1] = S
    BY <1>1, <2>2, AppendProperties
  <2>4. Len(raw.pending) \in Nat
    BY <1>1, LenProperties
  <2>5. \A d \in Channel : d # c => batch'[d] = batch[d]
    BY DEF SendBatch, TypeOK
  <2>6. CASE raw.lagged
    BY <2>2, <2>6 DEF InFlight
  <2>7. ASSUME NEW i \in 1..Len(raw.pending), t \in raw.pending[i]
        PROVE  InFlight(t)'
    BY <2>3, <2>4, <2>7 DEF InFlight
  <2>8. ASSUME NEW d \in Channel, t \in batch[d].tags PROVE InFlight(t)'
    <3>1. CASE d = c
      BY <2>3, <2>4, <2>8, <3>1 DEF InFlight
    <3>2. CASE d # c
      BY <2>5, <2>8, <3>2 DEF InFlight
    <3> QED
      BY <3>1, <3>2
  <2> QED
    BY <2>6, <2>7, <2>8 DEF InFlight
<1>3. CASE ~(Len(raw.pending) < Capacity)
  BY <1>3 DEF SendBatch, Send, InFlight
<1> QED
  BY <1>2, <1>3

\* A tag in flight is in the wave of the message received, or still is.
LEMMA ReceiveKeepsFlight ==
  ASSUME TypeOK, Receive, NEW t \in Tag, InFlight(t), t \notin wave'
  PROVE  InFlight(t)'
<1>1. ~raw.lagged /\ raw.pending # <<>>
  BY DEF Receive
<1>2. raw.pending \in Seq(SUBSET Tag)
  BY DEF TypeOK
<1>3. raw' = [raw EXCEPT !.pending = Tail(raw.pending)]
      /\ wave' = Affected(Head(raw.pending))
  BY <1>1 DEF Receive
<1>4. raw'.pending = Tail(raw.pending)
  BY <1>3 DEF TypeOK
<1>5. t \notin Head(raw.pending)
  BY <1>1, <1>2, <1>3, HeadTailProperties, AffectedCloses
<1>6. /\ Head(raw.pending) = raw.pending[1]
      /\ Len(raw'.pending) = Len(raw.pending) - 1
      /\ \A i \in 1..Len(raw'.pending) : raw'.pending[i] = raw.pending[i + 1]
  BY <1>1, <1>2, <1>4, HeadTailProperties
<1>7. ASSUME NEW i \in 1..Len(raw.pending), t \in raw.pending[i]
      PROVE  InFlight(t)'
  <2>1. i # 1 /\ i - 1 \in 1..Len(raw'.pending) /\ (i - 1) + 1 = i
    BY <1>2, <1>5, <1>6, <1>7, LenProperties
  <2>2. t \in raw'.pending[i - 1]
    BY <1>6, <1>7, <2>1
  <2> QED
    BY <2>1, <2>2 DEF InFlight
<1>8. ASSUME NEW c \in Channel, t \in batch[c].tags PROVE InFlight(t)'
  BY <1>8 DEF Receive, InFlight
<1> QED
  BY <1>1, <1>7, <1>8 DEF InFlight

LEMMA ResultInit == Init => ResultInv
BY DEF Init, ResultInv, Frozen, Evaluated

LEMMA WriteResult ==
  ASSUME TypeOK, WaveInv, ResultInv, NEW c \in Channel, NEW t \in batch[c].todo,
         NEW v \in Register[t], WriteSlot(c, t, v)
  PROVE  ResultInv'
<1>1. UNCHANGED <<raw, phase, wave, todo, frozen, calc>>
  BY DEF WriteSlot, waveVars, outputVars
<1>2. \A d \in Channel : batch'[d].tags = batch[d].tags
  BY DEF WriteSlot, TypeOK, Batch
<1>3. \A u : InFlight(u)' <=> InFlight(u)
  BY <1>1, <1>2 DEF InFlight
<1>4. InFlight(t)
  BY DEF WaveInv, InFlight
<1>5. \A u \in Tag : u # t => cache'[u] = cache[u]
  BY DEF WriteSlot, TypeOK
<1>6. \A u \in Tag : (Frozen(u)' <=> Frozen(u)) /\ (Evaluated(u)' <=> Evaluated(u))
  BY <1>1 DEF Frozen, Evaluated
<1> QED
  BY <1>1, <1>3, <1>4, <1>5, <1>6 DEF ResultInv

LEMMA EvaluateResult ==
  ASSUME TypeOK, OrderInv, ResultInv, NEW t \in todo, Evaluate(t)
  PROVE  ResultInv'
<1> DEFINE new == Computed(t, frozen[t], calc)
<1>1. t \in Tag /\ t \in wave
  BY DEF TypeOK
<1>2. /\ UNCHANGED <<raw, batch, cache, phase, wave, frozen>>
      /\ phase = "eval" /\ todo' = todo \ {t} /\ Deps[t] \cap todo = {}
      /\ calc' = [calc EXCEPT ![t] = new]
  BY DEF Evaluate, inputVars
<1>3. calc \in [Tag -> Slot]
  BY DEF TypeOK
<1>4. ASSUME NEW u \in Tag, u # t, t \notin Deps[u]
      PROVE  /\ calc'[u] = calc[u]
             /\ \A s : Computed(u, s, calc') = Computed(u, s, calc)
  <2>1. calc'[u] = calc[u]
    BY <1>1, <1>2, <1>3, <1>4
  <2>2. ASSUME NEW s PROVE Computed(u, s, calc') = Computed(u, s, calc)
    <3>1. \A d \in Deps[u] : calc'[d] = calc[d]
      BY <1>1, <1>2, <1>3, <1>4, TagAssumption
    <3> QED
      BY <2>1, <3>1, ComputedSame
  <2> QED
    BY <2>1, <2>2
<1>5. calc'[t] = new /\ Computed(t, frozen[t], calc') = new
  <2>1. calc'[t] = new
    BY <1>1, <1>2, <1>3
  <2>2. t \notin Deps[t]
    BY <1>1, NotOwnInput
  <2>3. \A d \in Deps[t] : calc'[d] = calc[d]
    BY <1>1, <1>2, <1>3, <2>2, TagAssumption
  <2>4. Computed(t, frozen[t], calc') = new
    BY <2>1, <2>3, ComputedAgain
  <2> QED
    BY <2>1, <2>4
<1> HIDE DEF new
<1>6. \A u : InFlight(u)' <=> InFlight(u)
  BY <1>2 DEF InFlight
<1>7. ASSUME NEW u \in Tag, u \notin wave
      PROVE  calc'[u] = Computed(u, cache'[u], calc') \/ InFlight(u)'
  <2>1. u # t /\ t \notin Deps[u]
    BY <1>1, <1>7 DEF OrderInv, Closed
  <2> QED
    BY <1>2, <1>4, <1>6, <1>7, <2>1 DEF ResultInv
<1>8. ASSUME NEW u \in Tag, Evaluated(u)'
      PROVE  calc'[u] = Computed(u, frozen'[u], calc')
  <2>1. CASE u = t
    BY <1>2, <1>5, <2>1
  <2>2. CASE u # t
    <3>1. Evaluated(u) /\ t \notin Deps[u]
      BY <1>2, <1>8, <2>2 DEF Evaluated, OrderInv
    <3> QED
      BY <1>2, <1>4, <2>2, <3>1 DEF ResultInv
  <2> QED
    BY <2>1, <2>2
<1>9. ASSUME NEW u \in Tag, Frozen(u)'
      PROVE  frozen'[u] = cache'[u] \/ InFlight(u)'
  BY <1>2, <1>6, <1>9 DEF ResultInv, Frozen
<1> QED
  BY <1>2, <1>7, <1>8, <1>9 DEF ResultInv

LEMMA NextResult ==
  ASSUME TypeOK, WaveInv, OrderInv, ResultInv, [Next]_vars
  PROVE  ResultInv'
<1>1. ASSUME UNCHANGED <<waveVars, cache, calc>>,
             \A u \in Tag : InFlight(u) => InFlight(u)'
      PROVE  ResultInv'
  BY <1>1 DEF ResultInv, Frozen, Evaluated, waveVars
<1>2. ASSUME NEW c \in Channel, NEW S, NEW q, StartBatch(c, S, q)
      PROVE  ResultInv'
  <2>1. \A u \in Tag : InFlight(u) => InFlight(u)'
    BY <1>2 DEF StartBatch, InFlight, TypeOK
  <2> QED
    BY <1>1, <1>2, <2>1 DEF StartBatch, outputVars
<1>3. ASSUME NEW c \in Channel, SendBatch(c) PROVE ResultInv'
  BY <1>1, <1>3, SendKeepsFlight DEF SendBatch, outputVars
<1>4. CASE Receive
  <2>1. UNCHANGED <<cache, calc>> /\ todo' = wave' /\ phase' = "freeze"
        /\ phase = "recv"
    BY <1>4 DEF Receive, outputVars
  <2>2. wave = {}
    BY <2>1 DEF WaveInv
  <2>3. \A u \in Tag : InFlight(u) /\ u \notin wave' => InFlight(u)'
    BY <1>4, ReceiveKeepsFlight
  <2> QED
    BY <2>1, <2>2, <2>3 DEF ResultInv, Frozen, Evaluated
<1>5. ASSUME NEW t \in todo, Freeze(t) PROVE ResultInv'
  <2>1. UNCHANGED <<raw, batch, cache, wave, calc>>
    BY <1>5 DEF Freeze, inputVars, outputVars
  <2>2. \A u : InFlight(u)' <=> InFlight(u)
    BY <2>1 DEF InFlight
  <2>3. t \in Tag /\ frozen'[t] = cache[t]
        /\ \A u \in Tag : u # t => frozen'[u] = frozen[u]
    BY <1>5 DEF Freeze, TypeOK
  <2>4. \A u \in Tag : ~Evaluated(u)'
    BY <1>5 DEF Freeze, Evaluated
  <2>5. \A u \in Tag : Frozen(u)' => Frozen(u) \/ u = t
    BY <1>5 DEF Freeze, Frozen
  <2> QED
    BY <2>1, <2>2, <2>3, <2>4, <2>5 DEF ResultInv
<1>6. CASE EndWave
  <2>1. /\ UNCHANGED <<raw, batch, cache, calc>>
        /\ phase = "eval" /\ todo = {} /\ phase' = "recv" /\ wave' = {}
    BY <1>6 DEF EndWave, inputVars
  <2>2. \A u : InFlight(u)' <=> InFlight(u)
    BY <2>1 DEF InFlight
  <2>3. \A u \in Tag : ~Frozen(u)' /\ ~Evaluated(u)'
    BY <2>1 DEF Frozen, Evaluated
  <2>4. \A u \in wave : Frozen(u) /\ Evaluated(u)
    BY <2>1 DEF Frozen, Evaluated
  <2> QED
    BY <2>1, <2>2, <2>3, <2>4 DEF ResultInv
<1>7. CASE Flush
  BY <1>1, <1>7 DEF Flush, inputVars, outputVars, InFlight
<1>8. CASE Stop \/ Crash
  BY <1>8 DEF Stop, Crash, Restart, ResultInv, Frozen, Evaluated
<1>9. CASE UNCHANGED vars
  BY <1>1, <1>9 DEF vars, inputVars, outputVars, InFlight
<1> QED
  BY <1>2, <1>3, <1>4, <1>5, <1>6, <1>7, <1>8, <1>9, WriteResult, EvaluateResult
     DEF Next, Pollers, Engine, Process

-----------------------------------------------------------------------------
(* What is published *)

LEMMA GateInit == Init => GateInv
BY DEF Init, GateInv, Evaluated, NeverRead

LEMMA EvaluateGate ==
  ASSUME TypeOK, GateInv, NEW t \in todo, Evaluate(t)
  PROVE  GateInv'
<1> DEFINE new == Computed(t, frozen[t], calc)
<1>1. t \in Tag /\ new \in Slot
  BY ComputedType DEF TypeOK
<1>2. /\ UNCHANGED <<phase, wave>> /\ todo' = todo \ {t}
      /\ calc' = [calc EXCEPT ![t] = new]
  BY DEF Evaluate
<1>3. calc'[t] = new /\ \A u \in Tag : u # t => calc'[u] = calc[u]
  BY <1>1, <1>2 DEF TypeOK
<1> HIDE DEF new
<1>4. \A u \in Tag : u # t => store'[u] = store[u] /\ published'[u] = published[u]
  BY EvaluateCases DEF TypeOK, MarkStore, Publish
<1>5. published'[t] = store'[t].value
      /\ store'[t].quality = new.quality
      /\ (new.quality = "Good" =>
            store'[t].value = new.value \/ Near(t, new.value, store'[t].value))
  <2>1. CASE new.quality # "Good" /\ MarkStore(t, new.quality)
    BY <1>1, <2>1 DEF TypeOK, GateInv, MarkStore, Slot
  <2>2. CASE /\ new.quality = "Good" /\ Suppressed(t, new.value)
             /\ UNCHANGED <<store, published, changed, disk>>
    BY <1>1, <2>2 DEF GateInv, Suppressed
  <2>3. CASE new.quality = "Good" /\ Publish(t, new.value)
    BY <1>1, <2>3 DEF TypeOK, Publish
  <2> QED
    BY <2>1, <2>2, <2>3, EvaluateCases DEF new
<1>6. Stands(t)'
  BY <1>3, <1>5 DEF Stands
<1>7. ASSUME NEW u \in Tag, u # t, u \notin wave' \/ Evaluated(u)'
      PROVE  Stands(u)'
  <2>1. u \notin wave \/ Evaluated(u)
    BY <1>2, <1>7 DEF Evaluated
  <2> QED
    BY <1>3, <1>4, <1>7, <2>1 DEF GateInv, Stands
<1> QED
  BY <1>4, <1>5, <1>6, <1>7 DEF GateInv

LEMMA NextGate ==
  ASSUME TypeOK, WaveInv, GateInv, [Next]_vars
  PROVE  GateInv'
<1>1. ASSUME UNCHANGED outputVars,
             \A t \in Tag : t \notin wave' \/ Evaluated(t)' =>
                              t \notin wave \/ Evaluated(t)
      PROVE  GateInv'
  BY <1>1 DEF GateInv, Stands, outputVars
<1>2. CASE Pollers
  BY <1>1, <1>2 DEF Pollers, StartBatch, WriteSlot, SendBatch, waveVars, Evaluated
<1>3. CASE Receive
  BY <1>1, <1>3 DEF Receive, WaveInv, Evaluated
<1>4. ASSUME NEW t \in todo, Freeze(t) PROVE GateInv'
  BY <1>1, <1>4 DEF Freeze, Evaluated
<1>5. CASE EndWave
  <2>1. /\ UNCHANGED <<calc, store, published>>
        /\ phase = "eval" /\ todo = {}
    BY <1>5 DEF EndWave
  <2>2. \A t \in Tag : t \notin wave \/ Evaluated(t)
    BY <2>1 DEF Evaluated
  <2> QED
    BY <2>1, <2>2 DEF GateInv, Stands
<1>6. CASE Flush
  BY <1>1, <1>6 DEF Flush, waveVars, Evaluated
<1>7. CASE Stop \/ Crash
  BY <1>7 DEF Stop, Crash, Restart, GateInv, Evaluated
<1>8. CASE UNCHANGED vars
  BY <1>1, <1>8 DEF vars, waveVars, Evaluated
<1> QED
  BY <1>2, <1>3, <1>4, <1>5, <1>6, <1>7, <1>8, EvaluateGate
     DEF Next, Engine, Process

\* When nothing is under way every tag is up to date and its published slot
\* stands for it.
LEMMA Currency ==
  ASSUME WaveInv, ResultInv, GateInv
  PROVE  StoreIsCurrent
<1> SUFFICES ASSUME Settled, NEW t \in Tag
             PROVE  calc[t] = Computed(t, cache[t], calc) /\ Stands(t)
  BY DEF StoreIsCurrent
<1>1. t \notin wave
  BY DEF Settled, WaveInv
<1>2. ~InFlight(t)
  BY DEF Settled, InFlight
<1> QED
  BY <1>1, <1>2 DEF ResultInv, GateInv

\* The published store follows the raw cache: once every announcement has been
\* processed each tag shows what its formula yields now, up to its deadband,
\* through lost messages, writes that fall into a wave, marks and restarts.
THEOREM StoreCurrent == Spec => []StoreIsCurrent
<1> DEFINE Inv == OrderInv /\ ResultInv /\ GateInv
<1>1. Init => Inv
  BY OrderInit, ResultInit, GateInit
<1>2. (TypeOK /\ WaveInv) /\ Inv /\ [Next]_vars => Inv'
  BY NextOrder, NextResult, NextGate
<1>3. (TypeOK /\ WaveInv) /\ Inv => StoreIsCurrent
  BY Currency
<1> HIDE DEF Inv
<1> QED
  BY <1>1, <1>2, <1>3, Types, PTL DEF Spec

-----------------------------------------------------------------------------
(* What is announced *)

LEMMA NextAnnounce ==
  ASSUME TypeOK, WaveInv, AnnounceInv, [Next]_vars
  PROVE  AnnounceInv'
<1>1. ASSUME UNCHANGED outputVars PROVE AnnounceInv'
  BY <1>1 DEF AnnounceInv, outputVars
<1>2. CASE Pollers
  BY <1>1, <1>2 DEF Pollers, StartBatch, WriteSlot, SendBatch
<1>3. CASE Receive
  BY <1>1, <1>3 DEF Receive
<1>4. ASSUME NEW t \in todo, Freeze(t) PROVE AnnounceInv'
  BY <1>1, <1>4 DEF Freeze
<1>5. ASSUME NEW t \in todo, Evaluate(t) PROVE AnnounceInv'
  <2> DEFINE new == Computed(t, frozen[t], calc)
  <2>1. t \in Tag
    BY DEF TypeOK
  <2>2. unseen' = IF store'[t] = store[t] THEN unseen ELSE unseen \cup {t}
    BY <1>5 DEF Evaluate
  <2>3. ASSUME new.quality # "Good", MarkStore(t, new.quality)
        PROVE  AnnounceInv'
    <3>1. CASE store[t].quality = new.quality
      <4>1. store'[t] = store[t]
        BY <2>1, <2>3, <3>1 DEF MarkStore, TypeOK, Slot
      <4> QED
        BY <2>2, <2>3, <3>1, <4>1 DEF MarkStore, AnnounceInv
    <3>2. CASE store[t].quality # new.quality
      BY <2>2, <2>3, <3>2 DEF MarkStore, AnnounceInv
    <3> QED
      BY <3>1, <3>2
  <2>4. ASSUME UNCHANGED <<store, published, changed, disk>>
        PROVE  AnnounceInv'
    BY <2>2, <2>4 DEF AnnounceInv
  <2>5. ASSUME Publish(t, new.value) PROVE AnnounceInv'
    BY <2>2, <2>5 DEF AnnounceInv, Publish
  <2> QED
    BY <1>5, <2>3, <2>4, <2>5, EvaluateCases
<1>6. CASE EndWave
  BY <1>6 DEF EndWave, AnnounceInv
<1>7. CASE Flush
  BY <1>1, <1>7 DEF Flush
<1>8. CASE Stop \/ Crash
  BY <1>8 DEF Stop, Crash, Restart, AnnounceInv
<1>9. CASE UNCHANGED vars
  BY <1>1, <1>9 DEF vars
<1> QED
  BY <1>2, <1>3, <1>4, <1>5, <1>6, <1>7, <1>8, <1>9 DEF Next, Engine, Process

\* Every change of the store, of value or quality, is in the batch that its
\* wave announces.
THEOREM AllAnnounced == Spec => []ChangesAnnounced
<1>1. Init => AnnounceInv
  BY DEF Init, AnnounceInv
<1>2. (TypeOK /\ WaveInv) /\ AnnounceInv /\ [Next]_vars => AnnounceInv'
  BY NextAnnounce
<1>3. (TypeOK /\ WaveInv) /\ AnnounceInv => ChangesAnnounced
  BY DEF TypeOK, WaveInv, AnnounceInv, ChangesAnnounced
<1> QED
  BY <1>1, <1>2, <1>3, Types, PTL DEF Spec

-----------------------------------------------------------------------------
(* Live and restored values *)

LEMMA NextLive ==
  ASSUME TypeOK, WaveInv, LiveInv, GoodIsLive, [Next]_vars
  PROVE  LiveInv' /\ GoodIsLive'
<1> USE TagAssumption
<1>1. ASSUME UNCHANGED <<cache, outputVars>>,
             \A t \in Tag : frozen'[t] \in {frozen[t], cache[t], NeverRead}
      PROVE  LiveInv' /\ GoodIsLive'
  BY <1>1 DEF LiveInv, GoodIsLive, outputVars, NeverRead
<1>2. ASSUME NEW c \in Channel, NEW S, NEW q, StartBatch(c, S, q)
      PROVE  LiveInv' /\ GoodIsLive'
  BY <1>1, <1>2 DEF StartBatch, waveVars
<1>3. ASSUME NEW c \in Channel, NEW t \in batch[c].todo, NEW v \in Register[t],
             WriteSlot(c, t, v)
      PROVE  LiveInv' /\ GoodIsLive'
  <2>1. t \in Tag /\ v # Absent
    BY DEF TypeOK, Batch
  <2>2. UNCHANGED <<frozen, calc, store>>
    BY <1>3 DEF WriteSlot, waveVars, outputVars
  <2>3. \A u \in Tag : cache[u].value # Absent => cache'[u].value # Absent
    BY <1>3, <2>1 DEF WriteSlot, TypeOK
  <2>4. \A u \in Tag : cache'[u].quality = "Good" => cache'[u].value # Absent
    BY <1>3, <2>1 DEF WriteSlot, TypeOK, LiveInv
  <2> QED
    BY <2>2, <2>3, <2>4 DEF LiveInv, GoodIsLive
<1>4. ASSUME NEW c \in Channel, SendBatch(c) PROVE LiveInv' /\ GoodIsLive'
  BY <1>1, <1>4 DEF SendBatch, waveVars
<1>5. CASE Receive
  BY <1>1, <1>5 DEF Receive
<1>6. ASSUME NEW t \in todo, Freeze(t) PROVE LiveInv' /\ GoodIsLive'
  BY <1>1, <1>6 DEF Freeze, TypeOK, inputVars
<1>7. ASSUME NEW t \in todo, Evaluate(t) PROVE LiveInv' /\ GoodIsLive'
  <2> DEFINE new == Computed(t, frozen[t], calc)
  <2>1. t \in Tag /\ frozen[t] \in Slot /\ calc \in [Tag -> Slot]
    BY DEF TypeOK
  <2>2. /\ new \in Slot
        /\ new.quality = "Good" =>
             /\ new.value \in Value
             /\ t \in UsesRaw => frozen[t].quality = "Good"
             /\ \A d \in Deps[t] : calc[d].quality = "Good"
    BY <2>1, ComputedType
  <2>3. new.value = calc[t].value \/ new.quality = "Good"
    BY DEF Computed
  <2>4. UNCHANGED <<cache, frozen>> /\ calc' = [calc EXCEPT ![t] = new]
    BY <1>7 DEF Evaluate, inputVars
  <2> HIDE DEF new
  <2>5. \A u \in Tag : /\ calc[u].value # Absent => calc'[u].value # Absent
                       /\ calc'[u].quality = "Good" => calc'[u].value # Absent
    BY <2>1, <2>2, <2>3, <2>4 DEF LiveInv
  <2>6. LiveInv'
    BY <2>4, <2>5 DEF LiveInv
  <2>7. \A u \in Tag : store'[u].quality = "Good" =>
          store[u].quality = "Good" \/ (u = t /\ new.quality = "Good")
    <3>1. CASE new.quality # "Good" /\ MarkStore(t, new.quality)
      BY <2>1, <3>1 DEF MarkStore, TypeOK, Slot
    <3>2. CASE UNCHANGED <<store, published, changed, disk>>
      BY <3>2
    <3>3. CASE new.quality = "Good" /\ Publish(t, new.value)
      BY <2>1, <3>3 DEF Publish, TypeOK
    <3> QED
      BY <1>7, <3>1, <3>2, <3>3, EvaluateCases DEF new
  <2>8. ASSUME NEW u \in Tag, store'[u].quality = "Good"
        PROVE  /\ u \in UsesRaw => cache'[u].value # Absent
               /\ \A d \in Deps[u] : calc'[d].value # Absent
    <3>1. \A d \in Deps[u] : d \in Tag
      OBVIOUS
    <3>2. CASE store[u].quality = "Good"
      BY <2>4, <2>5, <2>8, <3>1, <3>2 DEF GoodIsLive
    <3>3. CASE u = t /\ new.quality = "Good"
      BY <2>2, <2>4, <2>5, <3>1, <3>3 DEF LiveInv
    <3> QED
      BY <2>7, <2>8, <3>2, <3>3
  <2> QED
    BY <2>6, <2>8 DEF GoodIsLive
<1>8. CASE EndWave
  BY <1>8 DEF EndWave, inputVars, LiveInv, GoodIsLive, NeverRead
<1>9. CASE Flush
  BY <1>1, <1>9 DEF Flush, inputVars, waveVars
<1>10. ASSUME NEW saved, Restart(saved) PROVE LiveInv' /\ GoodIsLive'
  <2>1. \A t \in Tag : Restored(saved, t).quality # "Good"
    BY DEF Restored, NeverRead
  <2> QED
    BY <1>10, <2>1 DEF Restart, LiveInv, GoodIsLive, NeverRead
<1>11. CASE UNCHANGED vars
  BY <1>1, <1>11 DEF vars, inputVars, waveVars
<1> QED
  BY <1>2, <1>3, <1>4, <1>5, <1>6, <1>7, <1>8, <1>9, <1>10, <1>11
     DEF Next, Pollers, Engine, Process, Stop, Crash

\* No value restored from the database is shown Good or enters a value that
\* is, before its register was read.
THEOREM GoodLive == Spec => []GoodIsLive
<1>1. Init => LiveInv /\ GoodIsLive
  BY DEF Init, LiveInv, GoodIsLive, NeverRead
<1>2. (TypeOK /\ WaveInv) /\ (LiveInv /\ GoodIsLive) /\ [Next]_vars
        => (LiveInv /\ GoodIsLive)'
  BY NextLive
<1> QED
  BY <1>1, <1>2, Types, PTL DEF Spec

LEMMA NextDisk ==
  ASSUME TypeOK, DiskInv, [Next]_vars
  PROVE  DiskInv'
<1> USE TagAssumption
<1>1. ASSUME UNCHANGED <<disk, store>> PROVE DiskInv'
  BY <1>1 DEF DiskInv
<1>2. CASE Pollers
  BY <1>1, <1>2 DEF Pollers, StartBatch, WriteSlot, SendBatch, outputVars, diskVars
<1>3. CASE Receive \/ EndWave \/ Flush \/ UNCHANGED vars
  BY <1>1, <1>3 DEF Receive, EndWave, Flush, vars, outputVars, diskVars
<1>4. ASSUME NEW t \in todo, Freeze(t) PROVE DiskInv'
  BY <1>1, <1>4 DEF Freeze, outputVars, diskVars
<1>5. ASSUME NEW t \in todo, Evaluate(t) PROVE DiskInv'
  <2> DEFINE new == Computed(t, frozen[t], calc)
  <2>1. t \in Tag
    BY DEF TypeOK
  <2> HIDE DEF new
  <2>2. CASE new.quality # "Good" /\ MarkStore(t, new.quality)
    BY <2>1, <2>2 DEF MarkStore, DiskInv, TypeOK, Slot
  <2>3. CASE UNCHANGED <<store, published, changed, disk>>
    BY <1>1, <2>3
  <2>4. CASE new.quality = "Good" /\ Publish(t, new.value)
    BY <2>1, <2>4 DEF Publish, DiskInv, TypeOK
  <2> QED
    BY <1>5, <2>2, <2>3, <2>4, EvaluateCases DEF new
<1>6. ASSUME NEW saved, Restart(saved) PROVE DiskInv'
  BY <1>6 DEF Restart, DiskInv, Restored, NeverRead
<1> QED
  BY <1>2, <1>3, <1>4, <1>5, <1>6 DEF Next, Engine, Process, Stop, Crash

\* A clean stop and start loses no retentive value: the database was told of
\* all of them, whatever the deadband hid and however qualities changed.
THEOREM StopKeeps == Spec => StopKeepsValues
<1>1. Init => DiskInv
  BY TagAssumption DEF Init, DiskInv, NeverRead
<1>2. (TypeOK /\ WaveInv) /\ DiskInv /\ [Next]_vars => DiskInv'
  BY NextDisk
<1>3. DiskInv => [Stop => \A t \in Retentive :
                            store'[t].value = store[t].value]_vars
  <2>1. ASSUME DiskInv, Stop, NEW t \in Retentive
        PROVE  store'[t].value = store[t].value
    BY <2>1, TagAssumption DEF Stop, Restart, DiskInv, Restored, NeverRead
  <2> QED
    BY <2>1
<1> QED
  BY <1>1, <1>2, <1>3, Types, PTL DEF Spec, StopKeepsValues
=============================================================================
