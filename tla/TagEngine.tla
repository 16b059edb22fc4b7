------------------------------ MODULE TagEngine ------------------------------
(***************************************************************************)
(* The tag engine of tags-core between the pollers' raw cache and the      *)
(* typed store: channel tasks write batches of raw slots and announce them *)
(* on a lossy broadcast ring; the engine freezes the raw inputs of every   *)
(* affected tag, evaluates decode and formula along the dependencies,      *)
(* gates values by deadband, publishes to the store and saves retentive    *)
(* values to disk; the process may stop or crash and start again.          *)
(*                                                                         *)
(* A value is the number a formula yields or a register holds.  Time       *)
(* stamps, sequence numbers, text values and the history ring are left     *)
(* out.                                                                    *)
(***************************************************************************)
EXTENDS Integers, Sequences, FiniteSets

CONSTANTS
  Tag,          \* the tags; each has a raw slot and a typed slot
  Channel,      \* channel tasks that write the raw cache
  Lists,        \* [Channel -> SUBSET SUBSET Tag], tag lists a channel announces
  Marks,        \* qualities a channel may mark a list with
  Value,        \* what registers hold and formulas yield
  Register,     \* [Tag -> SUBSET Value], what a tag's register may hold
  Absent,       \* never read
  Failed,       \* decode or formula error, or a result that is not finite
  Deps,         \* [Tag -> SUBSET Tag], the tags a formula refers to
  UsesRaw,      \* tags whose transform reads their own register
  Eval(_, _, _),\* Eval(t, raw value, values of Deps[t]): decode and transform
  Deadband,     \* [Tag -> Nat], 0 for none
  Retentive,    \* tags whose value survives a restart
  Capacity      \* of the broadcast ring (256 in the code)

ASSUME TagAssumption ==
  /\ Value \subseteq Int /\ Absent \notin Value /\ Failed \notin Value
  /\ Deps \in [Tag -> SUBSET Tag] /\ Register \in [Tag -> SUBSET Value]
  /\ Lists \in [Channel -> SUBSET SUBSET Tag]
  /\ UsesRaw \subseteq Tag /\ Retentive \subseteq Tag
  /\ Deadband \in [Tag -> Nat]
  /\ Marks \subseteq {"Uncertain", "Bad"}
  /\ Capacity \in Nat \ {0}

\* DependencyGraph::build rejects cycles.
ASSUME AcyclicAssumption ==
  \A S \in SUBSET Tag : S # {} => \E t \in S : Deps[t] \cap S = {}

ASSUME EvalAssumption ==
  \A t \in Tag, raw \in Value \cup {Absent} :
    \A inputs \in [Deps[t] -> Value \cup {Absent}] :
      Eval(t, raw, inputs) \in Value \cup {Failed}

VARIABLES
  cache,      \* the raw slots
  batch,      \* [Channel -> the batch it is writing]
  raw,        \* the engine's end of the broadcast ring
  phase,      \* the engine: "recv", "freeze" or "eval"
  wave,       \* tags affected by what is being processed
  todo,       \* tags of the wave still to freeze or to evaluate
  frozen,     \* the raw inputs of the wave
  calc,       \* `calculated`: results before the deadband
  store,      \* the typed store: what is published
  published,  \* last_published
  changed,    \* tags of the store to announce at the end of the wave
  unseen,     \* history: tags that differ from what was announced last
  disk,       \* retentive values handed to the database
  durable     \* of these, what a crash leaves

inputVars  == <<cache, batch, raw>>
waveVars   == <<phase, wave, todo, frozen>>
outputVars == <<calc, store, published, changed, unseen>>
diskVars   == <<disk, durable>>
vars == <<inputVars, waveVars, outputVars, diskVars>>

-----------------------------------------------------------------------------
(* Slots, batches and the broadcast ring *)

Quality == {"Good", "Uncertain", "Bad"}
Content == Value \cup {Absent}
Slot    == [value : Content, quality : Quality]
Batch   == [tags : SUBSET Tag, todo : SUBSET Tag, quality : Quality]

NeverRead == [value |-> Absent, quality |-> "Bad"]
NoBatch   == [tags |-> {}, todo |-> {}, quality |-> "Good"]
Nothing   == [lagged |-> FALSE, pending |-> <<>>]

Worst(Q) == IF "Bad" \in Q THEN "Bad"
            ELSE IF "Uncertain" \in Q THEN "Uncertain" ELSE "Good"

\* A message pushed out of the ring before it was received leaves the
\* receiver lagged; it goes on with the oldest message still there.
Send(ring, S) ==
  IF Len(ring.pending) < Capacity
  THEN [ring EXCEPT !.pending = Append(@, S)]
  ELSE [lagged |-> TRUE, pending |-> Append(Tail(ring.pending), S)]

\* The tags whose result depends on a tag of S: S closed under dependents.
Closed(C)   == \A t \in Tag : Deps[t] \cap C # {} => t \in C
Affected(S) == {t \in Tag : \A C \in SUBSET Tag : S \subseteq C /\ Closed(C)
                                                     => t \in C}

-----------------------------------------------------------------------------
(* Channel tasks *)

\* A publish (quality Good) or a sweep or degradation of a list of tags.
StartBatch(c, S, q) ==
  /\ batch[c].tags = {} /\ S # {}
  /\ batch' = [batch EXCEPT ![c] = [tags |-> S, todo |-> S, quality |-> q]]
  /\ UNCHANGED <<cache, raw, waveVars, outputVars, diskVars>>

\* Slots are locked one at a time; a mark keeps the last value.
WriteSlot(c, t, v) ==
  /\ t \in batch[c].todo
  /\ cache' = [cache EXCEPT ![t] =
       [value   |-> IF batch[c].quality = "Good" THEN v ELSE cache[t].value,
        quality |-> batch[c].quality]]
  /\ batch' = [batch EXCEPT ![c].todo = @ \ {t}]
  /\ UNCHANGED <<raw, waveVars, outputVars, diskVars>>

SendBatch(c) ==
  /\ batch[c].tags # {} /\ batch[c].todo = {}
  /\ raw' = Send(raw, batch[c].tags)
  /\ batch' = [batch EXCEPT ![c] = NoBatch]
  /\ UNCHANGED <<cache, waveVars, outputVars, diskVars>>

-----------------------------------------------------------------------------
(* The engine *)

\* Mutant of Receive: a lagged receiver just goes on.
ReceiveNoResync ==
  /\ phase = "recv"
  /\ raw.lagged \/ raw.pending # <<>>
  /\ IF raw.lagged THEN /\ raw' = [raw EXCEPT !.lagged = FALSE]
                        /\ UNCHANGED waveVars
     ELSE /\ raw' = [raw EXCEPT !.pending = Tail(@)]
          /\ wave' = Affected(Head(raw.pending))
          /\ phase' = "freeze" /\ todo' = wave'
          /\ UNCHANGED frozen
  /\ UNCHANGED <<cache, batch, outputVars, diskVars>>

\* One message, or after a lag everything.
Receive ==
  /\ phase = "recv"
  /\ raw.lagged \/ raw.pending # <<>>
  /\ IF raw.lagged THEN /\ raw' = [raw EXCEPT !.lagged = FALSE]
                        /\ wave' = Tag
     ELSE /\ raw' = [raw EXCEPT !.pending = Tail(@)]
          /\ wave' = Affected(Head(raw.pending))
  /\ phase' = "freeze" /\ todo' = wave'
  /\ UNCHANGED <<cache, batch, frozen, outputVars, diskVars>>

\* The raw inputs are frozen slot by slot, then evaluated.
Freeze(t) ==
  /\ phase = "freeze" /\ t \in todo
  /\ frozen' = [frozen EXCEPT ![t] = cache[t]]
  /\ IF todo = {t} THEN phase' = "eval" /\ todo' = wave
     ELSE phase' = phase /\ todo' = todo \ {t}
  /\ UNCHANGED <<wave, inputVars, outputVars, diskVars>>

\* What tag t computes to from the raw input r and the results c of its
\* dependencies: the worst quality of all inputs; only when that is Good a
\* value, and when that fails Bad.
Computed(t, r, c) ==
  LET own == IF t \in UsesRaw THEN r ELSE [value |-> Absent, quality |-> "Good"]
      q == Worst({own.quality} \cup {c[d].quality : d \in Deps[t]})
      v == Eval(t, own.value, [d \in Deps[t] |-> c[d].value])
  IN IF q = "Good" /\ v # Failed THEN [value |-> v, quality |-> "Good"]
     ELSE [value |-> c[t].value, quality |-> IF q = "Good" THEN "Bad" ELSE q]

Near(t, new, old) == new - old \in -(Deadband[t] - 1) .. (Deadband[t] - 1)

\* Mutant of Suppressed: compared with the last result, which lets the
\* published value drift.
SuppressedByLast(t, v) ==
  /\ store[t].quality = "Good" /\ calc[t].value # Absent
  /\ Near(t, v, calc[t].value)

\* The deadband hides a small change of a value that is shown Good.
Suppressed(t, v) ==
  /\ store[t].quality = "Good"
  /\ published[t] # Absent
  /\ Near(t, v, published[t])

Publish(t, v) ==
  /\ store' = [store EXCEPT ![t] = [value |-> v, quality |-> "Good"]]
  /\ published' = [published EXCEPT ![t] = v]
  /\ changed' = changed \cup {t}
  /\ disk' = IF t \in Retentive THEN [disk EXCEPT ![t] = v] ELSE disk

\* Mutant of MarkStore: a change of quality is not announced.
MarkStoreSilently(t, q) ==
  /\ store' = [store EXCEPT ![t].quality = q]
  /\ UNCHANGED <<published, changed, disk>>

MarkStore(t, q) ==
  /\ store' = [store EXCEPT ![t].quality = q]
  /\ changed' = IF store[t].quality = q THEN changed ELSE changed \cup {t}
  /\ UNCHANGED <<published, disk>>

\* One tag of the loop over graph.order, which puts dependencies first.
Evaluate(t) ==
  LET new == Computed(t, frozen[t], calc)
  IN /\ phase = "eval" /\ t \in todo /\ Deps[t] \cap todo = {}
     /\ todo' = todo \ {t}
     /\ calc' = [calc EXCEPT ![t] = new]
     /\ IF new.quality # "Good" THEN MarkStore(t, new.quality)
        ELSE IF Suppressed(t, new.value)
        THEN UNCHANGED <<store, published, changed, disk>>
        ELSE Publish(t, new.value)
     /\ unseen' = IF store'[t] = store[t] THEN unseen ELSE unseen \cup {t}
     /\ UNCHANGED <<phase, wave, frozen, inputVars, durable>>

\* Mutant of EndWave: the list of changes is not started afresh.
EndWaveKept ==
  /\ phase = "eval" /\ todo = {}
  /\ phase' = "recv" /\ wave' = {} /\ todo' = {}
  /\ frozen' = [t \in Tag |-> NeverRead]
  /\ unseen' = unseen \ changed
  /\ UNCHANGED <<changed, inputVars, calc, store, published, diskVars>>

\* send_batch announces what changed; the inputs are dropped.
EndWave ==
  /\ phase = "eval" /\ todo = {}
  /\ phase' = "recv" /\ wave' = {} /\ todo' = {}
  /\ frozen' = [t \in Tag |-> NeverRead]
  /\ unseen' = unseen \ changed /\ changed' = {}
  /\ UNCHANGED <<inputVars, calc, store, published, diskVars>>

-----------------------------------------------------------------------------
(* The database and restarts *)

\* sled flushes in the background.
Flush ==
  /\ durable # disk
  /\ durable' = disk
  /\ UNCHANGED <<inputVars, waveVars, outputVars, disk>>

\* Mutant of Restored: a restored value passes for a fresh one.
RestoredGood(saved, t) ==
  IF t \in Retentive /\ saved[t] # Absent
  THEN [value |-> saved[t], quality |-> "Good"] ELSE NeverRead

Restored(saved, t) ==
  IF t \in Retentive /\ saved[t] # Absent
  THEN [value |-> saved[t], quality |-> "Uncertain"] ELSE NeverRead

\* TagEngine::new with this database, then the start of run: the engine
\* subscribes, restores and begins with a pass over every tag.
Restart(saved) ==
  /\ cache' = [t \in Tag |-> NeverRead]
  /\ batch' = [c \in Channel |-> NoBatch]
  /\ raw' = Nothing
  /\ phase' = "freeze" /\ wave' = Tag /\ todo' = Tag
  /\ frozen' = [t \in Tag |-> NeverRead]
  /\ calc' = [t \in Tag |-> NeverRead]
  /\ store' = [t \in Tag |-> Restored(saved, t)]
  /\ published' = [t \in Tag |-> store'[t].value]
  /\ changed' = {} /\ unseen' = {}
  /\ disk' = saved /\ durable' = saved

\* Mutant of Stop: the database is not flushed on the way out.
StopUnflushed == phase = "recv" /\ Restart(durable)

\* Shutdown is observed between messages and flushes the database.
Stop == phase = "recv" /\ Restart(disk)

Crash == Restart(durable)

-----------------------------------------------------------------------------
(* Specification *)

Init ==
  /\ cache = [t \in Tag |-> NeverRead]
  /\ batch = [c \in Channel |-> NoBatch]
  /\ raw = Nothing
  /\ phase = "freeze" /\ wave = Tag /\ todo = Tag
  /\ frozen = [t \in Tag |-> NeverRead]
  /\ calc = [t \in Tag |-> NeverRead] /\ store = [t \in Tag |-> NeverRead]
  /\ published = [t \in Tag |-> Absent]
  /\ changed = {} /\ unseen = {}
  /\ disk = [t \in Tag |-> Absent] /\ durable = disk

Pollers ==
  \E c \in Channel :
    \/ \E S \in Lists[c], q \in {"Good"} \cup Marks : StartBatch(c, S, q)
    \/ \E t \in batch[c].todo : \E v \in Register[t] : WriteSlot(c, t, v)
    \/ SendBatch(c)

Engine == Receive \/ EndWave \/ \E t \in todo : Freeze(t) \/ Evaluate(t)

Process == Flush \/ Stop \/ Crash

Next == Pollers \/ Engine \/ Process

Spec == Init /\ [][Next]_vars

-----------------------------------------------------------------------------
(* Properties *)

\* Every variable has its type.
TypeOK ==
  /\ cache \in [Tag -> Slot] /\ batch \in [Channel -> Batch]
  /\ raw \in [lagged : BOOLEAN, pending : Seq(SUBSET Tag)]
  /\ phase \in {"recv", "freeze", "eval"}
  /\ wave \subseteq Tag /\ todo \subseteq wave /\ frozen \in [Tag -> Slot]
  /\ calc \in [Tag -> Slot] /\ store \in [Tag -> Slot]
  /\ published \in [Tag -> Content]
  /\ changed \subseteq wave /\ unseen \subseteq Tag
  /\ disk \in [Tag -> Content] /\ durable \in [Tag -> Content]

\* The published slot stands for the result: same quality, and while Good a
\* value less than the deadband away.
Stands(t) ==
  /\ store[t].quality = calc[t].quality
  /\ calc[t].quality = "Good" =>
       store[t].value = calc[t].value \/ Near(t, calc[t].value, store[t].value)

Settled == /\ phase = "recv" /\ ~raw.lagged /\ raw.pending = <<>>
           /\ \A c \in Channel : batch[c].tags = {}

\* When nothing is under way the store is what the raw cache computes to, for
\* formulas of formulas too, whatever messages the ring has dropped and
\* however writes fell between the freezing of two inputs.
StoreIsCurrent ==
  Settled => \A t \in Tag : calc[t] = Computed(t, cache[t], calc) /\ Stands(t)

\* Between waves every change of the store has been announced.
ChangesAnnounced == phase = "recv" => unseen = {}

\* A clean stop and start shows every retentive value where it was left.
StopKeepsValues ==
  [][Stop => \A t \in Retentive : store'[t].value = store[t].value]_vars

\* A Good value was read from devices by this process: no restored value
\* makes a tag or a tag computed from it Good.
GoodIsLive ==
  \A t \in Tag : store[t].quality = "Good" =>
    /\ t \in UsesRaw => cache[t].value # Absent
    /\ \A d \in Deps[t] : calc[d].value # Absent

\* A restored value is shown Uncertain until its tag has been polled.
RestoredIsUncertain ==
  \A t \in Retentive \cap UsesRaw :
    cache[t].value = Absent /\ store[t].value # Absent
      => store[t].quality = "Uncertain"
=============================================================================
