-------------------------- MODULE GenerationsProofs --------------------------
(***************************************************************************)
(* Proofs about Generations, for every set of registers and writes, every  *)
(* set of configurations and every number of edits and readings.           *)
(***************************************************************************)
EXTENDS Generations, TLAPS

-----------------------------------------------------------------------------
(* The inductive invariants *)

\* A new generation is prepared next to the active one.
Ahead == stage \in {"pause", "engine", "poller", "swap"}

\* A reload takes an edit that the watcher has not loaded: generations are
\* never more than edits allow.
EditInv ==
  /\ seen # Torn
  /\ rev + (IF Ahead THEN 1 ELSE 0) + (IF file # seen THEN 1 ELSE 0) <= edits + 2
  /\ Ahead => next \in Config

\* Who works on which store: the engine on that of the active generation, a
\* poller that was kept on the cache that the active generation has taken over.
CacheInv ==
  /\ cacheOf[rev] <= rev
  /\ poller <= rev /\ (poller # 0 => cacheOf[poller] = cacheOf[rev])
  /\ engine \in {0, rev}
  /\ stage \in {"poller", "swap"} => engine = 0
  /\ Ahead => cacheOf[rev + 1] = IF PollingChanged(cfg, next) THEN rev + 1
                                 ELSE cacheOf[rev]

\* The store of a generation that is yet to come is empty.
FutureInv ==
  \A g \in Generation : g > rev /\ (Ahead => g # rev + 1) => raw[g] = Cleared

\* The raw values of the active generation, and those taken over into the next
\* one, are acquired the way their registers say.
RawInv ==
  /\ \A t \in Tag : raw[cacheOf[rev]][t] # None =>
       t \in Regs(cfg) /\ raw[cacheOf[rev]][t].source = Cfg[cfg].regs[t].source
  /\ Ahead /\ PollingChanged(cfg, next) =>
       \A t \in Tag : raw[rev + 1][t] # None =>
         /\ SameSource(cfg, next, t)
         /\ raw[rev + 1][t].source = Cfg[next].regs[t].source

\* The same of typed values; there is none without a reading that it stems from.
TypedInv ==
  /\ \A t \in Tag : typed[rev][t] # None =>
       /\ t \in Regs(cfg) /\ typed[rev][t].recipe = Cfg[cfg].regs[t]
       /\ raw[cacheOf[rev]][t] # None
  /\ Ahead => \A t \in Tag : typed[rev + 1][t] # None =>
       /\ SameRecipe(cfg, next, t) /\ typed[rev + 1][t].recipe = Cfg[next].regs[t]
       /\ raw[cacheOf[rev]][t] # None

\* What the engine has to process are registers of its configuration; the rest
\* of its store is what the raw values make it.
NewsInv ==
  /\ news[rev] \subseteq Regs(cfg)
  /\ Ahead => news[rev + 1] \subseteq Regs(next)
  /\ \A t \in Regs(cfg) \ news[rev] :
       typed[rev][t] = Computed(cfg, t, raw[cacheOf[rev]][t], None)

\* Before the new generation starts nothing is kept on disk that it could not
\* have made.
DiskInv ==
  /\ \A t \in Tag : disk[t] # None =>
       t \in Regs(cfg) /\ disk[t].recipe = Cfg[cfg].regs[t]
  /\ stage \in {"poller", "swap"} =>
       \A t \in Tag : disk[t] # None => SameRecipe(cfg, next, t)

\* Outside a commit a pump pushes the active store into the address space of
\* the active configuration, and knows which nodes are behind.
NodeInv ==
  /\ stage \in {"boot", "opcua"} => ~pump.alive /\ ~pump.rebuilt
  /\ pump.alive /\ stage # "commit" =>
       /\ pump.gen = rev /\ ~pump.rebuilt
       /\ \A t \in Tag : nodes[t] = NoNode <=> t \notin Regs(cfg)
       /\ \A t \in Regs(cfg) : nodes[t] # None => nodes[t].recipe = Cfg[cfg].regs[t]
       /\ \A t \in Regs(cfg) :
            ~pump.lagged /\ t \notin pump.tags \cup missed => nodes[t] = typed[rev][t]

\* The plans in force are those of the active generation, and nobody uses them
\* while it is replaced.
PlansInv ==
  /\ plans \in {0, rev}
  /\ stage \in {"boot", "opcua", "engine", "poller", "swap", "commit"} =>
       plans = 0 /\ Readers = {}
  /\ \A w \in Readers : made[w] = rev
  /\ \A w \in Write : cmd[w] = "queued" /\ w \notin late => wr[w] = "waiting"
  /\ misdirected = {}

\* What has become of a write: where its callback is, its command and the device.
ToldInv ==
  \A w \in Write :
    /\ wr[w] \in {"idle", "asking", "sending"} => cmd[w] = "none" /\ result[w] = "none"
    /\ cmd[w] = "acked" => w \in applied
    /\ cmd[w] \in {"none", "queued", "service", "failed", "dropped"} => w \notin applied
    /\ result[w] = "Good" => cmd[w] = "acked"
    /\ result[w] = "BadDeviceFailure" => cmd[w] = "failed"
    /\ result[w] \in {"BadNoCommunication", "BadNotWritable", "BadInput"} =>
         wr[w] = "done" /\ cmd[w] \in {"none", "dropped"}

\* All of them.
IInv ==
  /\ TypeOK /\ EditInv /\ CacheInv /\ FutureInv /\ RawInv /\ TypedInv /\ NewsInv
  /\ DiskInv /\ NodeInv /\ PlansInv /\ ToldInv

-----------------------------------------------------------------------------
(* Values and stores *)

\* A configuration has a recipe for each of its registers.
LEMMA ConfigFacts ==
  ASSUME NEW c \in Config
  PROVE  /\ Regs(c) \subseteq Tag
         /\ \A t \in Regs(c) : /\ Cfg[c].regs[t] \in Recipe
                               /\ Cfg[c].regs[t].source \in Nat
                               /\ Cfg[c].regs[t].transform \in Nat
BY ConfigAssumption DEF Regs, Recipe

\* No value can be taken for the lack of one, or for a node that is missing.
LEMMA ValueFacts ==
  /\ \A v \in Raw : v # None /\ v.source \in Nat /\ v.ver \in 0 .. MaxPlant
  /\ \A v \in Typed : v # NoNode /\ v.recipe \in Recipe
  /\ None # NoNode
<1>1. Raw \subseteq [source : Nat, ver : Nat]
  BY ConfigAssumption DEF Raw
<1>2. Typed \subseteq [recipe : Recipe, ver : Nat]
  BY ConfigAssumption DEF Typed
<1> QED
  BY <1>1, <1>2, ConfigAssumption DEF Raw, Typed

\* What is computed from a reading depends on nothing else.
LEMMA ComputedFacts ==
  ASSUME NEW c \in Config, NEW t \in Regs(c), NEW slot \in Raw \cup {None},
         NEW old \in Typed \cup {None}
  PROVE  /\ Computed(c, t, slot, old) \in Typed \cup {None}
         /\ slot = None => Computed(c, t, slot, old) = old
         /\ slot # None => /\ Computed(c, t, slot, old) = Computed(c, t, slot, None)
                           /\ Computed(c, t, slot, old).recipe.source = slot.source
                           /\ Computed(c, t, slot, old).recipe =
                                [source |-> slot.source,
                                 transform |-> Cfg[c].regs[t].transform]
<1>1. CASE slot = None
  BY <1>1 DEF Computed
<1>2. CASE slot # None
  <2> DEFINE r == [source |-> slot.source, transform |-> Cfg[c].regs[t].transform]
  <2>1. slot \in Raw /\ slot.source \in Nat /\ slot.ver \in 0 .. MaxPlant
    BY <1>2, ValueFacts
  <2>2. r \in Recipe
    BY <2>1, ConfigFacts DEF Recipe
  <2>3. /\ Computed(c, t, slot, old) = [recipe |-> r, ver |-> slot.ver]
        /\ Computed(c, t, slot, None) = [recipe |-> r, ver |-> slot.ver]
    BY <1>2 DEF Computed
  <2>4. r.source = slot.source
    OBVIOUS
  <2> HIDE DEF r
  <2>5. [recipe |-> r, ver |-> slot.ver] \in Typed
    BY <2>1, <2>2 DEF Typed
  <2>6. [recipe |-> r, ver |-> slot.ver].recipe = r
    OBVIOUS
  <2> QED
    BY <1>2, <2>3, <2>4, <2>5, <2>6 DEF r
<1> QED
  BY <1>1, <1>2

LEMMA RecipeBySource ==
  ASSUME NEW c \in Config, NEW t \in Regs(c), NEW slot \in Raw,
         NEW old \in Typed \cup {None}, slot.source = Cfg[c].regs[t].source
  PROVE  Computed(c, t, slot, old).recipe = Cfg[c].regs[t]
<1>1. Cfg[c].regs[t] \in Recipe
  BY ConfigFacts
<1>2. Cfg[c].regs[t] = [source |-> Cfg[c].regs[t].source,
                        transform |-> Cfg[c].regs[t].transform]
  BY <1>1 DEF Recipe
<1> QED
  BY <1>2, ComputedFacts, ValueFacts

LEMMA SeededFacts ==
  ASSUME NEW V, NEW S, NEW old \in [Tag -> V], NEW slots \in [Tag -> V]
  PROVE  /\ Seeded(S, old, slots) \in [Tag -> V]
         /\ \A t \in Tag : Seeded(S, old, slots)[t] =
                             IF t \in S /\ old[t] # None THEN old[t] ELSE slots[t]
BY DEF Seeded

\* The types of the two stores.
RawStore   == [Tag -> Raw \cup {None}]
TypedStore == [Tag -> Typed \cup {None}]

LEMMA ClearedType == Cleared \in RawStore /\ Cleared \in TypedStore
BY DEF Cleared, RawStore, TypedStore

\* One field of the pump's record is assigned.
LEMMA PumpFields ==
  ASSUME NEW r \in PumpState
  PROVE  /\ \A v \in BOOLEAN : /\ [r EXCEPT !.alive = v] \in PumpState
                               /\ [r EXCEPT !.listens = v] \in PumpState
                               /\ [r EXCEPT !.rebuilt = v] \in PumpState
                               /\ [r EXCEPT !.lagged = v] \in PumpState
         /\ \A v \in Generation : [r EXCEPT !.gen = v] \in PumpState
         /\ \A v \in SUBSET Tag : [r EXCEPT !.tags = v] \in PumpState
BY DEF PumpState

\* The address space of a configuration, empty and with a store's values.
LEMMA BuiltType ==
  ASSUME TypeOK, NEW c \in Config, NEW g \in Generation
  PROVE  /\ Built(c) \in [Tag -> Typed \cup {None, NoNode}]
         /\ BuiltFrom(c, g) \in [Tag -> Typed \cup {None, NoNode}]
BY DEF TypeOK, Built, BuiltFrom

LEMMA PushedType ==
  ASSUME TypeOK, NEW S
  PROVE  Pushed(S) \in [Tag -> Typed \cup {None, NoNode}]
<1>1. pump.gen \in Generation
  BY DEF TypeOK, PumpState
<1> QED
  BY <1>1 DEF TypeOK, Pushed

\* There is room for one more generation while a reload is under way, or due.
LEMMA Room ==
  ASSUME TypeOK, EditInv, Ahead \/ file # seen
  PROVE  rev + 1 \in Generation /\ rev \in Generation
<1>1. rev + 1 <= edits + 2
  BY DEF EditInv, TypeOK, Generation
<1>2. edits <= MaxEdits /\ edits \in Nat /\ MaxEdits \in Nat /\ rev \in Nat \ {0}
  BY ConfigAssumption DEF TypeOK, Generation
<1> QED
  BY <1>1, <1>2 DEF Generation, TypeOK

-----------------------------------------------------------------------------
(* Types *)

LEMMA TypeInit == Init => TypeOK
<1> SUFFICES ASSUME Init PROVE TypeOK
  OBVIOUS
<1>1. /\ file \in Config /\ target \in Config /\ cfg \in Config /\ rev \in Generation
      /\ edits \in 0 .. MaxEdits /\ stage \in Stage
  BY ConfigAssumption DEF Init, Generation, Stage
<1>2. /\ raw \in [Generation -> [Tag -> Raw \cup {None}]]
      /\ typed \in [Generation -> [Tag -> Typed \cup {None}]]
  BY ClearedType DEF Init, RawStore, TypedStore
<1>3. pump \in PumpState
  <2> DEFINE f == FALSE
  <2>1. f \in BOOLEAN /\ 1 \in Generation
    BY <1>1 DEF Init
  <2>2. pump = [alive |-> f, gen |-> 1, listens |-> f, rebuilt |-> f,
                lagged |-> f, tags |-> {}]
    BY DEF Init
  <2> HIDE DEF f
  <2> QED
    BY <2>1, <2>2 DEF PumpState
<1>4. plant \in [Tag -> 0 .. MaxPlant] /\ made \in [Write -> Generation]
  BY <1>1, ConfigAssumption DEF Init
<1> QED
  BY <1>1, <1>2, <1>3, <1>4 DEF Init, TypeOK

\* The engine makes a typed value of the register it processes.
LEMMA EngineType ==
  ASSUME TypeOK, CacheInv, NewsInv, NEW t \in Tag, EngineStep(t)
  PROVE  /\ engine = rev /\ engine \in Generation /\ t \in Regs(cfg)
         /\ Computed(cfg, t, raw[cacheOf[rev]][t], typed[rev][t]) \in Typed \cup {None}
         /\ typed' = [typed EXCEPT ![rev][t] =
                        Computed(cfg, t, raw[cacheOf[rev]][t], typed[rev][t])]
         /\ disk' = [disk EXCEPT ![t] =
                       Computed(cfg, t, raw[cacheOf[rev]][t], typed[rev][t])]
         /\ news' = [news EXCEPT ![rev] = @ \ {t}] /\ Announce(rev, t)
<1>1. engine = rev /\ engine \in Generation
  BY DEF EngineStep, CacheInv, TypeOK
<1>2. t \in Regs(cfg)
  BY <1>1 DEF EngineStep, NewsInv
<1>3. raw[cacheOf[rev]][t] \in Raw \cup {None} /\ typed[rev][t] \in Typed \cup {None}
  BY <1>1 DEF TypeOK
<1>4. cfg \in Config
  BY DEF TypeOK
<1> QED
  BY <1>1, <1>2, <1>3, <1>4, ComputedFacts DEF EngineStep

\* A reading of the running poller.
LEMMA PollType ==
  ASSUME TypeOK, CacheInv, NEW t \in Tag, Poll(t)
  PROVE  LET k    == cacheOf[rev]
             slot == [source |-> Cfg[cfg].regs[t].source, ver |-> plant[t]]
         IN /\ k \in Generation /\ slot \in Raw /\ t \in Regs(cfg)
            /\ slot.source = Cfg[cfg].regs[t].source
            /\ raw' = [raw EXCEPT ![k][t] = slot]
            /\ news' = [g \in Generation |->
                          IF cacheOf[g] = k THEN news[g] \cup {t} ELSE news[g]]
<1>1. cacheOf[poller] = cacheOf[rev] /\ cacheOf[rev] \in Generation
  BY DEF Poll, CacheInv, TypeOK
<1>2. cfg \in Config /\ t \in Regs(cfg) /\ plant[t] \in 0 .. MaxPlant
  BY DEF Poll, TypeOK
<1>3. Cfg[cfg].regs[t].source \in Nat
  BY <1>2, ConfigFacts
<1> QED
  BY <1>1, <1>2, <1>3 DEF Poll, Raw

\* What the watcher prepares.
LEMMA PreflightType ==
  ASSUME TypeOK, rev \in Generation, rev + 1 \in Generation, NEW c \in Config,
         Preflight(c)
  PROVE  /\ raw' \in [Generation -> RawStore] /\ typed' \in [Generation -> TypedStore]
         /\ cacheOf' \in [Generation -> Generation]
         /\ news' \in [Generation -> SUBSET Tag]
         /\ stage' \in Stage /\ next' \in Config /\ cfg' = cfg /\ rev' = rev
         /\ disk' = disk
<1>1. cacheOf[rev] \in Generation /\ raw \in [Generation -> RawStore]
  BY DEF TypeOK, RawStore
<1>2. \A S : Seeded(S, raw[cacheOf[rev]], raw[rev + 1]) \in RawStore
  BY <1>1, SeededFacts DEF RawStore
<1>3. typed[rev] \in TypedStore /\ Prepared \in TypedStore
  BY ClearedType DEF TypeOK, TypedStore, Prepared
<1>4. \A S : Seeded(S, typed[rev], Prepared) \in TypedStore
  BY <1>3, SeededFacts DEF TypedStore
<1>5. raw' \in [Generation -> RawStore]
  BY <1>1, <1>2 DEF Preflight
<1>6. typed' \in [Generation -> TypedStore]
  BY <1>4 DEF Preflight, TypeOK, TypedStore
<1> QED
  BY <1>1, <1>5, <1>6 DEF Preflight, TypeOK, Stage, Reloading

\* What a reload makes of the two snapshots of the old generation.
LEMMA FinalType ==
  ASSUME TypeOK, next \in Config, rev + 1 \in Generation
  PROVE  /\ FinalRaw \in RawStore /\ FinalTyped \in TypedStore
         /\ \A t \in Regs(next) :
              Computed(next, t, FinalRaw[t], FinalTyped[t]) \in Typed \cup {None}
         /\ \A t \in Tag : FinalTyped[t] =
              IF SameRecipe(cfg, next, t) /\ typed[rev][t] # None THEN typed[rev][t]
              ELSE typed[rev + 1][t]
         /\ \A t \in Tag : FinalRaw[t] =
              IF PollingChanged(cfg, next) /\ ~(SameSource(cfg, next, t) /\
                   raw[cacheOf[rev]][t] # None)
              THEN raw[rev + 1][t] ELSE raw[cacheOf[rev]][t]
<1>1. /\ rev \in Generation /\ raw[cacheOf[rev]] \in RawStore
      /\ raw[rev + 1] \in RawStore /\ typed[rev] \in TypedStore
      /\ typed[rev + 1] \in TypedStore
  BY DEF TypeOK, RawStore, TypedStore
<1>2. FinalTyped \in TypedStore
  BY <1>1, SeededFacts DEF FinalTyped, TypedStore
<1>3. \A t \in Tag : FinalTyped[t] =
        IF SameRecipe(cfg, next, t) /\ typed[rev][t] # None THEN typed[rev][t]
        ELSE typed[rev + 1][t]
  BY <1>1 DEF FinalTyped, Seeded
<1>4. FinalRaw \in RawStore
  BY <1>1, SeededFacts DEF FinalRaw, RawStore
<1>5. \A t \in Tag : FinalRaw[t] =
        IF PollingChanged(cfg, next) /\ ~(SameSource(cfg, next, t) /\
             raw[cacheOf[rev]][t] # None)
        THEN raw[rev + 1][t] ELSE raw[cacheOf[rev]][t]
  BY <1>1 DEF FinalRaw, Seeded
<1>6. ASSUME NEW t \in Regs(next)
      PROVE  Computed(next, t, FinalRaw[t], FinalTyped[t]) \in Typed \cup {None}
  <2>1. t \in Tag
    BY <1>6, ConfigFacts
  <2>2. FinalRaw[t] \in Raw \cup {None} /\ FinalTyped[t] \in Typed \cup {None}
    BY <1>2, <1>4, <2>1 DEF RawStore, TypedStore
  <2> QED
    BY <2>2, ComputedFacts
<1> QED
  BY <1>2, <1>3, <1>4, <1>5, <1>6

\* The raw store of Swap, and the typed one that is recomputed from it.
Refreshed == [t \in Tag |-> IF t \in Regs(next)
                            THEN Computed(next, t, FinalRaw[t], FinalTyped[t])
                            ELSE None]

LEMMA SwapType ==
  ASSUME TypeOK, EditInv, CacheInv, Swap
  PROVE  /\ next \in Config /\ rev \in Generation /\ rev + 1 \in Generation
         /\ rev' = rev + 1 /\ cfg' = next /\ stage' = "commit" /\ stage = "swap"
         /\ raw' = [raw EXCEPT ![cacheOf[rev + 1]] = FinalRaw]
         /\ typed' = [typed EXCEPT ![rev + 1] = Refreshed]
         /\ FinalRaw \in RawStore /\ Refreshed \in TypedStore
         /\ disk' = [t \in Tag |-> IF t \in Regs(next) /\ FinalRaw[t] # None
                                   THEN Refreshed[t] ELSE disk[t]]
         /\ engine' = rev + 1
         /\ poller' = IF PollingChanged(cfg, next) THEN rev + 1 ELSE poller
         /\ cacheOf' = cacheOf /\ news' = news /\ next' = next
<1>1. stage = "swap" /\ Ahead
  BY DEF Swap, Ahead
<1>2. next \in Config /\ rev \in Generation /\ rev + 1 \in Generation
  BY <1>1, Room DEF EditInv
<1>3. FinalRaw \in RawStore /\ Refreshed \in TypedStore
  BY <1>2, FinalType DEF Refreshed, TypedStore
<1>4. /\ rev' = rev + 1 /\ cfg' = next /\ stage' = "commit"
      /\ raw' = [raw EXCEPT ![cacheOf[rev + 1]] = FinalRaw]
      /\ typed' = [typed EXCEPT ![rev + 1] = Refreshed]
      /\ disk' = [t \in Tag |-> IF t \in Regs(next) /\ FinalRaw[t] # None
                                THEN Refreshed[t] ELSE disk[t]]
      /\ engine' = rev + 1
      /\ poller' = IF PollingChanged(cfg, next) THEN rev + 1 ELSE poller
      /\ cacheOf' = cacheOf /\ news' = news /\ next' = next
  BY DEF Swap, Refreshed
<1> QED
  BY <1>1, <1>2, <1>3, <1>4

\* The actions of the writes, whose records nobody else changes.
WriteSteps(w) ==
  Ask(w) \/ Enter(w) \/ Submit(w) \/ Deadline(w) \/ Take(w) \/ Answered(w) \/ Return(w)

\* What a command can be, and what becomes of those whose queue is failed.
Commands == [Write -> {"none", "queued", "service", "acked", "failed", "expired",
                       "dropped", "lost"}]

LEMMA FailPendingType ==
  ASSUME NEW c \in Commands
  PROVE  /\ FailPending(c) \in Commands
         /\ \A w \in Write :
              /\ FailPending(c)[w] # "queued"
              /\ c[w] = "queued" => FailPending(c)[w] = "dropped"
              /\ c[w] # "queued" => FailPending(c)[w] = c[w]
BY DEF FailPending, Commands

LEMMA WriteType ==
  ASSUME TypeOK, NEW w \in Write, WriteSteps(w)
  PROVE  /\ wr' \in [Write -> {"idle", "asking", "sending", "waiting", "done"}]
         /\ made' \in [Write -> Generation] /\ late' \in SUBSET Write
         /\ cmd' \in Commands
         /\ result' \in [Write -> {"none", "Good", "BadTimeout", "BadDeviceFailure",
                                   "BadNoCommunication", "BadNotWritable",
                                   "BadInput", "BadCommunicationError"}]
         /\ applied' \in SUBSET Write /\ misdirected' \in SUBSET Write
<1>1. CASE Ask(w) \/ Deadline(w)
  BY <1>1 DEF Ask, Deadline, TypeOK, Commands
<1>2. CASE Enter(w)
  BY <1>2 DEF Enter, TypeOK, Commands
<1>3. CASE Submit(w)
  BY <1>3 DEF Submit, TypeOK, Commands
<1>4. CASE Take(w) \/ Answered(w)
  <2>1. CASE Take(w)
    BY <2>1 DEF Take, TypeOK, Commands
  <2>2. CASE Answered(w)
    <3>1. applied' \in {applied, applied \cup {w}}
      BY <2>2 DEF Answered
    <3>2. PICK c \in {"acked", "failed", "expired", "lost"} :
            cmd' \in {[cmd EXCEPT ![w] = c], FailPending([cmd EXCEPT ![w] = c])}
      BY <2>2 DEF Answered
    <3>3. [cmd EXCEPT ![w] = c] \in Commands
      BY DEF TypeOK, Commands
    <3>4. cmd' \in Commands
      BY <3>2, <3>3, FailPendingType
    <3> QED
      BY <2>2, <3>1, <3>4 DEF Answered, TypeOK
  <2> QED
    BY <1>4, <2>1, <2>2
<1>5. CASE Return(w)
  <2>1. PICK r \in {"Good", "BadDeviceFailure", "BadTimeout", "BadNoCommunication",
                     "BadCommunicationError"} : result' = [result EXCEPT ![w] = r]
    BY <1>5 DEF Return, Status, TimedOut
  <2> QED
    BY <1>5, <2>1 DEF Return, TypeOK, Commands
<1> QED
  BY <1>1, <1>2, <1>3, <1>4, <1>5 DEF WriteSteps

LEMMA WriteStays ==
  ASSUME NEW w \in Write, WriteSteps(w)
  PROVE  UNCHANGED <<fileVars, watchVars, stackVars, storeVars, taskVars, pumpVars,
                     plans, plant>>
BY DEF WriteSteps, Ask, Enter, Submit, Deadline, Take, Answered, Return

\* What a batch announces to the pump.
LEMMA AnnounceType ==
  ASSUME TypeOK, NEW t \in Tag, NEW g, Announce(g, t)
  PROVE  pump' \in PumpState /\ missed' \in SUBSET Tag
<1>1. pump.tags \cup {t} \in SUBSET Tag /\ {t} \in SUBSET Tag /\ pump \in PumpState
  BY DEF TypeOK, PumpState
<1>2. CASE pump' = [pump EXCEPT !.tags = @ \cup {t}] /\ missed' = missed \ {t}
  <2>1. [pump EXCEPT !.tags = pump.tags \cup {t}] \in PumpState
    BY <1>1, PumpFields
  <2> QED
    BY <1>2, <2>1 DEF TypeOK
<1>3. CASE pump' = [pump EXCEPT !.lagged = TRUE, !.tags = {t}] /\ missed' = missed \ {t}
  <2> DEFINE b == TRUE
             r == [pump EXCEPT !.lagged = b]
  <2>1. b \in BOOLEAN
    OBVIOUS
  <2>2. pump' = [r EXCEPT !.tags = {t}]
    BY <1>3
  <2> HIDE DEF b
  <2>3. r \in PumpState
    BY <1>1, <2>1, PumpFields
  <2> HIDE DEF r
  <2>4. [r EXCEPT !.tags = {t}] \in PumpState
    BY <1>1, <2>3, PumpFields
  <2> QED
    BY <1>3, <2>2, <2>4 DEF TypeOK
<1>4. CASE UNCHANGED pump /\ missed' \in {missed, missed \cup {t}}
  BY <1>4 DEF TypeOK
<1> QED
  BY <1>2, <1>3, <1>4 DEF Announce

\* What the pump's own actions make of it.
LEMMA PumpType ==
  ASSUME TypeOK, PumpSubscribes \/ PumpBatch \/ PumpRebuild \/ PumpCommits \/ PumpDies
  PROVE  /\ pump' \in PumpState /\ nodes' \in [Tag -> Typed \cup {None, NoNode}]
         /\ missed' \in SUBSET Tag
<1> DEFINE no == FALSE
           yes == TRUE
<1>0. /\ pump \in PumpState /\ no \in BOOLEAN /\ yes \in BOOLEAN /\ cfg \in Config
      /\ rev \in Generation /\ {} \in SUBSET Tag
  BY DEF TypeOK
<1>1. CASE PumpSubscribes
  BY <1>0, <1>1, PumpFields DEF PumpSubscribes, TypeOK
<1>2. CASE PumpBatch
  <2>1. nodes' \in [Tag -> Typed \cup {None, NoNode}]
    BY <1>2, PushedType DEF PumpBatch
  <2>2. missed' \in {missed, {}}
    BY <1>2 DEF PumpBatch
  <2>3. CASE pump' = [pump EXCEPT !.lagged = FALSE]
    BY <1>0, <2>1, <2>2, <2>3, PumpFields DEF TypeOK
  <2>4. ASSUME NEW t \in pump.tags, pump' = [pump EXCEPT !.tags = @ \ {t}]
        PROVE  pump' \in PumpState
    <3>1. pump.tags \ {t} \in SUBSET Tag
      BY <1>0 DEF PumpState
    <3>2. [pump EXCEPT !.tags = pump.tags \ {t}] \in PumpState
      BY <1>0, <3>1, PumpFields
    <3> QED
      BY <2>4, <3>2
  <2> QED
    BY <1>2, <2>1, <2>2, <2>3, <2>4 DEF PumpBatch, TypeOK
<1>3. CASE PumpRebuild
  BY <1>0, <1>3, PumpFields, BuiltType DEF PumpRebuild, TypeOK
<1>4. CASE PumpCommits
  <2>1. nodes' \in [Tag -> Typed \cup {None, NoNode}] /\ missed' = {}
    BY <1>0, <1>4, BuiltType DEF PumpCommits
  <2> DEFINE r1 == [pump EXCEPT !.gen = rev]
             r2 == [r1 EXCEPT !.rebuilt = no]
             r3 == [r2 EXCEPT !.lagged = no]
             none == {}
  <2>2. pump' = [r3 EXCEPT !.tags = none]
    BY <1>4, Zenon DEF PumpCommits
  <2>3. r1 \in PumpState
    BY <1>0, PumpFields
  <2>4. none \in SUBSET Tag
    OBVIOUS
  <2> HIDE DEF no, yes, r1, none
  <2>5. r2 \in PumpState
    BY <1>0, <2>3, PumpFields
  <2> HIDE DEF r2
  <2>6. r3 \in PumpState
    BY <1>0, <2>5, PumpFields
  <2> HIDE DEF r3
  <2> QED
    BY <2>1, <2>2, <2>4, <2>6, PumpFields
<1>5. CASE PumpDies
  <2> DEFINE r == [pump EXCEPT !.alive = no]
  <2>1. pump' = [r EXCEPT !.rebuilt = no]
    BY <1>5 DEF PumpDies
  <2> HIDE DEF no
  <2>2. r \in PumpState
    BY <1>0, PumpFields
  <2> HIDE DEF r
  <2>3. pump' \in PumpState
    BY <1>0, <2>1, <2>2, PumpFields
  <2> QED
    BY <1>5, <2>3 DEF PumpDies, TypeOK
<1> QED
  BY <1>1, <1>2, <1>3, <1>4, <1>5

LEMMA TypeStep ==
  TypeOK /\ EditInv /\ CacheInv /\ NewsInv /\ [Next]_vars => TypeOK'
<1> SUFFICES ASSUME TypeOK, EditInv, CacheInv, NewsInv, [Next]_vars
             PROVE  TypeOK'
  OBVIOUS
<1> USE DEF fileVars, watchVars, stackVars, storeVars, taskVars, pumpVars, writeVars
<1>0. CASE UNCHANGED vars
  BY <1>0 DEF TypeOK, vars
<1>1. ASSUME (\E c \in Config : Edit(c)) \/ FinishEdit PROVE TypeOK'
  BY <1>1, ConfigAssumption DEF Edit, FinishEdit, TypeOK
<1>2. ASSUME NEW t \in Tag, PlantMoves(t) PROVE TypeOK'
  <2>1. plant[t] + 1 \in 0 .. MaxPlant
    BY <1>2, ConfigAssumption DEF PlantMoves, TypeOK
  <2> QED
    BY <1>2, <2>1 DEF PlantMoves, TypeOK
<1>3. ASSUME StartFails \/ StartTasks PROVE TypeOK'
  BY <1>3 DEF StartFails, StartTasks, TypeOK, Stage
<1>4. ASSUME StartOpcUa PROVE TypeOK'
  <2> DEFINE b == TRUE
             r == [pump EXCEPT !.alive = b]
  <2>1. b \in BOOLEAN /\ pump' = [r EXCEPT !.gen = rev]
    BY <1>4 DEF StartOpcUa
  <2>2. rev \in Generation /\ cfg \in Config
    BY DEF TypeOK
  <2> HIDE DEF b
  <2>3. r \in PumpState
    BY <2>1, PumpFields DEF TypeOK
  <2> HIDE DEF r
  <2>4. pump' \in PumpState
    BY <2>1, <2>2, <2>3, PumpFields
  <2> QED
    BY <1>4, <2>2, <2>4, BuiltType DEF StartOpcUa, TypeOK, Stage
<1>5. ASSUME NEW t \in Tag, Poll(t) PROVE TypeOK'
  <2> DEFINE k == cacheOf[rev]
             slot == [source |-> Cfg[cfg].regs[t].source, ver |-> plant[t]]
  <2>0. /\ k \in Generation /\ slot \in Raw /\ raw' = [raw EXCEPT ![k][t] = slot]
        /\ news' = [g \in Generation |->
                      IF cacheOf[g] = k THEN news[g] \cup {t} ELSE news[g]]
    BY <1>5, PollType
  <2> HIDE DEF k, slot
  <2>1. raw' \in [Generation -> [Tag -> Raw \cup {None}]]
    BY <2>0 DEF TypeOK
  <2>2. news' \in [Generation -> SUBSET Tag]
    BY <2>0 DEF TypeOK
  <2> QED
    BY <1>5, <2>1, <2>2 DEF Poll, TypeOK
<1>6. ASSUME NEW t \in Tag, EngineStep(t) PROVE TypeOK'
  <2> DEFINE v == Computed(cfg, t, raw[cacheOf[rev]][t], typed[rev][t])
  <2>1. /\ v \in Typed \cup {None} /\ typed' = [typed EXCEPT ![rev][t] = v]
        /\ disk' = [disk EXCEPT ![t] = v] /\ news' = [news EXCEPT ![rev] = @ \ {t}]
        /\ Announce(rev, t)
    BY <1>6, EngineType
  <2> HIDE DEF v
  <2>2. /\ typed' \in [Generation -> [Tag -> Typed \cup {None}]]
        /\ disk' \in [Tag -> Typed \cup {None}] /\ news' \in [Generation -> SUBSET Tag]
    BY <2>1 DEF TypeOK
  <2>3. pump' \in PumpState /\ missed' \in SUBSET Tag
    BY <2>1, AnnounceType
  <2> QED
    BY <1>6, <2>2, <2>3 DEF EngineStep, TypeOK
<1>7. ASSUME PumpSubscribes \/ PumpBatch \/ PumpRebuild \/ PumpDies PROVE TypeOK'
  BY <1>7, PumpType DEF PumpSubscribes, PumpBatch, PumpRebuild, PumpDies, TypeOK
<1>8. ASSUME PumpCommits PROVE TypeOK'
  <2>1. /\ raw' \in [Generation -> [Tag -> Raw \cup {None}]]
        /\ typed' \in [Generation -> [Tag -> Typed \cup {None}]]
        /\ news' \in [Generation -> SUBSET Tag]
    BY <1>8, ClearedType DEF PumpCommits, DropOld, TypeOK, RawStore, TypedStore
  <2>2. /\ pump' \in PumpState /\ nodes' \in [Tag -> Typed \cup {None, NoNode}]
        /\ missed' \in SUBSET Tag
    BY <1>8, PumpType
  <2> QED
    BY <1>8, <2>1, <2>2 DEF PumpCommits, TypeOK, Stage
<1>9. ASSUME WatchTick PROVE TypeOK'
  <2>1. seen' \in Config \cup {None} /\ pending' \in Config \cup {None}
    BY <1>9 DEF WatchTick, Sighted, TypeOK
  <2>2. CASE UNCHANGED <<stackVars, storeVars>>
    BY <1>9, <2>1, <2>2 DEF WatchTick, TypeOK
  <2>3. CASE Debounced /\ Preflight(file)
    <3>1. rev \in Generation /\ rev + 1 \in Generation /\ file \in Config
      BY <2>3, Room DEF Debounced, TypeOK
    <3> QED
      BY <1>9, <2>1, <2>3, <3>1, PreflightType
         DEF WatchTick, TypeOK, RawStore, TypedStore
  <2> QED
    BY <1>9, <2>2, <2>3 DEF WatchTick
<1>10. ASSUME PauseWrites \/ CommitFails PROVE TypeOK'
  BY <1>10 DEF PauseWrites, CommitFails, TypeOK, Stage, Reloading
<1>11. ASSUME EngineEnds PROVE TypeOK'
  BY <1>11 DEF EngineEnds, TypeOK, Stage, Reloading
<1>12. ASSUME DrainPoller
       PROVE  poller' = 0 /\ cmd' \in Commands
  BY <1>12, FailPendingType DEF DrainPoller, TypeOK, Commands
<1>13. ASSUME PollerEnds PROVE TypeOK'
  BY <1>12, <1>13 DEF PollerEnds, TypeOK, Stage, Reloading, Commands
<1>14. ASSUME Swap PROVE TypeOK'
  <2>0. cacheOf[rev + 1] \in Generation
    BY <1>14, SwapType DEF TypeOK
  <2>1. /\ raw' \in [Generation -> [Tag -> Raw \cup {None}]]
        /\ typed' \in [Generation -> [Tag -> Typed \cup {None}]]
    <3>1. /\ raw' = [raw EXCEPT ![cacheOf[rev + 1]] = FinalRaw]
          /\ typed' = [typed EXCEPT ![rev + 1] = Refreshed]
          /\ FinalRaw \in RawStore /\ Refreshed \in TypedStore
      BY <1>14, SwapType
    <3>2. raw' \in [Generation -> [Tag -> Raw \cup {None}]]
      BY <3>1 DEF TypeOK, RawStore
    <3>3. typed' \in [Generation -> [Tag -> Typed \cup {None}]]
      BY <3>1 DEF TypeOK, TypedStore
    <3> QED
      BY <3>2, <3>3
  <2>2. disk' \in [Tag -> Typed \cup {None}]
    BY <1>14, SwapType DEF TypeOK, TypedStore
  <2>3. /\ engine' \in Generation /\ poller' \in Generation \cup {0}
        /\ rev' \in Generation /\ cfg' \in Config /\ stage' \in Stage
    BY <1>14, SwapType DEF TypeOK, Stage, Reloading
  <2> QED
    BY <1>14, <2>1, <2>2, <2>3 DEF Swap, TypeOK
<1>15. ASSUME ShutdownStep PROVE TypeOK'
  <2>1. stage' \in Stage
    BY <1>15 DEF ShutdownStep, Shutdown, Stage, Stopping
  <2>2. pump' \in PumpState
    <3> DEFINE no == FALSE
    <3>1. pump' \in {pump, [pump EXCEPT !.alive = no]}
      BY <1>15 DEF ShutdownStep, Shutdown
    <3>2. no \in BOOLEAN
      OBVIOUS
    <3>3. pump \in PumpState
      BY DEF TypeOK
    <3> HIDE DEF no
    <3>4. [pump EXCEPT !.alive = no] \in PumpState
      BY <3>2, <3>3, PumpFields
    <3> QED
      BY <3>1, <3>3, <3>4
  <2>3. /\ engine' \in {0, engine} /\ poller' \in {0, poller}
        /\ cmd' = cmd \/ DrainPoller
        /\ UNCHANGED <<storeVars, nodes, missed>>
    BY <1>15, <1>12 DEF ShutdownStep, Shutdown
  <2>4. cmd' \in Commands
    BY <1>12, <2>3 DEF TypeOK, Commands
  <2> QED
    BY <1>15, <2>1, <2>2, <2>3, <2>4 DEF ShutdownStep, TypeOK, Commands
<1>16. ASSUME NEW w \in Write, WriteSteps(w) PROVE TypeOK'
  BY <1>16, WriteStays, WriteType DEF TypeOK, Commands
<1> QED
  BY <1>0, <1>1, <1>2, <1>3, <1>4, <1>5, <1>6, <1>7, <1>8, <1>9, <1>10, <1>11,
     <1>13, <1>14, <1>15, <1>16
     DEF Next, TagSteps, Pumping, ReloadSteps, Starting, Callback, Commanding,
         WriteSteps

-----------------------------------------------------------------------------
(* Generations and edits *)

LEMMA EditInit == Init => EditInv
BY ConfigAssumption DEF Init, EditInv, Ahead

LEMMA EditStep ==
  TypeOK /\ EditInv /\ [Next]_vars => EditInv'
<1> SUFFICES ASSUME TypeOK, EditInv, [Next]_vars
             PROVE  EditInv'
  OBVIOUS
<1>0. rev \in Nat /\ edits \in Nat
  BY DEF TypeOK, Generation
<1>1. ASSUME UNCHANGED <<file, edits, seen, rev>>, Ahead' => Ahead /\ next' = next
      PROVE  EditInv'
  BY <1>0, <1>1 DEF EditInv
<1>2. ASSUME (\E c \in Config : Edit(c)) \/ FinishEdit PROVE EditInv'
  <2>1. /\ UNCHANGED <<seen, rev, stage, next>>
        /\ \/ edits' = edits + 1
           \/ edits' = edits /\ file = Torn
    BY <1>2 DEF Edit, FinishEdit, watchVars, stackVars
  <2> QED
    BY <1>0, <2>1 DEF EditInv, Ahead
<1>3. ASSUME WatchTick PROVE EditInv'
  <2>1. UNCHANGED <<file, edits>> /\ stage = "watch"
    BY <1>3 DEF WatchTick, fileVars
  <2>2. CASE seen' = seen /\ UNCHANGED <<stackVars, storeVars>>
    BY <1>1, <2>1, <2>2 DEF stackVars, Ahead
  <2>3. CASE /\ Debounced /\ seen' = file /\ file # Torn
             /\ Preflight(file) \/ UNCHANGED <<stackVars, storeVars>>
    BY <1>0, <2>1, <2>3
       DEF EditInv, Ahead, Debounced, Preflight, stackVars, TypeOK
  <2> QED
    BY <1>3, <2>2, <2>3 DEF WatchTick, Sighted, Debounced
<1>4. ASSUME Swap PROVE EditInv'
  BY <1>0, <1>4 DEF Swap, EditInv, Ahead, fileVars, watchVars
<1>5. ASSUME \/ \E t \in Tag : TagSteps(t)
             \/ StartFails \/ Starting \/ Pumping \/ PumpDies
             \/ PauseWrites \/ EngineEnds \/ PollerEnds \/ CommitFails \/ ShutdownStep
      PROVE  EditInv'
  <2>1. UNCHANGED <<file, edits, seen, rev>>
    BY <1>5 DEF TagSteps, PlantMoves, Poll, EngineStep, StartFails, Starting,
       StartTasks,
         StartOpcUa, Pumping, PumpSubscribes, PumpBatch, PumpRebuild, PumpCommits,
         PumpDies, PauseWrites, EngineEnds, PollerEnds, CommitFails, ShutdownStep,
         fileVars, watchVars, stackVars
  <2>2. Ahead' => Ahead /\ next' = next
    BY <1>5 DEF TagSteps, PlantMoves, Poll, EngineStep, StartFails, Starting,
       StartTasks,
         StartOpcUa, Pumping, PumpSubscribes, PumpBatch, PumpRebuild, PumpCommits,
         PumpDies, PauseWrites, EngineEnds, PollerEnds, CommitFails, ShutdownStep,
         Shutdown, Ahead, stackVars
  <2> QED
    BY <1>1, <2>1, <2>2
<1>6. ASSUME NEW w \in Write, WriteSteps(w) PROVE EditInv'
  BY <1>1, <1>6, WriteStays DEF fileVars, watchVars, stackVars, Ahead
<1>7. CASE UNCHANGED vars
  BY <1>1, <1>7 DEF vars, fileVars, watchVars, stackVars, Ahead
<1> QED
  BY <1>2, <1>3, <1>4, <1>5, <1>6, <1>7
     DEF Next, ReloadSteps, Callback, Commanding, WriteSteps

-----------------------------------------------------------------------------
(* The stores *)

StoreInv ==
  /\ CacheInv /\ FutureInv /\ RawInv /\ TypedInv /\ NewsInv /\ DiskInv

LEMMA StoreInit == Init => StoreInv
<1> SUFFICES ASSUME Init PROVE StoreInv
  OBVIOUS
<1>1. /\ rev = 1 /\ 1 \in Generation /\ cacheOf[1] = 1 /\ stage = "boot" /\ poller = 0
      /\ engine = 0 /\ cfg = First
  BY ConfigAssumption DEF Init, Generation
<1>2. /\ \A g \in Generation : raw[g] = Cleared /\ typed[g] = Cleared /\ news[g] = {}
      /\ \A t \in Tag : Cleared[t] = None /\ disk[t] = None
  BY DEF Init, Cleared
<1>3. Regs(cfg) \subseteq Tag
  BY <1>1, ConfigAssumption, ConfigFacts
<1>4. CacheInv /\ FutureInv /\ RawInv /\ TypedInv /\ DiskInv
  BY <1>1, <1>2 DEF CacheInv, FutureInv, RawInv, TypedInv, DiskInv, Ahead
<1>5. NewsInv
  BY <1>1, <1>2, <1>3 DEF NewsInv, Computed, Ahead
<1> QED
  BY <1>4, <1>5 DEF StoreInv

\* Steps that leave the stores as they are, and no generation behind.
StageMoves ==
  /\ UNCHANGED <<cfg, rev, storeVars>>
  /\ Ahead' <=> Ahead
  /\ Ahead => next' = next
  /\ engine' \in {0, engine, rev} /\ poller' \in {0, poller, rev}
  /\ stage' \in {"poller", "swap"} =>
       stage \in {"poller", "swap"} /\ engine' \in {0, engine}

LEMMA StoreCalm ==
  ASSUME TypeOK, StoreInv, StageMoves
  PROVE  StoreInv'
<1>1. /\ UNCHANGED <<cfg, rev, raw, typed, cacheOf, news, disk>>
      /\ Ahead' <=> Ahead
      /\ Ahead => next' = next
  BY DEF StageMoves, storeVars
<1>2. CacheInv'
  BY <1>1 DEF StoreInv, CacheInv, StageMoves, TypeOK, Generation
<1>3. FutureInv' /\ RawInv'
  BY <1>1 DEF StoreInv, FutureInv, RawInv
<1>4. TypedInv' /\ NewsInv'
  BY <1>1 DEF StoreInv, TypedInv, NewsInv
<1>5. DiskInv'
  <2>1. stage' \in {"poller", "swap"} => stage \in {"poller", "swap"} /\ next' = next
    BY <1>1 DEF StageMoves, Ahead
  <2> QED
    BY <1>1, <2>1 DEF StoreInv, DiskInv
<1> QED
  BY <1>2, <1>3, <1>4, <1>5 DEF StoreInv

\* A reading goes into the cache of the active generation, and a generation
\* prepared to take that cache over hears of it.
LEMMA StorePoll ==
  ASSUME TypeOK, EditInv, StoreInv, NEW t \in Tag, Poll(t)
  PROVE  StoreInv'
<1> DEFINE k == cacheOf[rev]
           slot == [source |-> Cfg[cfg].regs[t].source, ver |-> plant[t]]
<1>1. /\ k \in Generation /\ slot \in Raw /\ t \in Regs(cfg)
      /\ slot.source = Cfg[cfg].regs[t].source
      /\ raw' = [raw EXCEPT ![k][t] = slot]
      /\ news' = [g \in Generation |->
                    IF cacheOf[g] = k THEN news[g] \cup {t} ELSE news[g]]
  BY PollType DEF StoreInv
<1>2. k <= rev /\ rev \in Generation /\ k \in Nat /\ rev \in Nat
  BY <1>1 DEF StoreInv, CacheInv, TypeOK, Generation
<1>3. slot # None
  BY <1>1, ValueFacts
<1>4. UNCHANGED <<stage, next, cfg, rev, typed, cacheOf, disk, engine, poller>>
  BY DEF Poll, stackVars, taskVars
<1>5. Ahead => rev + 1 \in Generation /\ k # rev + 1
  BY <1>2, Room
<1>6. Ahead' <=> Ahead
  BY <1>4 DEF Ahead
<1> HIDE DEF slot
<1>7. \A g \in Generation, u \in Tag :
        raw'[g][u] = IF g = k /\ u = t THEN slot ELSE raw[g][u]
  BY <1>1 DEF TypeOK
<1>8. \A g \in Generation : g # k => raw'[g] = raw[g]
  BY <1>1 DEF TypeOK
<1>9. CacheInv' /\ DiskInv'
  BY <1>4, <1>6 DEF StoreInv, CacheInv, DiskInv
<1>10. FutureInv'
  <2>1. \A g \in Generation : g > rev => g # k
    BY <1>2 DEF Generation
  <2> QED
    BY <1>4, <1>6, <1>8, <2>1 DEF StoreInv, FutureInv
<1>11. RawInv'
  BY <1>1, <1>4, <1>5, <1>6, <1>7, <1>8 DEF StoreInv, RawInv
<1>12. TypedInv'
  BY <1>1, <1>2, <1>3, <1>4, <1>6, <1>7 DEF StoreInv, TypedInv
<1>13. NewsInv'
  <2>1. news'[rev] = news[rev] \cup {t}
    BY <1>1, <1>2
  <2>2. Ahead => news'[rev + 1] \subseteq Regs(next)
    <3> SUFFICES ASSUME Ahead PROVE news'[rev + 1] \subseteq Regs(next)
      OBVIOUS
    <3>1. news[rev + 1] \subseteq Regs(next)
      BY DEF StoreInv, NewsInv
    <3>2. cacheOf[rev + 1] = k => Regs(cfg) = Regs(next)
      BY <1>5 DEF StoreInv, CacheInv, PollingChanged
    <3> QED
      BY <1>1, <1>5, <3>1, <3>2
  <2>3. Regs(cfg) \subseteq Tag
    BY ConfigFacts DEF TypeOK
  <2>4. \A u \in Regs(cfg) \ news'[rev] :
          typed[rev][u] = Computed(cfg, u, raw'[k][u], None)
    BY <1>1, <1>7, <2>1, <2>3 DEF StoreInv, NewsInv
  <2> QED
    BY <1>1, <1>4, <1>6, <2>1, <2>2, <2>4 DEF StoreInv, NewsInv
<1> QED
  BY <1>9, <1>10, <1>11, <1>12, <1>13 DEF StoreInv

\* The engine makes a value of the latest reading, for its store and the disk.
LEMMA StoreEngine ==
  ASSUME TypeOK, EditInv, StoreInv, NEW t \in Tag, EngineStep(t)
  PROVE  StoreInv'
<1> DEFINE k == cacheOf[rev]
           v == Computed(cfg, t, raw[k][t], typed[rev][t])
<1>1. /\ engine = rev /\ engine \in Generation /\ t \in Regs(cfg)
      /\ v \in Typed \cup {None} /\ typed' = [typed EXCEPT ![rev][t] = v]
      /\ disk' = [disk EXCEPT ![t] = v] /\ news' = [news EXCEPT ![rev] = @ \ {t}]
  BY EngineType DEF StoreInv
<1>2. UNCHANGED <<stage, next, cfg, rev, raw, cacheOf, engine, poller>>
  BY DEF EngineStep, stackVars, taskVars
<1>3. Ahead' <=> Ahead
  BY <1>2 DEF Ahead
<1>4. /\ cfg \in Config /\ rev \in Generation /\ k \in Generation
      /\ raw[k][t] \in Raw \cup {None} /\ typed[rev][t] \in Typed \cup {None}
  BY DEF TypeOK
<1>5. v = Computed(cfg, t, raw[k][t], None)
  BY <1>1, <1>4, ComputedFacts DEF StoreInv, TypedInv
<1>6. v # None => raw[k][t] # None /\ v.recipe = Cfg[cfg].regs[t]
  <2>1. CASE raw[k][t] = None
    BY <1>5, <2>1 DEF Computed
  <2>2. CASE raw[k][t] # None
    BY <1>1, <1>4, <2>2, RecipeBySource DEF StoreInv, RawInv
  <2> QED
    BY <2>1, <2>2
<1> HIDE DEF v
<1>7. \A g \in Generation, u \in Tag :
        typed'[g][u] = IF g = rev /\ u = t THEN v ELSE typed[g][u]
  BY <1>1 DEF TypeOK
<1>8. CacheInv' /\ FutureInv' /\ RawInv'
  BY <1>2, <1>3 DEF StoreInv, CacheInv, FutureInv, RawInv
<1>9. Ahead => rev + 1 \in Generation /\ rev + 1 # rev
  BY Room DEF Generation
<1>10. TypedInv'
  <2>1. \A u \in Tag : typed'[rev][u] # None =>
          /\ u \in Regs(cfg) /\ typed'[rev][u].recipe = Cfg[cfg].regs[u]
          /\ raw[k][u] # None
    BY <1>1, <1>4, <1>6, <1>7 DEF StoreInv, TypedInv
  <2>2. Ahead => \A u \in Tag : typed'[rev + 1][u] # None =>
          /\ SameRecipe(cfg, next, u) /\ typed'[rev + 1][u].recipe = Cfg[next].regs[u]
          /\ raw[k][u] # None
    BY <1>7, <1>9 DEF StoreInv, TypedInv
  <2> QED
    BY <1>2, <1>3, <2>1, <2>2 DEF TypedInv
<1>11. NewsInv'
  <2>1. news'[rev] = news[rev] \ {t} /\ (Ahead => news'[rev + 1] = news[rev + 1])
    BY <1>1, <1>4, <1>9 DEF TypeOK
  <2>2. Regs(cfg) \subseteq Tag
    BY <1>4, ConfigFacts
  <2>3. \A u \in Regs(cfg) \ news'[rev] :
          typed'[rev][u] = Computed(cfg, u, raw[k][u], None)
    BY <1>4, <1>5, <1>7, <2>1, <2>2 DEF StoreInv, NewsInv
  <2> QED
    BY <1>2, <1>3, <2>1, <2>3 DEF StoreInv, NewsInv
<1>12. DiskInv'
  <2>1. stage \notin {"poller", "swap"}
    BY <1>1 DEF StoreInv, CacheInv, Generation
  <2> QED
    BY <1>1, <1>2, <1>6, <2>1 DEF StoreInv, DiskInv, TypeOK
<1> QED
  BY <1>8, <1>10, <1>11, <1>12 DEF StoreInv

\* A reload starts from what the active generation holds, of the registers that
\* are acquired, or made, the same way.
LEMMA StorePreflight ==
  ASSUME TypeOK, EditInv, StoreInv, WatchTick, Debounced, Preflight(file)
  PROVE  StoreInv'
<1> DEFINE c == file
           k == cacheOf[rev]
<1>1. /\ c \in Config /\ cfg \in Config /\ rev \in Generation /\ rev + 1 \in Generation
      /\ rev + 1 # rev
  BY Room DEF Debounced, TypeOK, Generation
<1>2. /\ stage' = "pause" /\ stage = "watch" /\ next' = c
      /\ UNCHANGED <<cfg, rev, disk, engine, poller>>
  BY DEF Preflight, WatchTick, taskVars
<1>3. ~Ahead /\ Ahead'
  BY <1>2 DEF Ahead
<1>4. k <= rev /\ k \in Generation /\ k # rev + 1 /\ poller # rev + 1
  <2>1. k \in Generation /\ poller \in Generation \cup {0} /\ k <= rev /\ poller <= rev
    BY <1>1 DEF StoreInv, CacheInv, TypeOK
  <2> HIDE DEF k
  <2> QED
    BY <1>1, <2>1 DEF Generation
<1>5. /\ cacheOf'[rev + 1] = IF PollingChanged(cfg, c) THEN rev + 1 ELSE k
      /\ \A g \in Generation : g # rev + 1 => cacheOf'[g] = cacheOf[g]
  BY <1>1 DEF Preflight, TypeOK
<1>6. /\ \A g \in Generation : g # rev + 1 => raw'[g] = raw[g]
      /\ PollingChanged(cfg, c) => raw'[rev + 1] =
           Seeded({t \in Tag : SameSource(cfg, c, t)}, raw[k], raw[rev + 1])
  BY <1>1 DEF Preflight, TypeOK
<1>7. /\ typed'[rev] = typed[rev]
      /\ typed'[rev + 1] =
           Seeded({t \in Tag : SameRecipe(cfg, c, t)}, typed[rev], Prepared)
  BY <1>1 DEF Preflight, TypeOK
<1>8. news'[rev] = news[rev] /\ news'[rev + 1] = {}
  BY <1>1 DEF Preflight, TypeOK
<1>9. raw[rev + 1] = Cleared
  BY <1>1, <1>3 DEF StoreInv, FutureInv, Generation
<1>10. cacheOf'[rev] = k /\ raw'[k] = raw[k]
  BY <1>1, <1>4, <1>5, <1>6
<1>11. CacheInv'
  <2>1. poller # 0 => poller \in Generation /\ cacheOf'[poller] = cacheOf[poller]
    BY <1>4, <1>5 DEF TypeOK
  <2> QED
    BY <1>2, <1>5, <1>10, <2>1 DEF StoreInv, CacheInv
<1>12. FutureInv'
  BY <1>2, <1>3, <1>6 DEF StoreInv, FutureInv
<1>13. RawInv'
  <2>1. PollingChanged(cfg, c) =>
          \A t \in Tag : raw'[rev + 1][t] # None =>
            /\ SameSource(cfg, c, t)
            /\ raw'[rev + 1][t].source = Cfg[c].regs[t].source
    <3> SUFFICES ASSUME PollingChanged(cfg, c), NEW t \in Tag, raw'[rev + 1][t] # None
                 PROVE  /\ SameSource(cfg, c, t)
                        /\ raw'[rev + 1][t].source = Cfg[c].regs[t].source
      OBVIOUS
    <3>1. SameSource(cfg, c, t) /\ raw'[rev + 1][t] = raw[k][t] /\ raw[k][t] # None
      BY <1>6, <1>9 DEF Seeded, Cleared
    <3> QED
      BY <3>1 DEF StoreInv, RawInv, SameSource
  <2> QED
    BY <1>2, <1>10, <2>1 DEF StoreInv, RawInv
<1>14. TypedInv'
  <2>1. \A t \in Tag : typed'[rev + 1][t] # None =>
          /\ SameRecipe(cfg, c, t) /\ typed'[rev + 1][t] = typed[rev][t]
    BY <1>7 DEF Seeded, Prepared, Cleared
  <2>2. \A t \in Tag : typed'[rev + 1][t] # None =>
          /\ SameRecipe(cfg, c, t) /\ typed'[rev + 1][t].recipe = Cfg[c].regs[t]
          /\ raw'[k][t] # None
    BY <1>10, <2>1 DEF StoreInv, TypedInv, SameRecipe
  <2> QED
    BY <1>2, <1>7, <1>10, <2>2 DEF StoreInv, TypedInv
<1>15. NewsInv'
  BY <1>2, <1>7, <1>8, <1>10 DEF StoreInv, NewsInv
<1>16. DiskInv'
  BY <1>2 DEF StoreInv, DiskInv
<1> QED
  BY <1>11, <1>12, <1>13, <1>14, <1>15, <1>16 DEF StoreInv

\* The database forgets what the new generation could not have made.
LEMMA StoreEngineEnds ==
  ASSUME TypeOK, StoreInv, EngineEnds
  PROVE  StoreInv'
<1>1. /\ UNCHANGED <<next, cfg, rev, raw, typed, cacheOf, news, poller>> /\ engine' = 0
      /\ stage = "engine" /\ stage' \in {"poller", "swap"}
      /\ disk' = [t \in Tag |-> IF SameRecipe(cfg, next, t) THEN disk[t] ELSE None]
  BY DEF EngineEnds
<1>2. Ahead' /\ Ahead
  BY <1>1 DEF Ahead
<1>3. CacheInv' /\ FutureInv' /\ RawInv' /\ TypedInv' /\ NewsInv'
  BY <1>1, <1>2 DEF StoreInv, CacheInv, FutureInv, RawInv, TypedInv, NewsInv
<1>4. DiskInv'
  BY <1>1 DEF StoreInv, DiskInv
<1> QED
  BY <1>3, <1>4 DEF StoreInv

\* The values of the old generation are dropped with it.
LEMMA StoreCommits ==
  ASSUME TypeOK, StoreInv, PumpCommits, stage = "commit"
  PROVE  StoreInv'
<1>1. /\ UNCHANGED <<cfg, rev, cacheOf, disk, engine, poller>> /\ stage' = "watch"
  BY DEF PumpCommits, taskVars
<1>2. ~Ahead /\ ~Ahead'
  BY <1>1 DEF Ahead
<1>3. rev \in Generation /\ cacheOf[rev] \in Generation /\ cacheOf[rev] <= rev
  BY DEF StoreInv, CacheInv, TypeOK
<1>4. /\ raw'[cacheOf[rev]] = raw[cacheOf[rev]] /\ typed'[rev] = typed[rev]
      /\ news'[rev] = news[rev]
      /\ \A g \in Generation : g # rev /\ g # cacheOf[rev] => raw'[g] = Cleared
  BY <1>3 DEF PumpCommits, DropOld
<1>5. FutureInv'
  <2>1. \A g \in Generation : g > rev => g # rev /\ g # cacheOf[rev]
    BY <1>3 DEF Generation
  <2> QED
    BY <1>1, <1>2, <1>4, <2>1 DEF FutureInv
<1>6. CacheInv' /\ RawInv' /\ TypedInv'
  BY <1>1, <1>2, <1>4 DEF StoreInv, CacheInv, RawInv, TypedInv
<1>7. NewsInv' /\ DiskInv'
  BY <1>1, <1>2, <1>4 DEF StoreInv, NewsInv, DiskInv
<1> QED
  BY <1>5, <1>6, <1>7 DEF StoreInv

\* What the new generation takes over: readings its registers could have made,
\* and no value without its reading.
LEMMA FinalFacts ==
  ASSUME TypeOK, EditInv, StoreInv, stage = "swap", NEW t \in Tag
  PROVE  /\ FinalRaw[t] # None =>
              t \in Regs(next) /\ FinalRaw[t].source = Cfg[next].regs[t].source
         /\ FinalTyped[t] # None => FinalRaw[t] # None
         /\ raw[cacheOf[rev]][t] # None /\ SameSource(cfg, next, t) =>
              FinalRaw[t] = raw[cacheOf[rev]][t]
<1>1. Ahead /\ next \in Config /\ rev + 1 \in Generation
  BY Room DEF Ahead, EditInv
<1>2. FinalRaw[t] =
        IF PollingChanged(cfg, next) /\ ~(SameSource(cfg, next, t) /\
             raw[cacheOf[rev]][t] # None)
        THEN raw[rev + 1][t] ELSE raw[cacheOf[rev]][t]
  BY <1>1, FinalType
<1>3. FinalTyped[t] =
        IF SameRecipe(cfg, next, t) /\ typed[rev][t] # None THEN typed[rev][t]
        ELSE typed[rev + 1][t]
  BY <1>1, FinalType
<1>4. ASSUME FinalRaw[t] # None
      PROVE  t \in Regs(next) /\ FinalRaw[t].source = Cfg[next].regs[t].source
  <2>1. CASE PollingChanged(cfg, next) /\ ~(SameSource(cfg, next, t) /\
               raw[cacheOf[rev]][t] # None)
    BY <1>1, <1>2, <1>4, <2>1 DEF StoreInv, RawInv, SameSource
  <2>2. CASE SameSource(cfg, next, t) /\ raw[cacheOf[rev]][t] # None
    BY <1>2, <2>2 DEF StoreInv, RawInv, SameSource
  <2>3. CASE ~PollingChanged(cfg, next)
    <3>1. FinalRaw[t] = raw[cacheOf[rev]][t]
      BY <1>2, <2>3
    <3>2. t \in Regs(cfg) /\ FinalRaw[t].source = Cfg[cfg].regs[t].source
      BY <1>4, <3>1 DEF StoreInv, RawInv
    <3>3. Regs(cfg) = Regs(next) /\ \A u \in Regs(next) : SameSource(cfg, next, u)
      BY <2>3 DEF PollingChanged
    <3> QED
      BY <3>2, <3>3 DEF SameSource
  <2> QED
    BY <2>1, <2>2, <2>3
<1>5. ASSUME FinalTyped[t] # None PROVE FinalRaw[t] # None
  <2>1. SameRecipe(cfg, next, t) /\ raw[cacheOf[rev]][t] # None
    BY <1>1, <1>3, <1>5 DEF StoreInv, TypedInv
  <2> QED
    BY <1>2, <2>1 DEF SameRecipe, SameSource
<1> QED
  BY <1>2, <1>4, <1>5

\* The swap: all of the invariants for the new configuration.
LEMMA StoreSwap ==
  ASSUME TypeOK, EditInv, StoreInv, Swap
  PROVE  StoreInv'
<1> DEFINE n == rev + 1
           k == cacheOf[n]
<1>1. /\ next \in Config /\ rev \in Generation /\ n \in Generation
      /\ rev' = n /\ cfg' = next /\ stage' = "commit" /\ stage = "swap"
      /\ raw' = [raw EXCEPT ![k] = FinalRaw]
      /\ typed' = [typed EXCEPT ![n] = Refreshed]
      /\ FinalRaw \in RawStore /\ Refreshed \in TypedStore
      /\ disk' = [t \in Tag |-> IF t \in Regs(next) /\ FinalRaw[t] # None
                                THEN Refreshed[t] ELSE disk[t]]
      /\ engine' = n /\ poller' = IF PollingChanged(cfg, next) THEN n ELSE poller
      /\ cacheOf' = cacheOf /\ news' = news
  BY SwapType DEF StoreInv
<1>2. Ahead /\ ~Ahead'
  BY <1>1 DEF Ahead
<1>3. /\ k = IF PollingChanged(cfg, next) THEN n ELSE cacheOf[rev]
      /\ cacheOf[rev] <= rev /\ cacheOf[rev] \in Generation /\ k \in Generation
  BY <1>1, <1>2 DEF StoreInv, CacheInv, TypeOK
<1>4. /\ k <= n /\ rev \in Nat
      /\ \A g \in Generation : g > n => g # k /\ g > rev /\ g # rev + 1
  BY <1>1, <1>3 DEF Generation
<1>5. raw'[k] = FinalRaw /\ \A g \in Generation : g # k => raw'[g] = raw[g]
  BY <1>1, <1>3 DEF TypeOK
<1>6. typed'[n] = Refreshed
  BY <1>1 DEF TypeOK
<1>7. CacheInv'
  <2>1. poller' <= n /\ (poller' # 0 => cacheOf[poller'] = k)
    BY <1>1, <1>3, <1>4 DEF StoreInv, CacheInv, TypeOK, Generation
  <2> QED
    BY <1>1, <1>2, <1>4, <2>1 DEF CacheInv
<1>8. FutureInv'
  BY <1>1, <1>2, <1>4, <1>5 DEF StoreInv, FutureInv
<1>9. RawInv'
  <2>1. \A t \in Tag : FinalRaw[t] # None =>
          t \in Regs(next) /\ FinalRaw[t].source = Cfg[next].regs[t].source
    BY <1>1, FinalFacts
  <2> QED
    BY <1>1, <1>2, <1>5, <2>1 DEF RawInv
<1>10. ASSUME NEW t \in Regs(next)
       PROVE  /\ t \in Tag
              /\ Refreshed[t] = Computed(next, t, FinalRaw[t], None)
              /\ Refreshed[t] # None => /\ FinalRaw[t] # None
                                        /\ Refreshed[t].recipe = Cfg[next].regs[t]
  <2>1. t \in Tag
    BY <1>1, ConfigFacts
  <2>2. /\ FinalRaw[t] \in Raw \cup {None} /\ FinalTyped[t] \in Typed \cup {None}
        /\ Refreshed[t] = Computed(next, t, FinalRaw[t], FinalTyped[t])
    BY <1>1, <2>1, FinalType DEF Refreshed, RawStore, TypedStore
  <2>3. CASE FinalRaw[t] = None
    <3>1. FinalTyped[t] = None
      BY <1>1, <2>1, <2>3, FinalFacts
    <3>2. Refreshed[t] = None /\ Computed(next, t, FinalRaw[t], None) = None
      BY <2>2, <2>3, <3>1 DEF Computed
    <3> QED
      BY <2>1, <3>2
  <2>4. CASE FinalRaw[t] # None
    <3>1. FinalRaw[t] \in Raw /\ FinalRaw[t].source = Cfg[next].regs[t].source
      BY <1>1, <2>1, <2>2, <2>4, FinalFacts
    <3>2. Refreshed[t].recipe = Cfg[next].regs[t]
      BY <1>1, <2>2, <3>1, RecipeBySource
    <3>3. Refreshed[t] = Computed(next, t, FinalRaw[t], None)
      BY <1>1, <2>2, <2>4, ComputedFacts
    <3> QED
      BY <2>1, <2>4, <3>2, <3>3
  <2> QED
    BY <2>3, <2>4
<1>11. \A t \in Tag \ Regs(next) : Refreshed[t] = None
  BY DEF Refreshed
<1>12. TypedInv'
  BY <1>1, <1>2, <1>5, <1>6, <1>10, <1>11 DEF TypedInv
<1>13. NewsInv'
  <2>1. news[n] \subseteq Regs(next)
    BY <1>2 DEF StoreInv, NewsInv
  <2> QED
    BY <1>1, <1>2, <1>5, <1>6, <1>10, <2>1 DEF NewsInv
<1>14. DiskInv'
  <2>1. \A t \in Tag : disk'[t] # None =>
          t \in Regs(next) /\ disk'[t].recipe = Cfg[next].regs[t]
    <3> SUFFICES ASSUME NEW t \in Tag, disk'[t] # None
                 PROVE  t \in Regs(next) /\ disk'[t].recipe = Cfg[next].regs[t]
      OBVIOUS
    <3>1. CASE t \in Regs(next) /\ FinalRaw[t] # None
      BY <1>1, <1>10, <3>1
    <3>2. CASE ~(t \in Regs(next) /\ FinalRaw[t] # None)
      <4>1. disk'[t] = disk[t]
        BY <1>1, <3>2
      <4> QED
        BY <1>1, <4>1 DEF StoreInv, DiskInv, SameRecipe
    <3> QED
      BY <3>1, <3>2
  <2> QED
    BY <1>1, <2>1 DEF DiskInv
<1> QED
  BY <1>7, <1>8, <1>9, <1>12, <1>13, <1>14 DEF StoreInv

LEMMA StoreStep ==
  TypeOK /\ EditInv /\ StoreInv /\ NodeInv /\ [Next]_vars => StoreInv'
<1> SUFFICES ASSUME TypeOK, EditInv, StoreInv, NodeInv, [Next]_vars
             PROVE  StoreInv'
  OBVIOUS
<1>0. ASSUME UNCHANGED <<stackVars, storeVars, taskVars>> PROVE StoreInv'
  <2>1. StageMoves
    BY <1>0 DEF StageMoves, stackVars, storeVars, taskVars, Ahead
  <2> QED
    BY <2>1, StoreCalm
<1>1. ASSUME \/ (\E c \in Config : Edit(c)) \/ FinishEdit
             \/ (\E t \in Tag : PlantMoves(t))
             \/ PumpSubscribes \/ PumpBatch \/ PumpRebuild \/ PumpDies
      PROVE  StoreInv'
  BY <1>0, <1>1
     DEF Edit, FinishEdit, PlantMoves, PumpSubscribes, PumpBatch, PumpRebuild,
         PumpDies
<1>2. ASSUME NEW w \in Write, WriteSteps(w) PROVE StoreInv'
  BY <1>0, <1>2, WriteStays
<1>3. ASSUME StartFails \/ StartTasks \/ StartOpcUa PROVE StoreInv'
  <2>1. StageMoves
    BY <1>3 DEF StartFails, StartTasks, StartOpcUa, StageMoves, Ahead, taskVars
  <2> QED
    BY <2>1, StoreCalm
<1>4. ASSUME PauseWrites \/ CommitFails PROVE StoreInv'
  <2>1. StageMoves
    BY <1>4 DEF PauseWrites, CommitFails, StageMoves, Ahead, taskVars
  <2> QED
    BY <2>1, StoreCalm
<1>5. ASSUME PollerEnds PROVE StoreInv'
  <2>1. StageMoves
    BY <1>5 DEF PollerEnds, DrainPoller, StageMoves, Ahead
  <2> QED
    BY <2>1, StoreCalm
<1>6. ASSUME ShutdownStep PROVE StoreInv'
  <2>1. StageMoves
    BY <1>6 DEF ShutdownStep, Shutdown, DrainPoller, StageMoves, Ahead, taskVars
  <2> QED
    BY <2>1, StoreCalm
<1>7. ASSUME NEW t \in Tag, Poll(t) \/ EngineStep(t) PROVE StoreInv'
  BY <1>7, StorePoll, StoreEngine
<1>8. ASSUME WatchTick PROVE StoreInv'
  <2>1. CASE UNCHANGED <<stackVars, storeVars>>
    BY <1>0, <1>8, <2>1 DEF WatchTick
  <2>2. CASE Debounced /\ Preflight(file)
    BY <1>8, <2>2, StorePreflight
  <2> QED
    BY <1>8, <2>1, <2>2 DEF WatchTick
<1>9. ASSUME PumpCommits PROVE StoreInv'
  <2>1. stage = "commit"
    BY <1>9 DEF PumpCommits, PumpRuns, NodeInv
  <2> QED
    BY <1>9, <2>1, StoreCommits
<1>10. CASE UNCHANGED vars
  BY <1>0, <1>10 DEF vars
<1> QED
  BY <1>1, <1>2, <1>3, <1>4, <1>5, <1>6, <1>7, <1>8, <1>9, <1>10, StoreEngineEnds,
     StoreSwap
     DEF Next, TagSteps, Pumping, ReloadSteps, Starting, Callback, Commanding,
         WriteSteps

-----------------------------------------------------------------------------
(* The nodes *)

LEMMA NodeInit == Init => NodeInv
BY DEF Init, NodeInv

\* What a step leaves of the nodes if it touches none of them, nor the values
\* they show.
LEMMA NodeCalm ==
  ASSUME NodeInv, UNCHANGED <<pump, nodes, missed, cfg, rev>>, typed'[rev] = typed[rev],
         stage' \in {"boot", "opcua"} => stage \in {"boot", "opcua"},
         stage' # "commit" => stage # "commit" \/ ~pump.alive
  PROVE  NodeInv'
BY DEF NodeInv

LEMMA NodePump ==
  ASSUME TypeOK, StoreInv, NodeInv, PumpBatch
  PROVE  NodeInv'
<1>1. /\ pump.alive /\ stage # "commit" /\ pump.gen = rev /\ ~pump.rebuilt
      /\ UNCHANGED <<stage, cfg, rev, typed>> /\ stage \notin {"boot", "opcua"}
  BY DEF PumpBatch, PumpRuns, NodeInv, stackVars, storeVars
<1>2. /\ \A t \in Tag : nodes[t] = NoNode <=> t \notin Regs(cfg)
      /\ \A t \in Regs(cfg) : nodes[t] # None => nodes[t].recipe = Cfg[cfg].regs[t]
      /\ \A t \in Regs(cfg) :
           ~pump.lagged /\ t \notin pump.tags \cup missed => nodes[t] = typed[rev][t]
  BY <1>1 DEF NodeInv
<1>3. /\ rev \in Generation /\ pump \in PumpState /\ Regs(cfg) \subseteq Tag
      /\ \A t \in Tag : typed[rev][t] \in Typed \cup {None}
  BY ConfigFacts DEF TypeOK
<1>4. PICK S : /\ nodes' = Pushed(S)
               /\ \/ /\ pump.lagged /\ S = Tag /\ missed' = {}
                     /\ pump' = [pump EXCEPT !.lagged = FALSE]
                  \/ /\ ~pump.lagged /\ missed' = missed
                     /\ pump' = [pump EXCEPT !.tags = @ \ S]
  <2>1. CASE /\ pump.lagged /\ nodes' = Pushed(Refresh) /\ missed' = {}
             /\ pump' = [pump EXCEPT !.lagged = FALSE]
    BY <2>1 DEF Refresh
  <2>2. CASE /\ ~pump.lagged /\ UNCHANGED missed
             /\ \E t \in pump.tags : /\ nodes' = Pushed({t})
                                     /\ pump' = [pump EXCEPT !.tags = @ \ {t}]
    BY <2>2
  <2> QED
    BY <2>1, <2>2 DEF PumpBatch
<1>5. \A t \in Tag : nodes'[t] = IF t \in S /\ nodes[t] # NoNode THEN typed[rev][t]
                                 ELSE nodes[t]
  BY <1>1, <1>4 DEF Pushed
<1>6. pump'.gen = rev /\ ~pump'.rebuilt
  BY <1>1, <1>3, <1>4 DEF PumpState
<1>7. \A t \in Tag : nodes'[t] = NoNode <=> t \notin Regs(cfg)
  BY <1>2, <1>3, <1>5, ValueFacts
<1>8. \A t \in Regs(cfg) : nodes'[t] # None => nodes'[t].recipe = Cfg[cfg].regs[t]
  BY <1>2, <1>3, <1>5 DEF StoreInv, TypedInv
<1>9. ASSUME NEW t \in Regs(cfg), ~pump'.lagged, t \notin pump'.tags \cup missed'
      PROVE  nodes'[t] = typed[rev][t]
  <2>1. CASE S = Tag
    BY <1>2, <1>3, <1>5, <2>1
  <2>2. CASE /\ ~pump.lagged /\ missed' = missed
             /\ pump' = [pump EXCEPT !.tags = @ \ S]
    <3>1. pump'.tags = pump.tags \ S
      BY <1>3, <2>2 DEF PumpState
    <3> QED
      BY <1>2, <1>3, <1>5, <1>9, <2>2, <3>1
  <2> QED
    BY <1>4, <2>1, <2>2
<1> QED
  BY <1>1, <1>6, <1>7, <1>8, <1>9 DEF NodeInv

LEMMA NodeEngine ==
  ASSUME TypeOK, StoreInv, NodeInv, NEW t \in Tag, EngineStep(t)
  PROVE  NodeInv'
<1>1. /\ engine = rev /\ Announce(rev, t) /\ rev \in Generation
      /\ \A u \in Tag : u # t => typed'[rev][u] = typed[rev][u]
  BY EngineType DEF StoreInv, TypeOK
<1>2. UNCHANGED <<stage, cfg, rev, nodes>> /\ pump \in PumpState
  BY DEF EngineStep, stackVars, TypeOK
<1>3. pump'.alive = pump.alive /\ pump'.rebuilt = pump.rebuilt /\ pump'.gen = pump.gen
  BY <1>1, <1>2 DEF Announce, PumpState
<1>4. ASSUME pump.alive, pump.gen = rev, ~pump'.lagged,
             NEW u \in Tag, u \notin pump'.tags \cup missed'
      PROVE  ~pump.lagged /\ u \notin pump.tags \cup missed /\ u # t
  <2>1. CASE /\ pump' = [pump EXCEPT !.tags = @ \cup {t}] /\ missed' = missed \ {t}
    <3>1. pump'.tags = pump.tags \cup {t} /\ pump'.lagged = pump.lagged
      BY <1>2, <2>1 DEF PumpState
    <3> QED
      BY <1>4, <2>1, <3>1
  <2>2. CASE pump' = [pump EXCEPT !.lagged = TRUE, !.tags = {t}]
    BY <1>2, <1>4, <2>2 DEF PumpState
  <2>3. CASE missed' = missed \cup {t} /\ UNCHANGED pump
    BY <1>4, <2>3
  <2> QED
    BY <1>1, <1>4, <2>1, <2>2, <2>3 DEF Announce
<1>5. Regs(cfg) \subseteq Tag
  BY ConfigFacts DEF TypeOK
<1> QED
  BY <1>1, <1>2, <1>3, <1>4, <1>5 DEF NodeInv

\* An address space that is built from the active store.
LEMMA NodeBuilt ==
  ASSUME TypeOK, StoreInv, nodes' = BuiltFrom(cfg, rev), UNCHANGED <<cfg, rev>>,
         typed'[rev] = typed[rev], pump'.gen = rev, ~pump'.rebuilt,
         stage' \notin {"boot", "opcua"}
  PROVE  NodeInv'
<1>1. /\ rev \in Generation /\ Regs(cfg) \subseteq Tag
      /\ \A t \in Tag : typed[rev][t] \in Typed \cup {None}
  BY ConfigFacts DEF TypeOK
<1>2. \A t \in Tag : nodes'[t] = IF t \in Regs(cfg) THEN typed[rev][t] ELSE NoNode
  BY DEF BuiltFrom
<1>3. \A t \in Tag : nodes'[t] = NoNode <=> t \notin Regs(cfg)
  BY <1>1, <1>2, ValueFacts
<1>4. \A t \in Regs(cfg) : nodes'[t] # None => nodes'[t].recipe = Cfg[cfg].regs[t]
  BY <1>1, <1>2 DEF StoreInv, TypedInv
<1> QED
  BY <1>1, <1>2, <1>3, <1>4 DEF NodeInv

LEMMA NodeStep ==
  TypeOK /\ EditInv /\ StoreInv /\ NodeInv /\ [Next]_vars => NodeInv'
<1> SUFFICES ASSUME TypeOK, EditInv, StoreInv, NodeInv, [Next]_vars
             PROVE  NodeInv'
  OBVIOUS
<1>0. pump \in PumpState /\ rev \in Generation
  BY DEF TypeOK
<1>1. ASSUME \/ (\E c \in Config : Edit(c)) \/ FinishEdit
             \/ (\E t \in Tag : PlantMoves(t) \/ Poll(t))
             \/ StartFails \/ StartTasks
             \/ PauseWrites \/ EngineEnds \/ PollerEnds \/ CommitFails
      PROVE  NodeInv'
  <2>1. UNCHANGED <<pump, nodes, missed, cfg, rev, typed>>
    BY <1>1
       DEF Edit, FinishEdit, PlantMoves, Poll, StartFails, StartTasks,
       PauseWrites,
         EngineEnds, PollerEnds, CommitFails, stackVars, storeVars, pumpVars
  <2>2. /\ stage' \in {"boot", "opcua"} => stage \in {"boot", "opcua"}
        /\ stage' # "commit" => stage # "commit" \/ ~pump.alive
    BY <1>1
       DEF Edit, FinishEdit, PlantMoves, Poll, StartFails, StartTasks,
       PauseWrites,
         EngineEnds, PollerEnds, CommitFails, stackVars
  <2> QED
    BY <2>1, <2>2, NodeCalm
<1>2. ASSUME NEW w \in Write, WriteSteps(w) PROVE NodeInv'
  BY <1>2, WriteStays, NodeCalm DEF stackVars, storeVars, pumpVars
<1>3. CASE UNCHANGED vars
  BY <1>3, NodeCalm DEF vars, stackVars, storeVars, pumpVars
<1>4. ASSUME ~pump'.alive, ~pump'.rebuilt \/ stage' \notin {"boot", "opcua"}
      PROVE  NodeInv'
  BY <1>4 DEF NodeInv
<1>5. ASSUME WatchTick PROVE NodeInv'
  <2>1. UNCHANGED <<pump, nodes, missed>> /\ stage = "watch"
    BY <1>5 DEF WatchTick, pumpVars
  <2>2. CASE UNCHANGED <<stackVars, storeVars>>
    BY <2>1, <2>2, NodeCalm DEF stackVars, storeVars
  <2>3. CASE Debounced /\ Preflight(file)
    <3>1. rev + 1 # rev
      BY <1>0 DEF Generation
    <3>2. typed'[rev] = typed[rev] /\ UNCHANGED <<cfg, rev>> /\ stage' = "pause"
      BY <1>0, <2>3, <3>1 DEF Preflight, TypeOK
    <3> QED
      BY <2>1, <3>2, NodeCalm
  <2> QED
    BY <1>5, <2>2, <2>3 DEF WatchTick
<1>6. ASSUME Swap PROVE NodeInv'
  BY <1>6 DEF Swap, NodeInv
<1>7. ASSUME StartOpcUa PROVE NodeInv'
  <2>1. pump'.gen = rev /\ pump'.rebuilt = pump.rebuilt
    BY <1>0, <1>7 DEF StartOpcUa, PumpState
  <2>2. ~pump.rebuilt
    BY <1>7 DEF StartOpcUa, NodeInv
  <2> QED
    BY <1>7, <2>1, <2>2, NodeBuilt DEF StartOpcUa, storeVars
<1>8. ASSUME PumpSubscribes PROVE NodeInv'
  <2>1. /\ pump'.alive = pump.alive /\ pump'.gen = pump.gen
        /\ pump'.rebuilt = pump.rebuilt /\ pump'.lagged = pump.lagged
        /\ pump'.tags = pump.tags
    BY <1>0, <1>8 DEF PumpSubscribes, PumpState
  <2> QED
    BY <1>8, <2>1 DEF PumpSubscribes, NodeInv, stackVars, storeVars
<1>9. ASSUME PumpRebuild PROVE NodeInv'
  BY <1>9 DEF PumpRebuild, NodeInv, stackVars
<1>10. ASSUME PumpCommits PROVE NodeInv'
  <2>1. pump'.gen = rev /\ ~pump'.rebuilt
    BY <1>0, <1>10 DEF PumpCommits, PumpState
  <2>2. typed'[rev] = typed[rev] /\ UNCHANGED <<cfg, rev>> /\ stage' = "watch"
    BY <1>0, <1>10 DEF PumpCommits, DropOld
  <2> QED
    BY <1>10, <2>1, <2>2, NodeBuilt DEF PumpCommits
<1>11. ASSUME PumpDies PROVE NodeInv'
  BY <1>0, <1>4, <1>11 DEF PumpDies, PumpState
<1>12. ASSUME ShutdownStep PROVE NodeInv'
  <2>1. UNCHANGED <<nodes, missed, cfg, rev, typed>> /\ stage' \notin {"boot", "opcua"}
        /\ stage # "commit"
    BY <1>12 DEF ShutdownStep, Shutdown, storeVars, pumpVars
  <2>2. CASE pump' = pump
    BY <2>1, <2>2, NodeCalm
  <2>3. CASE pump' = [pump EXCEPT !.alive = FALSE]
    BY <1>0, <1>4, <2>1, <2>3 DEF PumpState
  <2> QED
    BY <1>12, <2>2, <2>3 DEF ShutdownStep, Shutdown, pumpVars
<1> QED
  BY <1>1, <1>2, <1>3, <1>5, <1>6, <1>7, <1>8, <1>9, <1>10, <1>11, <1>12,
     NodePump,
     NodeEngine
     DEF Next, TagSteps, Pumping, ReloadSteps, Starting, Callback, Commanding,
         WriteSteps

-----------------------------------------------------------------------------
(* The write plans *)

LEMMA PlansInit == Init => PlansInv
BY DEF Init, PlansInv, Readers

\* Steps that start no write and put no other plans in force.
LEMMA PlansCalm ==
  ASSUME PlansInv, UNCHANGED <<plans, rev, wr, made, late, misdirected>>,
         \A w \in Write : cmd'[w] = "queued" => cmd[w] = "queued",
         stage' \in {"boot", "opcua", "engine", "poller", "swap", "commit"} =>
           stage \in {"boot", "opcua", "engine", "poller", "swap", "commit"}
  PROVE  PlansInv'
BY DEF PlansInv, Readers

LEMMA PlansWrite ==
  ASSUME TypeOK, PlansInv, NEW w \in Write, WriteSteps(w)
  PROVE  PlansInv'
<1>1. UNCHANGED <<stage, rev, plans>>
  BY WriteStays DEF stackVars
<1>2. CASE Ask(w)
  BY <1>1, <1>2 DEF Ask, PlansInv, Readers, TypeOK
<1>3. CASE Enter(w)
  <2>1. UNCHANGED <<late, cmd, misdirected>>
    BY <1>3 DEF Enter
  <2>2. CASE UNCHANGED made /\ wr' = [wr EXCEPT ![w] = "done"] /\ wr[w] = "asking"
    BY <1>1, <2>1, <2>2 DEF PlansInv, Readers, TypeOK
  <2>3. CASE /\ plans # 0 /\ wr' = [wr EXCEPT ![w] = "sending"]
             /\ made' = [made EXCEPT ![w] = plans] /\ wr[w] = "asking"
    BY <1>1, <2>1, <2>3 DEF PlansInv, Readers, TypeOK
  <2> QED
    BY <1>3, <2>2, <2>3 DEF Enter
<1>4. CASE Submit(w)
  <2>1. /\ UNCHANGED <<made, late, misdirected>> /\ wr[w] = "sending"
        /\ \/ /\ wr' = [wr EXCEPT ![w] = "waiting"]
              /\ cmd' = [cmd EXCEPT ![w] = "queued"]
           \/ wr' = [wr EXCEPT ![w] = "done"] /\ cmd' = cmd
    BY <1>4 DEF Submit
  <2>2. Readers' \subseteq Readers
    BY <2>1 DEF Readers, TypeOK
  <2>3. \A v \in Write : cmd'[v] = "queued" /\ v \notin late => wr'[v] = "waiting"
    BY <2>1 DEF PlansInv, TypeOK
  <2> QED
    BY <1>1, <2>1, <2>2, <2>3 DEF PlansInv
<1>5. CASE Deadline(w)
  BY <1>1, <1>5 DEF Deadline, PlansInv, Readers
<1>6. CASE Take(w)
  <2>1. UNCHANGED <<wr, made, late>> /\ cmd[w] = "queued"
    BY <1>6 DEF Take
  <2>2. misdirected' = {}
    <3>1. w \notin late => w \in Readers
      BY <2>1 DEF PlansInv, Readers
    <3> QED
      BY <1>6, <3>1 DEF Take, PlansInv
  <2>3. \A v \in Write : cmd'[v] = "queued" => cmd[v] = "queued"
    BY <1>6 DEF Take, TypeOK
  <2> QED
    BY <1>1, <2>1, <2>2, <2>3 DEF PlansInv, Readers
<1>7. CASE Answered(w)
  <2>1. UNCHANGED <<wr, made, late, misdirected>>
    BY <1>7 DEF Answered
  <2>2. \A v \in Write : cmd'[v] = "queued" => cmd[v] = "queued"
    BY <1>7 DEF Answered, TypeOK, FailPending
  <2> QED
    BY <1>1, <2>1, <2>2 DEF PlansInv, Readers
<1>8. CASE Return(w)
  <2>1. /\ UNCHANGED <<made, late, cmd, misdirected>> /\ wr' = [wr EXCEPT ![w] = "done"]
        /\ cmd[w] = "queued" => w \in late
    BY <1>8 DEF Return
  <2> QED
    BY <1>1, <2>1 DEF PlansInv, Readers, TypeOK
<1> QED
  BY <1>2, <1>3, <1>4, <1>5, <1>6, <1>7, <1>8 DEF WriteSteps

LEMMA PlansStep ==
  TypeOK /\ PlansInv /\ [Next]_vars => PlansInv'
<1> SUFFICES ASSUME TypeOK, PlansInv, [Next]_vars
             PROVE  PlansInv'
  OBVIOUS
<1>1. ASSUME \/ (\E c \in Config : Edit(c)) \/ FinishEdit
             \/ (\E t \in Tag : TagSteps(t))
             \/ StartFails \/ StartTasks
             \/ PumpSubscribes \/ PumpBatch \/ PumpRebuild \/ PumpDies
             \/ EngineEnds \/ CommitFails
      PROVE  PlansInv'
  <2>1. UNCHANGED <<plans, rev, wr, made, late, cmd, misdirected>>
    BY <1>1
       DEF Edit, FinishEdit, TagSteps, PlantMoves, Poll, EngineStep, StartFails,
         StartTasks, PumpSubscribes, PumpBatch, PumpRebuild, PumpDies, EngineEnds,
         CommitFails, stackVars, writeVars
  <2>2. stage' \in {"boot", "opcua", "engine", "poller", "swap", "commit"} =>
          stage \in {"boot", "opcua", "engine", "poller", "swap", "commit"}
    BY <1>1
       DEF Edit, FinishEdit, TagSteps, PlantMoves, Poll, EngineStep, StartFails,
         StartTasks, PumpSubscribes, PumpBatch, PumpRebuild, PumpDies, EngineEnds,
         CommitFails, stackVars
  <2> QED
    BY <2>1, <2>2, PlansCalm
<1>2. ASSUME WatchTick PROVE PlansInv'
  <2>1. /\ UNCHANGED <<plans, rev, wr, made, late, cmd, misdirected>>
        /\ stage' \in {"watch", "pause"}
    BY <1>2 DEF WatchTick, Preflight, stackVars, writeVars
  <2> QED
    BY <2>1, PlansCalm
<1>3. ASSUME DrainPoller, NEW w \in Write, cmd'[w] = "queued" PROVE cmd[w] = "queued"
  BY <1>3 DEF DrainPoller, FailPending
<1>4. ASSUME PollerEnds PROVE PlansInv'
  <2>1. /\ UNCHANGED <<plans, rev, wr, made, late, misdirected>> /\ DrainPoller
        /\ stage = "poller"
    BY <1>4 DEF PollerEnds
  <2> QED
    BY <1>3, <2>1, PlansCalm
<1>5. ASSUME ShutdownStep PROVE PlansInv'
  <2>1. /\ UNCHANGED <<plans, rev, wr, made, late, misdirected>>
        /\ cmd' = cmd \/ DrainPoller
        /\ stage' \in {"stopPump", "stopEngine", "stopPoller", "stopped"}
    BY <1>5 DEF ShutdownStep, Shutdown
  <2> QED
    BY <1>3, <2>1, PlansCalm
<1>6. ASSUME StartOpcUa PROVE PlansInv'
  BY <1>6 DEF StartOpcUa, PlansInv, Readers, writeVars
<1>7. ASSUME PauseWrites PROVE PlansInv'
  BY <1>7 DEF PauseWrites, PlansInv, Readers, writeVars
<1>8. ASSUME Swap PROVE PlansInv'
  BY <1>8 DEF Swap, PlansInv, Readers, writeVars
<1>9. ASSUME PumpCommits PROVE PlansInv'
  BY <1>9 DEF PumpCommits, PlansInv, Readers, writeVars
<1>10. CASE UNCHANGED vars
  BY <1>10, PlansCalm DEF vars, stackVars, writeVars
<1> QED
  BY <1>1, <1>2, <1>4, <1>5, <1>6, <1>7, <1>8, <1>9, <1>10, PlansWrite
     DEF Next, Pumping, ReloadSteps, Starting, Callback, Commanding, WriteSteps

-----------------------------------------------------------------------------
(* What a client is told *)

LEMMA ToldInit == Init => ToldInv
BY DEF Init, ToldInv

LEMMA ToldWrite ==
  ASSUME TypeOK, ToldInv, NEW w \in Write, WriteSteps(w)
  PROVE  ToldInv'
<1>1. CASE Ask(w)
  BY <1>1 DEF Ask, ToldInv, TypeOK
<1>2. CASE Enter(w)
  <2>1. UNCHANGED <<cmd, applied>> /\ wr[w] = "asking"
    BY <1>2 DEF Enter
  <2>2. CASE wr' = [wr EXCEPT ![w] = "sending"] /\ UNCHANGED result
    BY <2>1, <2>2 DEF ToldInv, TypeOK
  <2>3. ASSUME NEW r \in {"BadInput", "BadNotWritable"}, wr' = [wr EXCEPT ![w] = "done"],
               result' = [result EXCEPT ![w] = r]
        PROVE  ToldInv'
    BY <2>1, <2>3 DEF ToldInv, TypeOK
  <2> QED
    BY <1>2, <2>2, <2>3 DEF Enter
<1>3. CASE Submit(w)
  <2>1. CASE /\ wr' = [wr EXCEPT ![w] = "waiting"] /\ UNCHANGED result
             /\ cmd' = [cmd EXCEPT ![w] = "queued"]
    BY <1>3, <2>1 DEF Submit, ToldInv, TypeOK
  <2>2. CASE /\ wr' = [wr EXCEPT ![w] = "done"] /\ UNCHANGED cmd
             /\ result' = [result EXCEPT ![w] = "BadNoCommunication"]
    BY <1>3, <2>2 DEF Submit, ToldInv, TypeOK
  <2> QED
    BY <1>3, <2>1, <2>2 DEF Submit
<1>4. CASE Deadline(w)
  BY <1>4 DEF Deadline, ToldInv
<1>5. CASE Take(w)
  <2>1. UNCHANGED <<wr, result, applied>> /\ cmd[w] = "queued"
    BY <1>5 DEF Take
  <2>2. cmd' = [cmd EXCEPT ![w] = "expired"] \/ cmd' = [cmd EXCEPT ![w] = "service"]
    BY <1>5 DEF Take
  <2> QED
    BY <2>1, <2>2 DEF ToldInv, TypeOK
<1>6. CASE Answered(w)
  <2>1. UNCHANGED <<wr, result>> /\ cmd[w] = "service"
    BY <1>6 DEF Answered
  <2>2. CASE cmd' = [cmd EXCEPT ![w] = "acked"] /\ applied' = applied \cup {w}
    BY <2>1, <2>2 DEF ToldInv, TypeOK
  <2>3. CASE cmd' = [cmd EXCEPT ![w] = "failed"] /\ UNCHANGED applied
    BY <2>1, <2>3 DEF ToldInv, TypeOK
  <2>4. ASSUME NEW c \in {"expired", "lost"},
               applied' \in {applied, applied \cup {w}},
               cmd' \in {[cmd EXCEPT ![w] = c], FailPending([cmd EXCEPT ![w] = c])}
        PROVE  ToldInv'
    <3> DEFINE told == [cmd EXCEPT ![w] = c]
    <3>1. /\ told \in Commands /\ told[w] = c /\ c # "queued"
          /\ \A v \in Write \ {w} : told[v] = cmd[v]
      BY DEF TypeOK, Commands
    <3>0. cmd' = told \/ cmd' = FailPending(told)
      BY <2>4
    <3> HIDE DEF told
    <3>2. cmd'[w] = c
      BY <3>0, <3>1, FailPendingType
    <3>3. \A v \in Write \ {w} :
            \/ cmd'[v] = cmd[v]
            \/ cmd[v] = "queued" /\ cmd'[v] = "dropped"
      BY <3>0, <3>1, FailPendingType
    <3>4. \A v \in Write \ {w} : v \in applied' <=> v \in applied
      BY <2>4
    <3> QED
      BY <2>1, <3>2, <3>3, <3>4 DEF ToldInv
  <2> QED
    BY <1>6, <2>2, <2>3, <2>4 DEF Answered
<1>7. CASE Return(w)
  <2>1. /\ UNCHANGED <<cmd, applied>> /\ wr[w] = "waiting"
        /\ wr' = [wr EXCEPT ![w] = "done"]
    BY <1>7 DEF Return
  <2>2. PICK r : /\ result' = [result EXCEPT ![w] = r]
                 /\ r = "Good" => cmd[w] = "acked"
                 /\ r = "BadDeviceFailure" => cmd[w] = "failed"
                 /\ r \in {"BadNoCommunication", "BadNotWritable", "BadInput"} =>
                      cmd[w] = "dropped"
    BY <1>7 DEF Return, Status, TimedOut
  <2> QED
    BY <2>1, <2>2 DEF ToldInv, TypeOK
<1> QED
  BY <1>1, <1>2, <1>3, <1>4, <1>5, <1>6, <1>7 DEF WriteSteps

LEMMA ToldStep ==
  TypeOK /\ ToldInv /\ [Next]_vars => ToldInv'
<1> SUFFICES ASSUME TypeOK, ToldInv, [Next]_vars
             PROVE  ToldInv'
  OBVIOUS
<1>1. ASSUME UNCHANGED <<wr, result, applied>>, cmd' = cmd \/ DrainPoller
      PROVE  ToldInv'
  BY <1>1 DEF ToldInv, DrainPoller, FailPending, TypeOK
<1>2. ASSUME \/ (\E c \in Config : Edit(c)) \/ FinishEdit
             \/ (\E t \in Tag : TagSteps(t))
             \/ StartFails \/ Starting \/ Pumping \/ PumpDies \/ WatchTick
             \/ ReloadSteps \/ ShutdownStep
      PROVE  ToldInv'
  <2>1. UNCHANGED <<wr, result, applied>> /\ (cmd' = cmd \/ DrainPoller)
    BY <1>2
       DEF Edit, FinishEdit, TagSteps, PlantMoves, Poll, EngineStep, StartFails,
         Starting, StartTasks, StartOpcUa, Pumping, PumpSubscribes, PumpBatch,
         PumpRebuild, PumpCommits, PumpDies, WatchTick, ReloadSteps, PauseWrites,
         EngineEnds, PollerEnds, Swap, CommitFails, ShutdownStep, Shutdown, writeVars
  <2> QED
    BY <1>1, <2>1
<1>3. CASE UNCHANGED vars
  BY <1>1, <1>3 DEF vars, writeVars
<1> QED
  BY <1>2, <1>3, ToldWrite DEF Next, Callback, Commanding, WriteSteps

-----------------------------------------------------------------------------
(* The theorems *)

LEMMA InitInv == Init => IInv
BY TypeInit, EditInit, StoreInit, NodeInit, PlansInit, ToldInit DEF IInv, StoreInv

LEMMA StepInv == IInv /\ [Next]_vars => IInv'
BY TypeStep, EditStep, StoreStep, NodeStep, PlansStep, ToldStep DEF IInv, StoreInv

\* Every reachable state satisfies the inductive invariant.
THEOREM Invariant == Spec => []IInv
<1> QED
  BY InitInv, StepInv, PTL DEF Spec

\* The variables keep their types: there is a number left for every generation
\* that the edits of the file can bring about.
THEOREM TypeCorrect == Spec => []TypeOK
<1>1. IInv => TypeOK
  BY DEF IInv
<1> QED
  BY <1>1, Invariant, PTL

\* Between reloads no store, node or database record holds a value of a recipe
\* its tag no longer has (reload in stack.rs).
THEOREM RecipesHold == Spec => []RecipeKept
<1>1. IInv => RecipeKept
  BY ConfigFacts DEF IInv, RecipeKept, TypedInv, NodeInv, DiskInv, TypeOK
<1> QED
  BY <1>1, Invariant, PTL

\* When nothing is under way every node shows what was polled last, through lags
\* and reloads (the pump in opcua-gateway/src/lib.rs).
THEOREM NodesFollow == Spec => []NodesCurrent
<1>1. ASSUME IInv PROVE NodesCurrent
  <2> SUFFICES ASSUME Quiet, NEW t \in Tag \ missed
               PROVE  nodes[t] = IF t \in Regs(cfg)
                                 THEN Computed(cfg, t, raw[cacheOf[rev]][t], None)
                                 ELSE NoNode
    BY DEF NodesCurrent
  <2>1. CASE t \in Regs(cfg)
    BY <1>1, <2>1 DEF IInv, Quiet, NodeInv, NewsInv
  <2>2. CASE t \notin Regs(cfg)
    BY <1>1, <2>2 DEF IInv, Quiet, NodeInv
  <2> QED
    BY <2>1, <2>2
<1> QED
  BY <1>1, Invariant, PTL

\* No command reaches a device with the inverse of another generation
\* (pause_writes in opcua-gateway/src/lib.rs).
THEOREM WritesFresh == Spec => []NoStaleWrite
<1>1. IInv => NoStaleWrite
  BY DEF IInv, PlansInv, NoStaleWrite
<1> QED
  BY <1>1, Invariant, PTL

\* What a client is told agrees with the device (proto_error_status in
\* opcua-gateway/src/write.rs).
THEOREM ClientsToldTruth == Spec => []ClientTold
<1>1. IInv => ClientTold
  BY DEF IInv, ToldInv, ClientTold
<1> QED
  BY <1>1, Invariant, PTL

LEMMA StepReadings ==
  IInv /\ [Next]_vars =>
    [\A t \in Tag :
       LET old == raw[cacheOf[rev]][t]
       IN rev' # rev /\ SameSource(cfg, cfg', t) /\ old # None =>
            typed'[rev'][t] = Computed(cfg', t, old, None)]_vars
<1> SUFFICES ASSUME IInv, Next, NEW t \in Tag, rev' # rev, SameSource(cfg, cfg', t),
                    raw[cacheOf[rev]][t] # None
             PROVE  typed'[rev'][t] = Computed(cfg', t, raw[cacheOf[rev]][t], None)
  OBVIOUS
<1>1. Swap
  <2>1. ~\E w \in Write : WriteSteps(w)
    BY WriteStays DEF stackVars
  <2> QED
    BY <2>1
       DEF Next, TagSteps, Pumping, ReloadSteps, Starting, Callback, Commanding,
       WriteSteps, Edit, FinishEdit, PlantMoves, Poll, EngineStep, StartFails, StartTasks,
       StartOpcUa, PumpSubscribes, PumpBatch, PumpRebuild, PumpCommits, PumpDies,
       WatchTick, Preflight, PauseWrites, EngineEnds, PollerEnds, CommitFails,
       ShutdownStep, stackVars
<1>2. TypeOK /\ EditInv /\ StoreInv
  BY DEF IInv, StoreInv
<1>3. /\ next \in Config /\ rev' = rev + 1 /\ cfg' = next /\ stage = "swap"
      /\ rev + 1 \in Generation /\ typed' = [typed EXCEPT ![rev + 1] = Refreshed]
      /\ FinalRaw \in RawStore
  BY <1>1, <1>2, SwapType DEF StoreInv
<1>4. t \in Regs(next) /\ FinalRaw[t] = raw[cacheOf[rev]][t]
  BY <1>2, <1>3, FinalFacts DEF SameSource
<1>5. FinalRaw[t] \in Raw \cup {None} /\ FinalTyped[t] \in Typed \cup {None}
  BY <1>2, <1>3, FinalType DEF RawStore, TypedStore
<1>6. Refreshed[t] = Computed(next, t, FinalRaw[t], None)
  <2>1. Refreshed[t] = Computed(next, t, FinalRaw[t], FinalTyped[t])
    BY <1>4 DEF Refreshed
  <2> QED
    BY <1>3, <1>4, <1>5, <2>1, ComputedFacts
<1>7. typed'[rev + 1][t] = Refreshed[t]
  BY <1>2, <1>3 DEF TypeOK
<1> QED
  BY <1>3, <1>4, <1>6, <1>7

\* A new generation starts with the last reading the old poller made of every
\* register that is still acquired the same way (reload in stack.rs).
THEOREM ReadingsKept == Spec => ReadingsSurvive
<1> QED
  BY StepReadings, Invariant, PTL DEF Spec, ReadingsSurvive
==============================================================================
