----------------------------- MODULE Generations -----------------------------
(***************************************************************************)
(* The service stack and its hot reload: the file watcher, the generations *)
(* of poller, tag engine and stores that RunningStack swaps under a        *)
(* running OPC UA server, the value pump that keeps the nodes current, and *)
(* the write callbacks with the lock over the write plans.                 *)
(*                                                                         *)
(* A generation is a number; a value is the recipe it was made by and the  *)
(* number of the plant reading it stems from.  Qualities, time stamps,     *)
(* deadbands and formulas over other tags are the matter of TagEngine, the *)
(* connection and the queue's priorities that of ChannelTask.              *)
(***************************************************************************)
EXTENDS Naturals, FiniteSets

CONSTANTS
  Tag,        \* names of registers
  Readable,   \* those whose reads succeed; the others can only be written
  Write,      \* the writes clients may issue, one callback each
  Target,     \* [Write -> Tag]
  Config,     \* what the configuration file may hold
  Cfg,        \* [Config -> record], see ConfigAssumption
  Torn,       \* the file in the middle of a write that is not atomic
  First,      \* the configuration the process is started with
  None,       \* no value, also of a node
  NoNode,     \* a node that is not in the address space
  Workers,    \* worker threads of the tokio runtime
  QueueCap,   \* of a channel's command queue (64 in the code)
  MaxPlant,   \* bound: all readings stay once one has changed so often
  MaxEdits    \* bound: changes of the file

Recipe == [source : Nat, transform : Nat]

\* regs are the registers with the two parts of register_signatures, plan is
\* what else build_all depends on, startup the settings a reload refuses.
ASSUME ConfigAssumption ==
  /\ Target \in [Write -> Tag]
  /\ Torn \in Config /\ First \in Config \ {Torn} /\ None \notin Config
  /\ None \notin [source : Nat, ver : Nat]
  /\ NoNode \notin [recipe : Recipe, ver : Nat] \cup {None}
  /\ DOMAIN Cfg = Config
  /\ \A c \in Config :
       /\ DOMAIN Cfg[c].regs \subseteq Tag
       /\ \A t \in DOMAIN Cfg[c].regs : Cfg[c].regs[t] \in Recipe
       /\ Cfg[c].writable \subseteq DOMAIN Cfg[c].regs
       /\ Cfg[c].plan \in Nat /\ Cfg[c].startup \in Nat
       /\ Cfg[c].loads \in BOOLEAN /\ Cfg[c].compiles \in BOOLEAN
  /\ Cfg[First].loads /\ Cfg[First].compiles
  /\ Workers \in Nat \ {0} /\ QueueCap \in Nat \ {0}
  /\ MaxPlant \in Nat /\ MaxEdits \in Nat

VARIABLES
  file, target,        \* the bytes on disk, and what is being written
  edits,               \* changes of the file so far
  seen, pending,       \* the watcher's locals
  stage,               \* the await the stack is at
  next, cfg, rev,      \* candidate, active configuration and its revision
  raw, typed,          \* [generation -> [tag -> slot]], the two stores
  cacheOf,             \* [generation -> generation whose raw cache it uses]
  news,                \* [generation -> raw changes its engine has to process]
  engine, poller,      \* the generation that runs, 0 for none
  disk,                \* retentive values
  pump, nodes,         \* the value pump and the OPC UA variables
  plans,               \* generation of the write plans, 0 for none
  wr, made, late,      \* callbacks: where each is, its plans, deadline passed
  cmd, result,         \* the command of each write and what the client is told
  plant,               \* how often each register has changed
  applied, misdirected,\* history: writes the device did, and wrong ones
  missed               \* history: changes announced before the pump listened

fileVars   == <<file, target, edits>>
watchVars  == <<seen, pending>>
stackVars  == <<stage, next, cfg, rev>>
storeVars  == <<raw, typed, cacheOf, news, disk>>
taskVars   == <<engine, poller>>
pumpVars   == <<pump, nodes, missed>>
writeVars  == <<wr, made, late, cmd, result, applied, misdirected>>
vars == <<fileVars, watchVars, stackVars, storeVars, taskVars, pumpVars,
          plans, writeVars, plant>>

Generation == 1 .. MaxEdits + 2

\* The tags that have a node, and a slot in the stores.
Regs(c) == DOMAIN Cfg[c].regs

Raw        == [source : Nat, ver : 0 .. MaxPlant]
Typed      == [recipe : Recipe, ver : 0 .. MaxPlant]
Cleared    == [t \in Tag |-> None]

PumpState == [alive : BOOLEAN, gen : Generation, listens : BOOLEAN,
              rebuilt : BOOLEAN, lagged : BOOLEAN, tags : SUBSET Tag]

Reloading == {"pause", "engine", "poller", "swap", "commit"}
Stopping  == {"stopPump", "stopEngine", "stopPoller"}
Stage     == {"boot", "opcua", "watch", "stopped", "failed"}
               \cup Reloading \cup Stopping

TypeOK ==
  /\ file \in Config /\ target \in Config /\ edits \in 0 .. MaxEdits
  /\ seen \in Config \cup {None} /\ pending \in Config \cup {None}
  /\ stage \in Stage /\ next \in Config \cup {None}
  /\ cfg \in Config /\ rev \in Generation
  /\ raw \in [Generation -> [Tag -> Raw \cup {None}]]
  /\ typed \in [Generation -> [Tag -> Typed \cup {None}]]
  /\ cacheOf \in [Generation -> Generation]
  /\ news \in [Generation -> SUBSET Tag]
  /\ engine \in Generation \cup {0} /\ poller \in Generation \cup {0}
  /\ disk \in [Tag -> Typed \cup {None}]
  /\ pump \in PumpState
  /\ nodes \in [Tag -> Typed \cup {None, NoNode}]
  /\ plans \in Generation \cup {0}
  /\ wr \in [Write -> {"idle", "asking", "sending", "waiting", "done"}]
  /\ made \in [Write -> Generation] /\ late \in SUBSET Write
  /\ cmd \in [Write -> {"none", "queued", "service", "acked", "failed",
                        "expired", "dropped", "lost"}]
  /\ result \in [Write -> {"none", "Good", "BadTimeout", "BadDeviceFailure",
                           "BadNoCommunication", "BadNotWritable", "BadInput",
                           "BadCommunicationError"}]
  /\ plant \in [Tag -> 0 .. MaxPlant]
  /\ applied \in SUBSET Write /\ misdirected \in SUBSET Write
  /\ missed \in SUBSET Tag

\* The file may have changed since the process loaded First from it.
Init ==
  /\ file \in Config \ {Torn} /\ target = file /\ edits = 0
  /\ seen = None /\ pending = None
  /\ stage = "boot" /\ next = None /\ cfg = First /\ rev = 1
  /\ raw = [g \in Generation |-> Cleared]
  /\ typed = [g \in Generation |-> Cleared]
  /\ cacheOf = [g \in Generation |-> g]
  /\ news = [g \in Generation |-> {}]
  /\ engine = 0 /\ poller = 0
  /\ disk = [t \in Tag |-> None]
  /\ pump = [alive |-> FALSE, gen |-> 1, listens |-> FALSE, rebuilt |-> FALSE,
             lagged |-> FALSE, tags |-> {}]
  /\ nodes = [t \in Tag |-> NoNode]
  /\ plans = 0
  /\ wr = [w \in Write |-> "idle"] /\ made = [w \in Write |-> 1]
  /\ late = {} /\ cmd = [w \in Write |-> "none"]
  /\ result = [w \in Write |-> "none"]
  /\ plant = [t \in Tag |-> 0]
  /\ applied = {} /\ misdirected = {} /\ missed = {}

----------------------------------------------------------------------------
(***************************************************************************)
(* Configurations                                                          *)
(***************************************************************************)

\* The address space of c before values are pushed: a variable for every
\* configured tag, in place of the one that may have been there.
Built(c) == [t \in Tag |-> IF t \in Regs(c) THEN None ELSE NoNode]

\* All of a store pushed into the address space of c.
BuiltFrom(c, g) == [t \in Tag |-> IF t \in Regs(c) THEN typed[g][t] ELSE NoNode]

\* Whether the acquisition of t, or its whole recipe, is the same in both.
SameSource(c, d, t) ==
  /\ t \in Regs(c) \cap Regs(d)
  /\ Cfg[c].regs[t].source = Cfg[d].regs[t].source

SameRecipe(c, d, t) ==
  t \in Regs(c) \cap Regs(d) /\ Cfg[c].regs[t] = Cfg[d].regs[t]

PollingChanged(c, d) ==
  \/ Regs(c) # Regs(d)
  \/ \E t \in Regs(d) : ~SameSource(c, d, t)
  \/ Cfg[c].plan # Cfg[d].plan

\* What the engine makes of a raw slot; a slot never read keeps what is there.
Computed(c, t, slot, old) ==
  IF slot = None THEN old
  ELSE [recipe |-> [source |-> slot.source, transform |-> Cfg[c].regs[t].transform],
        ver |-> slot.ver]

\* Workers held by a reload that waits for the writer lock of the plans.
PauseHolds == IF stage = "pause" THEN 1 ELSE 0

\* Mutant of FreeWorker: the round trip is awaited without block_in_place.
FreeWorkerUnlessWriting ==
  Cardinality({w \in Write : wr[w] \in {"asking", "sending", "waiting"}})
    + PauseHolds < Workers

\* Synchronous waits hold a worker: callbacks and the reload that wait for the
\* plans' lock.  Timers and tasks make progress only while a worker is left.
FreeWorker ==
  Cardinality({w \in Write : wr[w] = "asking"}) + PauseHolds < Workers

Readers == {w \in Write : wr[w] \in {"sending", "waiting"}}

----------------------------------------------------------------------------
(***************************************************************************)
(* The operator's edits and the plant                                      *)
(***************************************************************************)

\* Replace the file as a whole, or begin to write it in place.
Edit(c) ==
  /\ file # Torn /\ c \notin {file, Torn} /\ edits < MaxEdits
  /\ edits' = edits + 1 /\ target' = c
  /\ file' \in {c, Torn}
  /\ UNCHANGED <<watchVars, stackVars, storeVars, taskVars, pumpVars, plans,
                 writeVars, plant>>

FinishEdit ==
  /\ file = Torn
  /\ file' = target
  /\ UNCHANGED <<target, edits, watchVars, stackVars, storeVars, taskVars,
                 pumpVars, plans, writeVars, plant>>

PlantMoves(t) ==
  /\ \A u \in Tag : plant[u] < MaxPlant
  /\ plant' = [plant EXCEPT ![t] = @ + 1]
  /\ UNCHANGED <<fileVars, watchVars, stackVars, storeVars, taskVars, pumpVars,
                 plans, writeVars>>

----------------------------------------------------------------------------
(***************************************************************************)
(* start_stack and the running generation                                  *)
(***************************************************************************)

\* Storage, engine or OPC UA server cannot be brought up: what runs is stopped.
StartFails ==
  /\ stage \in {"boot", "opcua"}
  /\ stage' = "failed" /\ engine' = 0 /\ poller' = 0
  /\ UNCHANGED <<fileVars, watchVars, next, cfg, rev, storeVars, pumpVars,
                 plans, writeVars, plant>>

StartTasks ==
  /\ stage = "boot"
  /\ stage' = "opcua" /\ poller' = rev /\ engine' = rev
  /\ UNCHANGED <<fileVars, watchVars, next, cfg, rev, storeVars, pumpVars,
                 plans, writeVars, plant>>

\* opcua_gateway::spawn: plans, address space and the snapshot; the pump's task
\* subscribes when it first runs.
StartOpcUa ==
  /\ stage = "opcua"
  /\ stage' = "watch"
  /\ plans' = rev
  /\ nodes' = BuiltFrom(cfg, rev)
  /\ pump' = [pump EXCEPT !.alive = TRUE, !.gen = rev]
  /\ UNCHANGED <<fileVars, watchVars, next, cfg, rev, storeVars, taskVars,
                 missed, writeVars, plant>>

\* A reading of the running poller, whose configuration is the active one.
Poll(t) ==
  /\ FreeWorker
  /\ poller # 0 /\ t \in Regs(cfg) \cap Readable
  /\ LET k    == cacheOf[poller]
         slot == [source |-> Cfg[cfg].regs[t].source, ver |-> plant[t]]
     IN /\ raw[k][t] # slot
        /\ raw' = [raw EXCEPT ![k][t] = slot]
        /\ news' = [g \in Generation |->
                      IF cacheOf[g] = k THEN news[g] \cup {t} ELSE news[g]]
  /\ UNCHANGED <<fileVars, watchVars, stackVars, typed, cacheOf, disk, taskVars,
                 pumpVars, plans, writeVars, plant>>

\* What a batch of the typed store does to the pump's subscription: one more
\* tag to look at, or a lag that costs older batches.  Before the task has
\* subscribed the batch has no receiver.
Announce(g, t) ==
  IF pump.alive /\ pump.gen = g
  THEN IF pump.listens
       THEN /\ \/ pump' = [pump EXCEPT !.tags = @ \cup {t}]
               \/ pump' = [pump EXCEPT !.lagged = TRUE, !.tags = {t}]
            /\ missed' = missed \ {t}
       ELSE missed' = missed \cup {t} /\ UNCHANGED pump
  ELSE UNCHANGED <<pump, missed>>

EngineStep(t) ==
  /\ FreeWorker
  /\ engine # 0 /\ t \in news[engine]
  /\ LET val == Computed(cfg, t, raw[cacheOf[engine]][t], typed[engine][t])
     IN /\ typed' = [typed EXCEPT ![engine][t] = val]
        /\ disk' = [disk EXCEPT ![t] = val]
        /\ Announce(engine, t)
  /\ news' = [news EXCEPT ![engine] = @ \ {t}]
  /\ UNCHANGED <<fileVars, watchVars, stackVars, raw, cacheOf, taskVars, nodes,
                 plans, writeVars, plant>>

----------------------------------------------------------------------------
(***************************************************************************)
(* The value pump                                                          *)
(***************************************************************************)

PumpRuns == FreeWorker /\ pump.alive

PumpSubscribes ==
  /\ PumpRuns /\ ~pump.listens
  /\ pump' = [pump EXCEPT !.listens = TRUE]
  /\ UNCHANGED <<fileVars, watchVars, stackVars, storeVars, taskVars, nodes,
                 missed, plans, writeVars, plant>>

\* push_values: set_values only reaches nodes that exist.
Pushed(S) ==
  [t \in Tag |-> IF t \in S /\ nodes[t] # NoNode THEN typed[pump.gen][t]
                 ELSE nodes[t]]

\* Mutant of Refresh: the pump carries on after a lag.
RefreshNothing == {}

\* What a lagged pump pushes.
Refresh == Tag

\* A batch is read from the store when it is handled, not when it was sent; a
\* lag refreshes every node.
PumpBatch ==
  /\ PumpRuns /\ pump.listens /\ ~pump.rebuilt
  /\ stage # "commit"
  /\ \/ /\ pump.lagged
        /\ nodes' = Pushed(Refresh)
        /\ pump' = [pump EXCEPT !.lagged = FALSE]
        /\ missed' = {}
     \/ /\ ~pump.lagged /\ UNCHANGED missed
        /\ \E t \in pump.tags :
             /\ nodes' = Pushed({t})
             /\ pump' = [pump EXCEPT !.tags = @ \ {t}]
  /\ UNCHANGED <<fileVars, watchVars, stackVars, storeVars, taskVars, plans,
                 writeVars, plant>>

\* Nobody refers to the stores of the old generation any more.
DropOld ==
  LET Kept(g) == g = rev \/ g = cacheOf[rev]
  IN /\ raw' = [g \in Generation |-> IF Kept(g) THEN raw[g] ELSE Cleared]
     /\ typed' = [g \in Generation |-> IF g = rev THEN typed[g] ELSE Cleared]
     /\ news' = [g \in Generation |-> IF g = rev THEN news[g] ELSE {}]

\* The reconfigure arm, which goes before the stream: nodes that are gone are
\* deleted and the rest replaced without a value.
PumpRebuild ==
  /\ PumpRuns /\ pump.listens /\ ~pump.rebuilt
  /\ stage = "commit"
  /\ nodes' = Built(cfg)
  /\ pump' = [pump EXCEPT !.rebuilt = TRUE]
  /\ UNCHANGED <<fileVars, watchVars, stackVars, storeVars, taskVars, missed,
                 plans, writeVars, plant>>

\* ... then it subscribes to the new store, pushes all of it, installs the
\* plans and reports back, which ends the reload.
PumpCommits ==
  /\ PumpRuns /\ pump.rebuilt
  /\ nodes' = BuiltFrom(cfg, rev)
  /\ pump' = [pump EXCEPT !.gen = rev, !.rebuilt = FALSE, !.lagged = FALSE,
                          !.tags = {}]
  /\ plans' = rev
  /\ missed' = {}
  /\ stage' = "watch" /\ next' = None
  /\ DropOld
  /\ UNCHANGED <<fileVars, watchVars, cfg, rev, cacheOf, disk, taskVars,
                 writeVars, plant>>

\* The server task or the pump ends by itself.
PumpDies ==
  /\ pump.alive /\ stage \in Reloading \cup {"watch"}
  /\ pump' = [pump EXCEPT !.alive = FALSE, !.rebuilt = FALSE]
  /\ UNCHANGED <<fileVars, watchVars, stackVars, storeVars, taskVars, nodes,
                 missed, plans, writeVars, plant>>

----------------------------------------------------------------------------
(***************************************************************************)
(* The watcher and a reload                                                *)
(***************************************************************************)

\* can_reload and the checks at the head of reload, then everything that can
\* fail for the configuration's sake: engine, formulas, inverse write plans.
Accepts(c) ==
  /\ Cfg[c].loads
  /\ pump.alive
  /\ Cfg[c].startup = Cfg[cfg].startup
  /\ Cfg[c].compiles

\* Mutant of Prepared: the retentive values are left in the store.
PreparedRestored == disk

\* TagEngine::new restores retentive values, which a reload then clears.
Prepared == Cleared

\* The slots of the new generation: of the tags in S the old one's snapshot.
Seeded(S, old, slots) == [t \in Tag |-> IF t \in S /\ old[t] # None THEN old[t]
                                        ELSE slots[t]]

\* The part of reload up to pause_writes: a complete new generation is
\* prepared next to the running one, seeded with what it holds now.
Preflight(c) ==
  /\ next' = c /\ stage' = "pause"
  /\ cacheOf' = [cacheOf EXCEPT ![rev + 1] =
                   IF PollingChanged(cfg, c) THEN rev + 1 ELSE cacheOf[rev]]
  /\ raw' = IF PollingChanged(cfg, c)
            THEN [raw EXCEPT ![rev + 1] =
                    Seeded({t \in Tag : SameSource(cfg, c, t)},
                           raw[cacheOf[rev]], raw[rev + 1])]
            ELSE raw
  /\ typed' = [typed EXCEPT ![rev + 1] =
                 Seeded({t \in Tag : SameRecipe(cfg, c, t)}, typed[rev],
                        Prepared)]
  /\ news' = [news EXCEPT ![rev + 1] = {}]
  /\ UNCHANGED <<cfg, rev, disk>>

\* Mutant of Sighted: the content counts as loaded when it is first seen.
SightedAsSeen ==
  /\ file # seen /\ pending # file
  /\ pending' = file /\ seen' = file

\* New content is only remembered at its first read.
Sighted ==
  /\ file # seen /\ pending # file
  /\ pending' = file /\ UNCHANGED seen

\* The second identical read.
Debounced == file # seen /\ pending = file

\* The watcher's tick: unreadable or already seen, first sight of new content,
\* or a second identical read, which loads it.  The writer of the file is at
\* work for less than a period, so no second read finds it torn.
WatchTick ==
  /\ stage = "watch"
  /\ ~(file = Torn /\ pending = Torn)
  /\ \/ /\ pending # None /\ pending' = None
        /\ UNCHANGED <<seen, stackVars, storeVars>>
     \/ /\ Sighted
        /\ UNCHANGED <<stackVars, storeVars>>
     \/ /\ Debounced
        /\ seen' = file /\ pending' = None
        /\ IF file # cfg /\ Accepts(file) THEN Preflight(file)
           ELSE UNCHANGED <<stackVars, storeVars>>
  /\ UNCHANGED <<fileVars, taskVars, pumpVars, plans, writeVars, plant>>

\* Mutant of PauseWrites: the plans are cleared under a lock of their own.
PauseWritesAtOnce ==
  /\ stage = "pause"
  /\ plans' = 0 /\ stage' = "engine"
  /\ UNCHANGED <<fileVars, watchVars, next, cfg, rev, storeVars, taskVars,
                 pumpVars, writeVars, plant>>

\* pause_writes gets the writer lock when the last reader has left.
PauseWrites ==
  /\ stage = "pause"
  /\ Readers = {}
  /\ plans' = 0 /\ stage' = "engine"
  /\ UNCHANGED <<fileVars, watchVars, next, cfg, rev, storeVars, taskVars,
                 pumpVars, writeVars, plant>>

\* The old engine has ended; retentive values of edited recipes are forgotten.
EngineEnds ==
  /\ FreeWorker /\ stage = "engine"
  /\ engine' = 0
  /\ disk' = [t \in Tag |-> IF SameRecipe(cfg, next, t) THEN disk[t] ELSE None]
  /\ stage' = IF PollingChanged(cfg, next) THEN "poller" ELSE "swap"
  /\ UNCHANGED <<fileVars, watchVars, next, cfg, rev, raw, typed, cacheOf, news,
                 poller, pumpVars, plans, writeVars, plant>>

\* The commands after the queue has been failed as a whole.
FailPending(commands) ==
  [w \in Write |-> IF commands[w] = "queued" THEN "dropped" ELSE commands[w]]

\* A channel task ends between commands and answers what is queued.
DrainPoller ==
  /\ FreeWorker
  /\ \A w \in Write : cmd[w] # "service"
  /\ poller' = 0
  /\ cmd' = FailPending(cmd)

PollerEnds ==
  /\ stage = "poller"
  /\ DrainPoller
  /\ stage' = "swap"
  /\ UNCHANGED <<fileVars, watchVars, next, cfg, rev, storeVars, engine,
                 pumpVars, plans, wr, made, late, result, applied, misdirected,
                 plant>>

\* Mutant of FinalRaw: what was sampled before the old poller drained.
FinalRawEarly == raw[cacheOf[rev + 1]]

\* The raw snapshots after all old writers drained.
FinalRaw ==
  IF PollingChanged(cfg, next)
  THEN Seeded({t \in Tag : SameSource(cfg, next, t)}, raw[cacheOf[rev]],
              raw[rev + 1])
  ELSE raw[cacheOf[rev]]

\* The published values after the old engine ended.
FinalTyped ==
  Seeded({t \in Tag : SameRecipe(cfg, next, t)}, typed[rev], typed[rev + 1])

\* The final snapshots of the old generation go into the new one, its engine
\* recomputes every tag from the raw cache, and its tasks start.
Swap ==
  /\ stage = "swap"
  /\ LET new  == rev + 1
         k    == cacheOf[new]
         caps == FinalRaw
         pubs == FinalTyped
         refreshed == [t \in Tag |-> IF t \in Regs(next)
                                     THEN Computed(next, t, caps[t], pubs[t])
                                     ELSE None]
     IN /\ raw' = [raw EXCEPT ![k] = caps]
        /\ typed' = [typed EXCEPT ![new] = refreshed]
        /\ disk' = [t \in Tag |-> IF t \in Regs(next) /\ caps[t] # None
                                  THEN refreshed[t] ELSE disk[t]]
        /\ engine' = new /\ rev' = new
        /\ poller' = IF PollingChanged(cfg, next) THEN new ELSE poller
  /\ cfg' = next
  /\ stage' = "commit"
  /\ UNCHANGED <<fileVars, watchVars, next, cacheOf, news, pumpVars, plans,
                 writeVars, plant>>

\* The pump is gone: the reload reports it, the new generation stays active
\* and its writes stay refused.
CommitFails ==
  /\ stage = "commit" /\ ~pump.alive
  /\ stage' = "watch" /\ next' = None
  /\ UNCHANGED <<fileVars, watchVars, cfg, rev, storeVars, taskVars, pumpVars,
                 plans, writeVars, plant>>

\* A stop is seen between ticks; opcua, engine and poller go down in this order.
Shutdown ==
  \/ /\ stage = "watch" /\ stage' = "stopPump"
     /\ UNCHANGED <<storeVars, taskVars, pumpVars, cmd>>
  \/ /\ stage = "stopPump" /\ FreeWorker /\ stage' = "stopEngine"
     /\ pump' = [pump EXCEPT !.alive = FALSE]
     /\ UNCHANGED <<storeVars, taskVars, nodes, missed, cmd>>
  \/ /\ stage = "stopEngine" /\ FreeWorker /\ stage' = "stopPoller"
     /\ engine' = 0
     /\ UNCHANGED <<storeVars, poller, pumpVars, cmd>>
  \/ /\ stage = "stopPoller" /\ DrainPoller /\ stage' = "stopped"
     /\ UNCHANGED <<storeVars, engine, pumpVars>>

ShutdownStep ==
  /\ Shutdown
  /\ UNCHANGED <<fileVars, watchVars, next, cfg, rev, plans, wr, made, late,
                 result, applied, misdirected, plant>>

----------------------------------------------------------------------------
(***************************************************************************)
(* Write callbacks and their commands                                      *)
(***************************************************************************)

\* A client writes: the callback runs on a worker and asks for the read lock.
Ask(w) ==
  /\ FreeWorker
  /\ wr[w] = "idle" /\ stage \in Reloading \cup {"watch"}
  /\ nodes[Target[w]] # NoNode
  /\ wr' = [wr EXCEPT ![w] = "asking"]
  /\ UNCHANGED <<fileVars, watchVars, stackVars, storeVars, taskVars, pumpVars,
                 plans, made, late, cmd, result, applied, misdirected, plant>>

\* The lock is fair: nobody overtakes the waiting writer.  No plan for the tag
\* or a value that cannot be converted is answered at once.
Enter(w) ==
  /\ wr[w] = "asking" /\ stage # "pause"
  /\ IF plans # 0 /\ Target[w] \in Cfg[cfg].writable
     THEN \/ /\ wr' = [wr EXCEPT ![w] = "sending"]
             /\ made' = [made EXCEPT ![w] = plans]
             /\ UNCHANGED result
          \/ /\ wr' = [wr EXCEPT ![w] = "done"]
             /\ result' = [result EXCEPT ![w] = "BadInput"]
             /\ UNCHANGED made
     ELSE /\ wr' = [wr EXCEPT ![w] = "done"]
          /\ result' = [result EXCEPT ![w] = "BadNotWritable"]
          /\ UNCHANGED made
  /\ UNCHANGED <<fileVars, watchVars, stackVars, storeVars, taskVars, pumpVars,
                 plans, late, cmd, applied, misdirected, plant>>

\* sender.send(cmd).await: room in the queue, or nobody behind it.
Submit(w) ==
  /\ wr[w] = "sending"
  /\ \/ /\ poller # 0
        /\ Cardinality({v \in Write : cmd[v] = "queued"}) < QueueCap
        /\ wr' = [wr EXCEPT ![w] = "waiting"]
        /\ cmd' = [cmd EXCEPT ![w] = "queued"]
        /\ UNCHANGED result
     \/ /\ poller = 0
        /\ wr' = [wr EXCEPT ![w] = "done"]
        /\ result' = [result EXCEPT ![w] = "BadNoCommunication"]
        /\ UNCHANGED cmd
  /\ UNCHANGED <<fileVars, watchVars, stackVars, storeVars, taskVars, pumpVars,
                 plans, made, late, applied, misdirected, plant>>

Deadline(w) ==
  /\ FreeWorker
  /\ wr[w] \in {"sending", "waiting"} /\ w \notin late
  /\ late' = late \cup {w}
  /\ UNCHANGED <<fileVars, watchVars, stackVars, storeVars, taskVars, pumpVars,
                 plans, wr, made, cmd, result, applied, misdirected, plant>>

\* The channel task takes a command: expired ones are answered, not sent.  A
\* write is misdirected when the register's recipe is no longer what the
\* inverse was compiled from.
Take(w) ==
  /\ FreeWorker
  /\ poller # 0 /\ cmd[w] = "queued"
  /\ \A v \in Write : cmd[v] # "service"
  /\ IF w \in late
     THEN /\ cmd' = [cmd EXCEPT ![w] = "expired"]
          /\ UNCHANGED misdirected
     ELSE /\ cmd' = [cmd EXCEPT ![w] = "service"]
          /\ misdirected' = IF made[w] = rev THEN misdirected
                            ELSE misdirected \cup {w}
  /\ UNCHANGED <<fileVars, watchVars, stackVars, storeVars, taskVars, pumpVars,
                 plans, wr, made, late, result, applied, plant>>

\* The device acknowledges, refuses, or does not answer, having done it or not:
\* a timeout, which ends the connection of a byte stream, or a fatal error,
\* which ends any.
Answered(w) ==
  /\ FreeWorker
  /\ cmd[w] = "service"
  /\ \/ /\ cmd' = [cmd EXCEPT ![w] = "acked"]
        /\ applied' = applied \cup {w}
     \/ /\ cmd' = [cmd EXCEPT ![w] = "failed"]
        /\ UNCHANGED applied
     \/ /\ cmd' \in {[cmd EXCEPT ![w] = "expired"],
                     FailPending([cmd EXCEPT ![w] = "expired"]),
                     FailPending([cmd EXCEPT ![w] = "lost"])}
        /\ applied' \in {applied, applied \cup {w}}
  /\ UNCHANGED <<fileVars, watchVars, stackVars, storeVars, taskVars, pumpVars,
                 plans, wr, made, late, result, misdirected, plant>>

\* Mutant of TimedOut: an elapsed wait is taken for a closed channel.
TimedOutAsClosed == "BadNoCommunication"

\* What the client is told when the deadline passes first.
TimedOut == "BadTimeout"

\* What the client is told of a reply, proto_error_status.
Status(reply) ==
  CASE reply = "acked"   -> "Good"
    [] reply = "failed"  -> "BadDeviceFailure"
    [] reply = "expired" -> "BadTimeout"
    [] reply = "dropped" -> "BadNoCommunication"
    [] reply = "lost"    -> "BadCommunicationError"

Return(w) ==
  /\ wr[w] = "waiting"
  /\ \/ /\ cmd[w] \in {"acked", "failed", "expired", "dropped", "lost"}
        /\ result' = [result EXCEPT ![w] = Status(cmd[w])]
     \/ /\ cmd[w] \in {"queued", "service"} /\ w \in late
        /\ result' = [result EXCEPT ![w] = TimedOut]
  /\ wr' = [wr EXCEPT ![w] = "done"]
  /\ UNCHANGED <<fileVars, watchVars, stackVars, storeVars, taskVars, pumpVars,
                 plans, made, late, cmd, applied, misdirected, plant>>

----------------------------------------------------------------------------
TagSteps(t)   == PlantMoves(t) \/ Poll(t) \/ EngineStep(t)
Pumping       == PumpSubscribes \/ PumpBatch \/ PumpRebuild \/ PumpCommits
ReloadSteps   == PauseWrites \/ EngineEnds \/ PollerEnds \/ Swap \/ CommitFails
Starting      == StartTasks \/ StartOpcUa
Callback(w)   == Enter(w) \/ Submit(w) \/ Return(w)
Commanding(w) == Deadline(w) \/ Take(w) \/ Answered(w)

Next ==
  \/ \E c \in Config : Edit(c)
  \/ FinishEdit
  \/ \E t \in Tag : TagSteps(t)
  \/ StartFails \/ Starting
  \/ Pumping \/ PumpDies
  \/ WatchTick \/ ReloadSteps \/ ShutdownStep
  \/ \E w \in Write : Ask(w) \/ Callback(w) \/ Commanding(w)

Spec == Init /\ [][Next]_vars

\* Every task that has something to do gets to it while a worker is left, and
\* the watcher ticks; edits, plant, writes, failures and the stop are free.
Fairness ==
  /\ WF_vars(Starting \/ ReloadSteps \/ (stage \in Stopping /\ ShutdownStep))
  /\ WF_vars(Pumping)
  /\ WF_vars(WatchTick /\ pending' = file) /\ SF_vars(WatchTick /\ seen' # seen)
  /\ \A w \in Write : WF_vars(Callback(w)) /\ WF_vars(Commanding(w))

FairSpec == Spec /\ Fairness

----------------------------------------------------------------------------
(***************************************************************************)
(* Properties                                                              *)
(***************************************************************************)

\* Between reloads no store, node or database record holds a value made by a
\* recipe its tag no longer has (reload: clear, seed only compatible values,
\* forget_retentive).
RecipeKept ==
  stage = "watch" =>
    /\ \A t \in Regs(cfg) :
         /\ typed[rev][t] # None => typed[rev][t].recipe = Cfg[cfg].regs[t]
         /\ pump.alive /\ nodes[t] # None => nodes[t].recipe = Cfg[cfg].regs[t]
    /\ \A t \in Tag : disk[t] # None =>
         t \in Regs(cfg) /\ disk[t].recipe = Cfg[cfg].regs[t]

\* Nothing is under way between a reading and its node.
Quiet ==
  /\ stage = "watch" /\ pump.alive /\ pump.listens
  /\ news[rev] = {} /\ ~pump.lagged /\ pump.tags = {}

\* When nothing is under way every node shows what was polled last, through
\* lags, reloads and batches of the old store still in the stream; the address
\* space has exactly the configured tags.  A change announced before the pump
\* listened is excused until the next one.
NodesCurrent ==
  Quiet => \A t \in Tag \ missed :
    nodes[t] = IF t \in Regs(cfg)
               THEN Computed(cfg, t, raw[cacheOf[rev]][t], None)
               ELSE NoNode

\* No command reaches a device with an inverse of another generation than the
\* active one, although reloads happen while clients write.
NoStaleWrite == misdirected = {}

\* What a client is told agrees with the device: Good is a write that was done,
\* and a write that was refused is never done later.
ClientTold ==
  \A w \in Write :
    /\ result[w] = "Good" => w \in applied
    /\ result[w] \in {"BadNoCommunication", "BadNotWritable", "BadInput",
                      "BadDeviceFailure"} => w \notin applied

\* A new generation starts with the last reading the old poller made of every
\* register that is still acquired the same way.
ReadingsSurvive ==
  [][\A t \in Tag :
       LET old == raw[cacheOf[rev]][t]
       IN rev' # rev /\ SameSource(cfg, cfg', t) /\ old # None =>
            typed'[rev'][t] = Computed(cfg', t, old, None)]_vars

\* What a valid file holds is in force sooner or later, unless it is edited
\* again or the OPC UA server is gone.
FileApplied ==
  \A c \in Config \ {Torn} :
    Cfg[c].loads /\ Cfg[c].compiles /\ Cfg[c].startup = Cfg[First].startup =>
      (file = c ~> (cfg = c \/ file # c \/ ~pump.alive \/ stage \in Stopping))

\* With a worker for every write and one for the reload, every write callback
\* returns, whatever it meets: a queue full of others, a reload that waits for
\* the others and makes it wait, a stop, a silent device.
EveryWriteAnswered ==
  Workers > Cardinality(Write) =>
    \A w \in Write : wr[w] = "asking" ~> wr[w] = "done"

\* Every write callback returns, however few the workers.
EveryWriteAnsweredAnyhow == \A w \in Write : wr[w] = "asking" ~> wr[w] = "done"
=============================================================================
