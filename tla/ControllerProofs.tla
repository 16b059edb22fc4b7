--------------------------- MODULE ControllerProofs ---------------------------
(***************************************************************************)
(* Proofs about Controller, for every number of clients, scan jobs and     *)
(* resources, every set of tools, and however often the file is changed.   *)
(***************************************************************************)
EXTENDS Controller, FiniteSetTheorems, TLAPS

-----------------------------------------------------------------------------
(* The inductive invariants *)

Holding == {"saving", "replace", "reload", "probe", "stopping"}

\* Whoever is in the middle of a tool, a reload or the shutdown has the mutex,
\* and the reload is of the one that has it.
MutexInv ==
  /\ \A c \in Client : call[c].at \in Holding <=> lock = c
  /\ lock = Watcher => reload.at # "no"
  /\ \A c \in Client : call[c].at = "reload" => reload.at # "no"
  /\ reload.at # "no" => \/ lock = Watcher
                         \/ \E c \in Client : lock = c /\ call[c].at = "reload"
  /\ lock = Host <=> shut = "stopping"

\* A reload is of a running stack; one that does not run has no poller.
StackInv ==
  /\ reload.at # "no" => stack.up
  /\ ~stack.up => ~stack.poller
  /\ reload.at = "poller" => ~stack.poller

\* A client about to replace the file has read it since the last edit.
AckInv ==
  /\ promised \subseteq file
  /\ \A c \in Client : call[c].at = "replace" => promised \subseteq call[c].base

\* A revision that was only saved is known to the watcher while it is in the
\* file, and no reload is on its way to it.
StageInv ==
  /\ stack.up => stack.cfg \notin staged
  /\ file \in staged => seen = file
  /\ reload.at # "no" => reload.to \notin staged
  /\ reload.at # "no" /\ lock # Watcher => file \notin staged

\* A client that stops the server has taken the stack out of the state.
StopInv == \A c \in Client : call[c].at = "stopping" => ~stack.up

\* Unless a reload ended with a generation in place that went unrecorded, the
\* controller knows what the stack runs.
SyncInv ==
  ~lost /\ stack.up => IF reload.at = "commit" THEN stack.cfg = reload.to
                       ELSE applied = stack.cfg

\* Nothing that takes the port from a poller, or gives it one, is under way
\* while an offline scan runs.
ScanInv ==
  /\ reload.at # "no" => ~OfflineScan
  /\ \A c \in Client : call[c].at \in {"saving", "replace"} /\ call[c].op = "save"
                         => ~OfflineScan
  /\ \A j \in Job : job[j].open => Running(j) /\ job[j].offline
  /\ \A i, j \in Job : Running(i) /\ Running(j) /\ job[i].on = job[j].on => i = j
  /\ \A c \in Client : call[c].at = "probe" /\ ~stack.up =>
       \A j \in Job : Running(j) => job[j].on # "port"

\* The owner of the mutex waits for the poller it has told to stop.
DrainInv ==
  awaited => /\ ~stack.poller
             /\ \/ shut = "stopping" \/ reload.at = "poller"
                \/ \E c \in Client : call[c].at = "stopping"

\* An offline scan of the port runs beside no poller.
PortInv ==
  ~lost => \A j \in Job : Running(j) /\ job[j].offline /\ job[j].on = "port" =>
                            ~PollsPort /\ ~awaited

\* The stages of Controller::shutdown: closed, all jobs cancelled, all jobs
\* ended and the stack stopped, its poller drained.
CloseInv ==
  /\ shut \in {"jobs", "stop", "stopping", "tasks", "done"} => closed
  /\ shut = "stop" => \A j \in Job : Running(j) => job[j].cancel
  /\ shut \in {"stopping", "tasks", "done"} =>
       ~stack.up /\ \A j \in Job : ~Running(j)
  /\ shut \in {"tasks", "done"} => ~awaited

\* With the lease every call has ended.
DoneInv == shut = "done" => \A c \in Client : call[c].at = "idle"

-----------------------------------------------------------------------------
(* Types *)

LEMMA IdleType == Idle \in Calls /\ Down \in Stacks /\ NoJob \in Jobs
BY ControllerAssumption DEF Idle, Down, NoJob, Calls, Stacks, Jobs, Revision

LEMMA EndedType ==
  ASSUME TypeOK, NEW c \in Client, Ended(c)
  PROVE  call' \in [Client -> Calls]
BY IdleType DEF TypeOK, Ended

LEMMA GoesType ==
  ASSUME TypeOK, NEW c \in Client,
         NEW s \in {"idle", "sent", "saving", "replace", "reload", "probe",
                   "stopping", "again"},
         Goes(c, s)
  PROVE  call' \in [Client -> Calls]
BY DEF TypeOK, Goes, Calls

LEMMA CountsType ==
  ASSUME TypeOK, Counts
  PROVE  events' \in 0 .. MaxEvents
BY ControllerAssumption DEF TypeOK, Counts

\* The steps of a reload, and the end of a stack.
LEMMA BeginsType ==
  ASSUME TypeOK, NEW r \in Revision, ReloadBegins(r)
  PROVE  /\ stack' \in Stacks
         /\ reload' \in [at : {"no", "engine", "poller", "commit"}, to : Revision]
BY DEF TypeOK, ReloadBegins, Stacks

LEMMA AnswersType ==
  ASSUME TypeOK, NEW r \in Revision, ReloadAnswers(r)
  PROVE  /\ stack' \in Stacks /\ err' \in BOOLEAN
         /\ reload' \in [at : {"no", "engine", "poller", "commit"}, to : Revision]
         /\ applied' \in Revision \cup {None}
BY DEF TypeOK, ReloadAnswers

LEMMA SwappedType ==
  ASSUME TypeOK, Swapped
  PROVE  /\ stack' \in Stacks
         /\ reload' \in [at : {"no", "engine", "poller", "commit"}, to : Revision]
BY DEF TypeOK, Swapped, Stacks

LEMMA TakenType ==
  ASSUME TypeOK, StackTaken
  PROVE  stack' \in Stacks /\ awaited' \in BOOLEAN /\ left' = left
<1>1. PollsPort \in BOOLEAN
  BY DEF PollsPort, TypeOK, Stacks
<1> QED
  BY <1>1, IdleType DEF StackTaken

LEMMA TypeInit == Init => TypeOK
<1> SUFFICES ASSUME Init PROVE TypeOK
  OBVIOUS
<1>1. file \in Revision /\ {} \in Revision
  BY DEF Init, Revision
<1>2. Up(file) \in Stacks
  BY <1>1 DEF Up, Stacks
<1>3. stack \in Stacks /\ applied \in Revision \cup {None}
  BY <1>1, <1>2, IdleType DEF Init
<1>4. call \in [Client -> Calls] /\ job \in [Job -> Jobs]
  BY IdleType DEF Init
<1> QED
  BY <1>1, <1>3, <1>4, ControllerAssumption, 0 \in 0 .. MaxEvents
     DEF Init, TypeOK, Revision

LEMMA TypeStep == TypeOK /\ MutexInv /\ [Next]_vars => TypeOK'
<1> SUFFICES ASSUME TypeOK, MutexInv, [Next]_vars
             PROVE  TypeOK'
  OBVIOUS
<1>0. CASE UNCHANGED vars
  BY <1>0 DEF TypeOK, vars, knownVars, runVars, endVars, histVars
<1>1. ASSUME NEW f \in Feature, External(f)
      PROVE  TypeOK'
  <2>1. file' \in Revision /\ promised' \in SUBSET Feature /\ staged' \in SUBSET Revision
    BY <1>1 DEF External, TypeOK, Revision
  <2> QED
    BY <1>1, <2>1, CountsType
       DEF External, TypeOK, knownVars, runVars, endVars, histVars
<1>2. ASSUME NEW c \in Client, NEW op \in Op, Send(c, op)
      PROVE  TypeOK'
  <2>1. call' \in [Client -> Calls]
    BY <1>2 DEF Send, TypeOK, Calls, Revision
  <2> QED
    BY <1>2, <2>1, CountsType
       DEF Send, TypeOK, knownVars, runVars, endVars, histVars
<1>3. ASSUME NEW c \in Client, EditRefused(c)
      PROVE  TypeOK'
  BY <1>3, EndedType
     DEF EditRefused, Refused, TypeOK, knownVars, runVars, endVars, histVars
<1>4. ASSUME NEW c \in Client, EditChecks(c)
      PROVE  TypeOK'
  BY <1>4, GoesType, EndedType
     DEF EditChecks, TypeOK, knownVars, runVars, endVars, histVars
<1>5. ASSUME NEW c \in Client, EditRechecks(c)
      PROVE  TypeOK'
  BY <1>5, GoesType, EndedType
     DEF EditRechecks, TypeOK, knownVars, runVars, endVars, histVars
<1>6. ASSUME NEW c \in Client, EditReplaces(c)
      PROVE  TypeOK'
  <2>1. /\ call[c].cand \in Revision /\ call[c].base \in Revision
    BY DEF TypeOK, Calls
  <2>2. /\ file' \in Revision /\ seen' \in Revision /\ desired' \in Revision
        /\ promised' \in SUBSET Feature /\ staged' \in SUBSET Revision
    BY <1>6, <2>1 DEF EditReplaces, SeenAfter, TypeOK, Revision
  <2>3. /\ stack' \in Stacks /\ call' \in [Client -> Calls] /\ err' \in BOOLEAN
        /\ reload' \in [at : {"no", "engine", "poller", "commit"}, to : Revision]
        /\ lock' \in Client \cup {None, Watcher, Host}
        /\ applied' \in Revision \cup {None}
    BY <1>6, <2>1, BeginsType, AnswersType, GoesType, EndedType
       DEF EditReplaces, TypeOK
  <2> QED
    BY <1>6, <2>2, <2>3 DEF EditReplaces, TypeOK, endVars
<1>7. ASSUME NEW c \in Client, ApplyChecks(c) \/ CloseAsked(c)
      PROVE  TypeOK'
  <2>1. CASE ApplyChecks(c)
    BY <2>1, GoesType, EndedType
       DEF ApplyChecks, TypeOK, knownVars, runVars, endVars, histVars
  <2>2. CASE CloseAsked(c)
    <3>1. closed' \in BOOLEAN
      BY <2>2 DEF CloseAsked
    <3> QED
      BY <2>2, <3>1, GoesType DEF CloseAsked, TypeOK, knownVars, runVars, histVars
  <2> QED
    BY <1>7, <2>1, <2>2
<1>8. ASSUME NEW c \in Client, ApplyReloads(c)
      PROVE  TypeOK'
  <2>1. /\ stack' \in Stacks /\ call' \in [Client -> Calls] /\ err' \in BOOLEAN
        /\ reload' \in [at : {"no", "engine", "poller", "commit"}, to : Revision]
        /\ lock' \in Client \cup {None, Watcher, Host}
        /\ applied' \in Revision \cup {None}
        /\ seen' \in Revision /\ desired' \in Revision
        /\ staged' \in SUBSET Revision
    <3>1. file \in Revision
      BY DEF TypeOK
    <3> QED
      BY <1>8, <3>1, BeginsType, AnswersType, GoesType, EndedType
         DEF ApplyReloads, TypeOK
  <2> QED
    BY <1>8, <2>1 DEF ApplyReloads, TypeOK, endVars
<1>9. ASSUME NEW c \in Client, StartServer(c)
      PROVE  TypeOK'
  <2>1. Up(file) \in Stacks
    BY DEF Up, Stacks, TypeOK
  <2>2. /\ stack' \in Stacks /\ err' \in BOOLEAN /\ staged' \in SUBSET Revision
        /\ seen' \in Revision /\ desired' \in Revision
        /\ applied' \in Revision \cup {None}
    <3>1. CASE MayStart
      BY <1>9, <2>1, <3>1 DEF StartServer, Starts, TypeOK
    <3>2. CASE ~MayStart
      BY <1>9, <3>2 DEF StartServer, TypeOK
    <3> QED
      BY <3>1, <3>2
  <2> QED
    BY <1>9, <2>2, EndedType DEF StartServer, TypeOK, endVars, histVars
<1>10. ASSUME NEW c \in Client, RestartRefused(c)
      PROVE  TypeOK'
  BY <1>10, EndedType
     DEF RestartRefused, Refused, TypeOK, knownVars, runVars, endVars, histVars
<1>11. ASSUME NEW c \in Client, StopServer(c)
      PROVE  TypeOK'
  BY <1>11, TakenType, GoesType DEF StopServer, TypeOK, knownVars, endVars, histVars
<1>12. ASSUME NEW c \in Client, StopDone(c)
      PROVE  TypeOK'
  BY <1>12, GoesType, EndedType
     DEF StopDone, TypeOK, knownVars, runVars, endVars, histVars
<1>13. ASSUME NEW c \in Client, ScanRefused(c)
      PROVE  TypeOK'
  BY <1>13, EndedType
     DEF ScanRefused, Refused, TypeOK, knownVars, runVars, endVars, histVars
<1>14. ASSUME NEW c \in Client, NEW j \in Job, NEW on \in Resource,
             ScanStarts(c, j, on)
      PROVE  TypeOK'
  <2>1. [at |-> "running", on |-> on, offline |-> ~ScanQueues(on),
         cancel |-> FALSE, open |-> FALSE] \in Jobs
    BY DEF Jobs
  <2> QED
    BY <1>14, <2>1, EndedType
       DEF ScanStarts, TypeOK, knownVars, runVars, endVars, histVars
<1>15. ASSUME NEW c \in Client, NEW j \in Job, CancelScan(c, j)
      PROVE  TypeOK'
  <2> DEFINE b == job[j].at # "none"
  <2>1. job' = [job EXCEPT ![j].cancel = b] /\ b \in BOOLEAN
    BY <1>15 DEF CancelScan
  <2> HIDE DEF b
  <2>2. job' \in [Job -> Jobs]
    BY <2>1 DEF TypeOK, Jobs
  <2> QED
    BY <1>15, <2>2, EndedType
       DEF CancelScan, TypeOK, knownVars, runVars, endVars, histVars
<1>16. ASSUME NEW c \in Client, ProbeRefused(c)
      PROVE  TypeOK'
  BY <1>16, EndedType
     DEF ProbeRefused, Refused, TypeOK, knownVars, runVars, endVars, histVars
<1>17. ASSUME NEW c \in Client, ProbeStarts(c)
      PROVE  TypeOK'
  BY <1>17, GoesType, EndedType
     DEF ProbeStarts, TypeOK, knownVars, runVars, endVars, histVars
<1>18. ASSUME NEW c \in Client, ProbeEnds(c)
      PROVE  TypeOK'
  BY <1>18, EndedType DEF ProbeEnds, TypeOK, knownVars, runVars, endVars, histVars
<1>19. ASSUME NEW c \in Client, Leaves(c)
      PROVE  TypeOK'
  <2>1. lost' \in BOOLEAN /\ left' \in BOOLEAN /\ awaited' \in BOOLEAN
    BY <1>19 DEF Leaves, TypeOK
  <2>2. reload' \in [at : {"no", "engine", "poller", "commit"}, to : Revision]
    BY <1>19 DEF Leaves, TypeOK
  <2> QED
    BY <1>19, <2>1, <2>2, EndedType DEF Leaves, TypeOK, knownVars, endVars
<1>20. ASSUME EngineDrained PROVE TypeOK'
  <2>1. awaited' \in BOOLEAN
    BY <1>20 DEF EngineDrained, PollsPort, TypeOK
  <2>2. stack' \in Stacks
        /\ reload' \in [at : {"no", "engine", "poller", "commit"}, to : Revision]
    BY <1>20, SwappedType DEF EngineDrained, TypeOK, Stacks
  <2> QED
    BY <1>20, <2>1, <2>2 DEF EngineDrained, TypeOK, knownVars, endVars, histVars
<1>21. ASSUME PollerDrained PROVE TypeOK'
  BY <1>21, SwappedType
     DEF PollerDrained, TypeOK, knownVars, runVars, endVars, histVars
<1>22. ASSUME Panics PROVE TypeOK'
  <2>1. stack' \in Stacks
        /\ reload' \in [at : {"no", "engine", "poller", "commit"}, to : Revision]
    BY <1>22 DEF Panics, TypeOK, Stacks
  <2>2. lock # Watcher => lock \in Client
    BY <1>22 DEF Panics, MutexInv
  <2>3. call' \in [Client -> Calls] /\ watching' \in BOOLEAN /\ lock' = None
    BY <1>22, <2>2, EndedType DEF Panics, TypeOK
  <2> QED
    BY <1>22, <2>1, <2>3 DEF Panics, TypeOK, knownVars, histVars
<1>23. ASSUME ReloadSucceeds PROVE TypeOK'
  <2>1. reload' \in [at : {"no", "engine", "poller", "commit"}, to : Revision]
    BY <1>23 DEF ReloadSucceeds, TypeOK
  <2>2. lock # Watcher => lock \in Client
    BY <1>23 DEF ReloadSucceeds, MutexInv
  <2> QED
    BY <1>23, <2>1, <2>2, EndedType DEF ReloadSucceeds, TypeOK, endVars, histVars
<1>24. ASSUME ReloadFails PROVE TypeOK'
  <2>1. stack' \in Stacks
        /\ reload' \in [at : {"no", "engine", "poller", "commit"}, to : Revision]
    BY <1>24 DEF ReloadFails, TypeOK, Stacks
  <2>2. lock # Watcher => lock \in Client
    BY <1>24 DEF ReloadFails, MutexInv
  <2>3. lost' \in BOOLEAN /\ err' \in BOOLEAN
    BY <1>24 DEF ReloadFails, TypeOK
  <2> QED
    BY <1>24, <2>1, <2>2, <2>3, EndedType
       DEF ReloadFails, TypeOK, knownVars, endVars, histVars
<1>25. ASSUME PortReleased PROVE TypeOK'
  <2>1. awaited' \in BOOLEAN /\ left' \in BOOLEAN
    BY <1>25 DEF PortReleased, TypeOK
  <2> QED
    BY <1>25, <2>1 DEF PortReleased, TypeOK, knownVars, endVars, histVars
<1>26. ASSUME WatchSees \/ WatchFails PROVE TypeOK'
  BY <1>26, CountsType
     DEF WatchSees, WatchFails, Sighting, TypeOK, knownVars, runVars, endVars, histVars
<1>27. ASSUME WatchLoads PROVE TypeOK'
  <2>1. file \in Revision
    BY DEF TypeOK
  <2>2. /\ stack' \in Stacks /\ err' \in BOOLEAN
        /\ reload' \in [at : {"no", "engine", "poller", "commit"}, to : Revision]
        /\ applied' \in Revision \cup {None}
    BY <1>27, <2>1, BeginsType, AnswersType DEF WatchLoads, TypeOK
  <2> QED
    BY <1>27, <2>1, <2>2 DEF WatchLoads, TypeOK, endVars, histVars
<1>28. ASSUME NEW j \in Job, ScanConnects(j)
      PROVE  TypeOK'
  <2> DEFINE b == ~job[j].open
  <2>1. job' = [job EXCEPT ![j].open = b] /\ b \in BOOLEAN
    BY <1>28 DEF ScanConnects
  <2> HIDE DEF b
  <2>2. job' \in [Job -> Jobs]
    BY <2>1 DEF TypeOK, Jobs
  <2> QED
    BY <1>28, <2>2 DEF ScanConnects, TypeOK, knownVars, runVars, endVars, histVars
<1>29. ASSUME NEW j \in Job, ScanEnds(j)
      PROVE  TypeOK'
  <2>1. \A k \in Jobs : [k EXCEPT !.at = "done"] \in Jobs
                        /\ [k EXCEPT !.open = FALSE] \in Jobs
    BY DEF Jobs
  <2>2. job' \in [Job -> Jobs]
    BY <1>29, <2>1 DEF ScanEnds, TypeOK
  <2> QED
    BY <1>29, <2>2 DEF ScanEnds, TypeOK, knownVars, runVars, endVars, histVars
<1>30. ASSUME HostShutdown PROVE TypeOK'
  BY <1>30, CountsType
     DEF HostShutdown, TypeOK, knownVars, runVars, endVars, histVars
<1>31. ASSUME ShutCloses PROVE TypeOK'
  BY <1>31, EndedType
     DEF ShutCloses, TypeOK, knownVars, runVars, endVars, histVars
<1>32. ASSUME ShutCancels PROVE TypeOK'
  <2>1. ASSUME NEW j \in Job
        PROVE  [job[j] EXCEPT !.cancel = job[j].at # "none"] \in Jobs
    <3> DEFINE b == job[j].at # "none"
    <3>1. b \in BOOLEAN /\ job[j] \in Jobs
      BY DEF TypeOK
    <3> HIDE DEF b
    <3>2. [job[j] EXCEPT !.cancel = b] \in Jobs
      BY <3>1 DEF Jobs
    <3> QED
      BY <3>2 DEF b
  <2>2. job' \in [Job -> Jobs]
    BY <1>32, <2>1 DEF ShutCancels
  <2> QED
    BY <1>32, <2>2 DEF ShutCancels, TypeOK, knownVars, runVars, endVars, histVars
<1>33. ASSUME ShutStops PROVE TypeOK'
  BY <1>33, TakenType DEF ShutStops, TypeOK, knownVars, runVars, endVars, histVars
<1>34. ASSUME ShutStopped PROVE TypeOK'
  BY <1>34, EndedType
     DEF ShutStopped, TypeOK, knownVars, runVars, endVars, histVars
<1>35. ASSUME ShutDone PROVE TypeOK'
  BY <1>35, IdleType DEF ShutDone, TypeOK, knownVars, runVars, endVars, histVars
<1> QED
  BY <1>0, <1>1, <1>2, <1>3, <1>4, <1>5, <1>6, <1>7, <1>8, <1>9, <1>10,
     <1>11, <1>12, <1>13, <1>14, <1>15, <1>16, <1>17, <1>18, <1>19, <1>20,
     <1>21, <1>22, <1>23, <1>24, <1>25, <1>26, <1>27, <1>28, <1>29, <1>30,
     <1>31, <1>32, <1>33, <1>34, <1>35
     DEF Next, Serve, Reload, Watch, Shutdown

-----------------------------------------------------------------------------
(* The mutex *)

LEMMA EndedMoves ==
  ASSUME TypeOK, NEW c \in Client, Ended(c)
  PROVE  /\ call'[c] = Idle /\ call'[c].at = "idle" /\ call'[c].op = "none"
         /\ \A d \in Client \ {c} : call'[d] = call[d]
BY DEF TypeOK, Ended, Idle

LEMMA GoesMoves ==
  ASSUME TypeOK, NEW c \in Client, NEW s, Goes(c, s)
  PROVE  /\ call'[c].at = s /\ call'[c].op = call[c].op
         /\ call'[c].base = call[c].base /\ call'[c].cand = call[c].cand
         /\ \A d \in Client \ {c} : call'[d] = call[d]
BY DEF TypeOK, Goes, Calls

LEMMA MutexInit == Init => MutexInv
BY ControllerAssumption DEF Init, MutexInv, Holding, Idle

LEMMA MutexStep ==
  TypeOK /\ MutexInv /\ StackInv /\ CloseInv /\ [Next]_vars => MutexInv'
<1> SUFFICES ASSUME TypeOK, MutexInv, StackInv, CloseInv, [Next]_vars
             PROVE  MutexInv'
  OBVIOUS
<1>0. CASE UNCHANGED vars
  BY <1>0 DEF MutexInv, vars, endVars
<1>1. ASSUME NEW f \in Feature, External(f)
      PROVE  MutexInv'
  BY <1>1, EndedMoves, GoesMoves, ControllerAssumption DEF External, MutexInv,
     Holding, TypeOK, knownVars, runVars, endVars, histVars
<1>2. ASSUME NEW c \in Client, NEW op \in Op, Send(c, op)
      PROVE  MutexInv'
  BY <1>2, EndedMoves, GoesMoves, ControllerAssumption
     DEF Send, MutexInv, Holding, TypeOK, knownVars, runVars, endVars, histVars
<1>3. ASSUME NEW c \in Client, EditRefused(c)
      PROVE  MutexInv'
  BY <1>3, EndedMoves, GoesMoves, ControllerAssumption
     DEF EditRefused, Refused, Takes, Serves, MutexInv, Holding, TypeOK,
         knownVars, runVars, endVars, histVars
<1>4. ASSUME NEW c \in Client, EditChecks(c)
      PROVE  MutexInv'
  BY <1>4, EndedMoves, GoesMoves, ControllerAssumption
     DEF EditChecks, Takes, Serves, MutexInv, Holding, TypeOK, knownVars,
         runVars, endVars, histVars
<1>5. ASSUME NEW c \in Client, EditRechecks(c)
      PROVE  MutexInv'
  BY <1>5, EndedMoves, GoesMoves, ControllerAssumption
     DEF EditRechecks, Takes, Serves, MutexInv, Holding, TypeOK, knownVars,
         runVars, endVars, histVars
<1>6. ASSUME NEW c \in Client, EditReplaces(c)
      PROVE  MutexInv'
  <2> DEFINE r == call[c].cand
  <2>1. lock = c /\ call[c].at = "replace" /\ shut' = shut /\ lock # Host
    BY <1>6, ControllerAssumption DEF EditReplaces, endVars
  <2>2. CASE ReloadBegins(r) /\ Goes(c, "reload") /\ UNCHANGED lock
    BY <2>1, <2>2, GoesMoves DEF ReloadBegins, MutexInv, Holding, TypeOK
  <2>3. CASE reload' = reload /\ Ended(c) /\ lock' = None
    BY <2>1, <2>3, EndedMoves, ControllerAssumption DEF MutexInv, Holding, TypeOK
  <2> QED
    BY <1>6, <2>2, <2>3 DEF EditReplaces, ReloadAnswers
<1>7. ASSUME NEW c \in Client, ApplyChecks(c) \/ CloseAsked(c)
      PROVE  MutexInv'
  BY <1>7, EndedMoves, GoesMoves, ControllerAssumption
     DEF ApplyChecks, CloseAsked, Takes, Serves, MutexInv, Holding, TypeOK, knownVars,
         runVars, endVars, histVars
<1>8. ASSUME NEW c \in Client, ApplyReloads(c)
      PROVE  MutexInv'
  <2>1. lock = None /\ call[c].at = "again" /\ shut' = shut
    BY <1>8 DEF ApplyReloads, endVars
  <2>2. CASE ReloadBegins(file) /\ Goes(c, "reload") /\ lock' = c
    BY <2>1, <2>2, GoesMoves, ControllerAssumption
       DEF ReloadBegins, MutexInv, Holding, TypeOK
  <2>3. CASE reload' = reload /\ Ended(c) /\ lock' = lock
    BY <2>1, <2>3, EndedMoves, ControllerAssumption DEF MutexInv, Holding, TypeOK
  <2> QED
    BY <1>8, <2>2, <2>3 DEF ApplyReloads, ReloadAnswers
<1>9. ASSUME NEW c \in Client, StartServer(c)
      PROVE  MutexInv'
  <2>1. call[c].at \in {"sent", "again"} /\ lock = None
    BY <1>9 DEF StartServer, Takes, Serves
  <2> QED
    BY <1>9, <2>1, EndedMoves DEF StartServer, MutexInv, Holding, TypeOK, endVars
<1>10. ASSUME NEW c \in Client, RestartRefused(c)
      PROVE  MutexInv'
  BY <1>10, EndedMoves, GoesMoves, ControllerAssumption
     DEF RestartRefused, Refused, Takes, Serves, MutexInv, Holding, TypeOK,
         knownVars, runVars, endVars, histVars
<1>11. ASSUME NEW c \in Client, StopServer(c)
      PROVE  MutexInv'
  BY <1>11, EndedMoves, GoesMoves, ControllerAssumption
     DEF StopServer, Takes, Serves, MutexInv, Holding, TypeOK, knownVars,
         runVars, endVars, histVars
<1>12. ASSUME NEW c \in Client, StopDone(c)
      PROVE  MutexInv'
  BY <1>12, EndedMoves, GoesMoves, ControllerAssumption DEF StopDone, MutexInv,
     Holding, TypeOK, knownVars, runVars, endVars, histVars
<1>13. ASSUME NEW c \in Client, ScanRefused(c)
      PROVE  MutexInv'
  BY <1>13, EndedMoves, GoesMoves, ControllerAssumption
     DEF ScanRefused, Refused, Takes, Serves, MutexInv, Holding, TypeOK,
         knownVars, runVars, endVars, histVars
<1>14. ASSUME NEW c \in Client, NEW j \in Job, NEW on \in Resource,
             ScanStarts(c, j, on)
      PROVE  MutexInv'
  BY <1>14, EndedMoves, GoesMoves, ControllerAssumption
     DEF ScanStarts, Takes, Serves, MutexInv, Holding, TypeOK, knownVars,
         runVars, endVars, histVars
<1>15. ASSUME NEW c \in Client, NEW j \in Job, CancelScan(c, j)
      PROVE  MutexInv'
  BY <1>15, EndedMoves, GoesMoves, ControllerAssumption
     DEF CancelScan, Takes, Serves, MutexInv, Holding, TypeOK, knownVars,
         runVars, endVars, histVars
<1>16. ASSUME NEW c \in Client, ProbeRefused(c)
      PROVE  MutexInv'
  BY <1>16, EndedMoves, GoesMoves, ControllerAssumption
     DEF ProbeRefused, Refused, Takes, Serves, MutexInv, Holding, TypeOK,
         knownVars, runVars, endVars, histVars
<1>17. ASSUME NEW c \in Client, ProbeStarts(c)
      PROVE  MutexInv'
  BY <1>17, EndedMoves, GoesMoves, ControllerAssumption
     DEF ProbeStarts, Takes, Serves, MutexInv, Holding, TypeOK, knownVars,
         runVars, endVars, histVars
<1>18. ASSUME NEW c \in Client, ProbeEnds(c)
      PROVE  MutexInv'
  BY <1>18, EndedMoves, GoesMoves, ControllerAssumption DEF ProbeEnds, MutexInv,
     Holding, TypeOK, knownVars, runVars, endVars, histVars
<1>19. ASSUME NEW c \in Client, Leaves(c)
      PROVE  MutexInv'
  <2>1. CASE lock = c
    BY <1>19, <2>1, EndedMoves, ControllerAssumption
       DEF Leaves, MutexInv, Holding, TypeOK, endVars
  <2>2. CASE lock # c
    BY <1>19, <2>2, EndedMoves, ControllerAssumption
       DEF Leaves, MutexInv, Holding, TypeOK, endVars
  <2> QED
    BY <2>1, <2>2
<1>20. ASSUME EngineDrained PROVE MutexInv'
  BY <1>20, EndedMoves, GoesMoves, ControllerAssumption DEF EngineDrained,
     Swapped, MutexInv, Holding, TypeOK, knownVars, runVars, endVars, histVars
<1>21. ASSUME PollerDrained PROVE MutexInv'
  BY <1>21, EndedMoves, GoesMoves, ControllerAssumption DEF PollerDrained,
     Swapped, MutexInv, Holding, TypeOK, knownVars, runVars, endVars, histVars
<1>22. ASSUME Panics PROVE MutexInv'
  <2>1. reload.at # "no" /\ reload'.at = "no" /\ lock' = None /\ shut' = shut
    BY <1>22 DEF Panics, TypeOK, endVars
  <2>2. CASE lock = Watcher
    BY <1>22, <2>1, <2>2, ControllerAssumption
       DEF Panics, MutexInv, Holding, TypeOK
  <2>3. CASE lock # Watcher
    <3>1. lock \in Client /\ Ended(lock)
      BY <1>22, <2>1, <2>3 DEF Panics, MutexInv
    <3> QED
      BY <2>1, <3>1, EndedMoves, ControllerAssumption
         DEF MutexInv, Holding, TypeOK
  <2> QED
    BY <2>2, <2>3
<1>23. ASSUME ReloadSucceeds PROVE MutexInv'
  <2>1. reload.at # "no" /\ reload'.at = "no" /\ lock' = None /\ shut' = shut
    BY <1>23 DEF ReloadSucceeds, TypeOK, endVars
  <2>2. CASE lock = Watcher
    BY <1>23, <2>1, <2>2, ControllerAssumption
       DEF ReloadSucceeds, MutexInv, Holding, TypeOK
  <2>3. CASE lock # Watcher
    <3>1. lock \in Client /\ Ended(lock)
      BY <1>23, <2>1, <2>3 DEF ReloadSucceeds, MutexInv
    <3> QED
      BY <2>1, <3>1, EndedMoves, ControllerAssumption
         DEF MutexInv, Holding, TypeOK
  <2> QED
    BY <2>2, <2>3
<1>24. ASSUME ReloadFails PROVE MutexInv'
  <2>1. reload.at # "no" /\ reload'.at = "no" /\ lock' = None /\ shut' = shut
    BY <1>24 DEF ReloadFails, TypeOK, endVars
  <2>2. CASE lock = Watcher
    BY <1>24, <2>1, <2>2, ControllerAssumption
       DEF ReloadFails, MutexInv, Holding, TypeOK
  <2>3. CASE lock # Watcher
    <3>1. lock \in Client /\ Ended(lock)
      BY <1>24, <2>1, <2>3 DEF ReloadFails, MutexInv
    <3> QED
      BY <2>1, <3>1, EndedMoves, ControllerAssumption
         DEF MutexInv, Holding, TypeOK
  <2> QED
    BY <2>2, <2>3
<1>25. ASSUME PortReleased PROVE MutexInv'
  BY <1>25, EndedMoves, GoesMoves, ControllerAssumption DEF PortReleased,
     MutexInv, Holding, TypeOK, knownVars, runVars, endVars, histVars
<1>26. ASSUME WatchSees \/ WatchFails PROVE MutexInv'
  BY <1>26, EndedMoves, GoesMoves, ControllerAssumption DEF WatchSees, WatchFails, MutexInv,
     Holding, TypeOK, knownVars, runVars, endVars, histVars
<1>27. ASSUME WatchLoads PROVE MutexInv'
  <2>1. lock = None /\ call' = call /\ shut' = shut
    BY <1>27 DEF WatchLoads, endVars
  <2>2. CASE ReloadBegins(file) /\ lock' = Watcher
    BY <2>1, <2>2, ControllerAssumption
       DEF ReloadBegins, MutexInv, Holding, TypeOK
  <2>3. CASE reload' = reload /\ lock' = lock
    BY <2>1, <2>3 DEF MutexInv, Holding
  <2> QED
    BY <1>27, <2>2, <2>3 DEF WatchLoads, ReloadAnswers
<1>28. ASSUME NEW j \in Job, ScanConnects(j)
      PROVE  MutexInv'
  BY <1>28, EndedMoves, GoesMoves, ControllerAssumption DEF ScanConnects,
     MutexInv, Holding, TypeOK, knownVars, runVars, endVars, histVars
<1>29. ASSUME NEW j \in Job, ScanEnds(j)
      PROVE  MutexInv'
  BY <1>29, EndedMoves, GoesMoves, ControllerAssumption DEF ScanEnds, MutexInv,
     Holding, TypeOK, knownVars, runVars, endVars, histVars
<1>30. ASSUME HostShutdown PROVE MutexInv'
  BY <1>30, EndedMoves, GoesMoves, ControllerAssumption DEF HostShutdown,
     MutexInv, Holding, TypeOK, knownVars, runVars, endVars, histVars
<1>31. ASSUME ShutCloses PROVE MutexInv'
  BY <1>31, EndedMoves, GoesMoves, ControllerAssumption DEF ShutCloses,
     MutexInv, Holding, TypeOK, knownVars, runVars, endVars, histVars
<1>32. ASSUME ShutCancels PROVE MutexInv'
  BY <1>32, EndedMoves, GoesMoves, ControllerAssumption DEF ShutCancels,
     MutexInv, Holding, TypeOK, knownVars, runVars, endVars, histVars
<1>33. ASSUME ShutStops PROVE MutexInv'
  BY <1>33, EndedMoves, GoesMoves, ControllerAssumption DEF ShutStops, MutexInv,
     Holding, TypeOK, knownVars, runVars, endVars, histVars
<1>34. ASSUME ShutStopped PROVE MutexInv'
  BY <1>34, EndedMoves, GoesMoves, ControllerAssumption DEF ShutStopped,
     MutexInv, Holding, TypeOK, knownVars, runVars, endVars, histVars
<1>35. ASSUME ShutDone PROVE MutexInv'
  <2>1. reload.at = "no" /\ lock # Watcher
    BY <1>35 DEF ShutDone, CloseInv, StackInv, MutexInv
  <2> QED
    BY <1>35, <2>1, ControllerAssumption
       DEF ShutDone, Idle, MutexInv, Holding, runVars
<1> QED
  BY <1>0, <1>1, <1>2, <1>3, <1>4, <1>5, <1>6, <1>7, <1>8, <1>9, <1>10,
     <1>11, <1>12, <1>13, <1>14, <1>15, <1>16, <1>17, <1>18, <1>19, <1>20,
     <1>21, <1>22, <1>23, <1>24, <1>25, <1>26, <1>27, <1>28, <1>29, <1>30,
     <1>31, <1>32, <1>33, <1>34, <1>35
     DEF Next, Serve, Reload, Watch, Shutdown

-----------------------------------------------------------------------------
(* The stack and its reload *)

LEMMA StackStep == TypeOK /\ MutexInv /\ StackInv /\ [Next]_vars => StackInv'
<1> SUFFICES ASSUME TypeOK, MutexInv, StackInv, [Next]_vars
             PROVE  StackInv'
  OBVIOUS
<1>0. ASSUME UNCHANGED <<stack, reload>> PROVE StackInv'
  BY <1>0 DEF StackInv
<1>1. ASSUME NEW c \in Client,
             EditRefused(c) \/ EditChecks(c) \/
             EditRechecks(c) \/ ApplyChecks(c) \/ CloseAsked(c) \/ RestartRefused(c) \/
             StopDone(c) \/ ScanRefused(c) \/ ProbeRefused(c) \/
             ProbeStarts(c) \/ ProbeEnds(c)
      PROVE  StackInv'
  BY <1>0, <1>1 DEF EditRefused, EditChecks, EditRechecks, ApplyChecks, CloseAsked,
     RestartRefused, StopDone, ScanRefused, ProbeRefused, ProbeStarts,
     ProbeEnds, Refused, knownVars, runVars, endVars, histVars
<1>2. ASSUME PortReleased \/ WatchSees \/ WatchFails \/ HostShutdown \/ ShutCloses \/
             ShutCancels \/ ShutStopped \/ ShutDone
      PROVE  StackInv'
  BY <1>0, <1>2 DEF PortReleased, WatchSees, WatchFails, HostShutdown, ShutCloses,
     ShutCancels, ShutStopped, ShutDone, knownVars, runVars, endVars, histVars
<1>3. ASSUME NEW f \in Feature, External(f)
      PROVE  StackInv'
  BY <1>0, <1>3 DEF External, knownVars, runVars, endVars, histVars
<1>4. ASSUME NEW c \in Client, NEW op \in Op, Send(c, op)
      PROVE  StackInv'
  BY <1>0, <1>4 DEF Send, knownVars, runVars, endVars, histVars
<1>5. ASSUME NEW c \in Client, NEW j \in Job, NEW on \in Resource,
             ScanStarts(c, j, on)
      PROVE  StackInv'
  BY <1>0, <1>5 DEF ScanStarts, knownVars, runVars, endVars, histVars
<1>6. ASSUME NEW c \in Client, NEW j \in Job, CancelScan(c, j)
      PROVE  StackInv'
  BY <1>0, <1>6 DEF CancelScan, knownVars, runVars, endVars, histVars
<1>7. ASSUME NEW j \in Job, ScanConnects(j)
      PROVE  StackInv'
  BY <1>0, <1>7 DEF ScanConnects, knownVars, runVars, endVars, histVars
<1>8. ASSUME NEW j \in Job, ScanEnds(j)
      PROVE  StackInv'
  BY <1>0, <1>8 DEF ScanEnds, knownVars, runVars, endVars, histVars
<1>9. ASSUME NEW c \in Client, EditReplaces(c)
      PROVE  StackInv'
  <2>1. lock # Host /\ reload.at = "no"
    BY <1>9, ControllerAssumption DEF EditReplaces, MutexInv, Holding
  <2>2. CASE UNCHANGED <<stack, reload>>
    BY <1>0, <2>2
  <2>3. CASE \E r \in Revision : ReloadBegins(r) /\ stack.up
    BY <2>1, <2>3 DEF ReloadBegins, StackInv, TypeOK, Stacks
  <2>4. \A d \in Client : call[d].cand \in Revision
    BY DEF TypeOK, Calls
  <2> QED
    BY <1>9, <2>2, <2>3, <2>4 DEF EditReplaces, ReloadAnswers, TypeOK
<1>10. ASSUME NEW c \in Client, ApplyReloads(c)
      PROVE  StackInv'
  <2>1. reload.at = "no"
    BY <1>10, ControllerAssumption DEF ApplyReloads, MutexInv, Holding
  <2>2. CASE UNCHANGED <<stack, reload>>
    BY <1>0, <2>2
  <2>3. CASE \E r \in Revision : ReloadBegins(r) /\ stack.up
    BY <2>1, <2>3 DEF ReloadBegins, StackInv, TypeOK, Stacks
  <2>4. \A d \in Client : call[d].cand \in Revision
    BY DEF TypeOK, Calls
  <2> QED
    BY <1>10, <2>2, <2>3, <2>4 DEF ApplyReloads, ReloadAnswers, TypeOK
<1>11. ASSUME NEW c \in Client, StartServer(c)
      PROVE  StackInv'
  <2>1. reload.at = "no"
    BY <1>11, ControllerAssumption DEF StartServer, Takes, MutexInv
  <2> QED
    BY <1>11, <2>1 DEF StartServer, Starts, Up, StackInv
<1>12. ASSUME NEW c \in Client, StopServer(c)
      PROVE  StackInv'
  <2>1. reload.at = "no"
    BY <1>12, ControllerAssumption DEF StopServer, Takes, MutexInv
  <2> QED
    BY <1>12, <2>1 DEF StopServer, StackTaken, Down, StackInv
<1>13. ASSUME NEW c \in Client, Leaves(c)
      PROVE  StackInv'
  BY <1>13 DEF Leaves, StackInv, TypeOK
<1>14. ASSUME EngineDrained PROVE StackInv'
  BY <1>14 DEF EngineDrained, Swapped, StackInv, TypeOK, Stacks
<1>15. ASSUME PollerDrained PROVE StackInv'
  BY <1>15 DEF PollerDrained, Swapped, StackInv, TypeOK, Stacks
<1>16. ASSUME Panics PROVE StackInv'
  BY <1>16 DEF Panics, StackInv, TypeOK, Stacks
<1>17. ASSUME ReloadSucceeds PROVE StackInv'
  BY <1>17 DEF ReloadSucceeds, StackInv, TypeOK
<1>18. ASSUME ReloadFails PROVE StackInv'
  BY <1>18 DEF ReloadFails, StackInv, TypeOK, Stacks
<1>19. ASSUME WatchLoads PROVE StackInv'
  <2>1. lock # Host /\ reload.at = "no"
    BY <1>19, ControllerAssumption DEF WatchLoads, MutexInv, Holding
  <2>2. CASE UNCHANGED <<stack, reload>>
    BY <1>0, <2>2
  <2>3. CASE \E r \in Revision : ReloadBegins(r) /\ stack.up
    BY <2>1, <2>3 DEF ReloadBegins, StackInv, TypeOK, Stacks
  <2>4. \A d \in Client : call[d].cand \in Revision
    BY DEF TypeOK, Calls
  <2> QED
    BY <1>19, <2>2, <2>3, <2>4 DEF WatchLoads, ReloadAnswers, TypeOK
<1>20. ASSUME ShutStops PROVE StackInv'
  <2>1. reload.at = "no"
    BY <1>20, ControllerAssumption DEF ShutStops, MutexInv
  <2> QED
    BY <1>20, <2>1 DEF ShutStops, StackTaken, Down, StackInv
<1>21. CASE UNCHANGED vars
  BY <1>0, <1>21 DEF vars, knownVars, runVars, endVars, histVars
<1> QED
  BY <1>0, <1>1, <1>2, <1>3, <1>4, <1>5, <1>6, <1>7, <1>8, <1>9, <1>10, <1>11,
     <1>12, <1>13, <1>14, <1>15, <1>16, <1>17, <1>18, <1>19, <1>20, <1>21
     DEF Next, Serve, Reload, Watch, Shutdown

-----------------------------------------------------------------------------
(* Acknowledged edits *)

LEMMA AckStep == TypeOK /\ MutexInv /\ AckInv /\ [Next]_vars => AckInv'
<1> SUFFICES ASSUME TypeOK, MutexInv, AckInv, [Next]_vars
             PROVE  AckInv'
  OBVIOUS
<1>0. ASSUME UNCHANGED <<file, call, promised>> PROVE AckInv'
  BY <1>0 DEF AckInv
<1>1. ASSUME EngineDrained \/ PollerDrained \/ PortReleased \/ WatchSees \/ WatchFails \/
             WatchLoads \/ HostShutdown \/ ShutCloses \/ ShutCancels \/
             ShutStops \/ ShutStopped
      PROVE  AckInv'
  BY <1>0, <1>1 DEF EngineDrained, PollerDrained, PortReleased, WatchSees, WatchFails,
     WatchLoads, HostShutdown, ShutCloses, ShutCancels, ShutStops,
     ShutStopped, knownVars, runVars, endVars, histVars
<1>2. ASSUME NEW j \in Job, ScanConnects(j)
      PROVE  AckInv'
  BY <1>0, <1>2 DEF ScanConnects, knownVars, runVars, endVars, histVars
<1>3. ASSUME NEW j \in Job, ScanEnds(j)
      PROVE  AckInv'
  BY <1>0, <1>3 DEF ScanEnds, knownVars, runVars, endVars, histVars
<1>4. ASSUME NEW f \in Feature, External(f)
      PROVE  AckInv'
  BY <1>4 DEF External, AckInv
<1>5. ASSUME NEW c \in Client, NEW op \in Op, Send(c, op)
      PROVE  AckInv'
  <2>1. \A d \in Client : call'[d].at = "replace" => call'[d] = call[d]
    BY <1>5 DEF Send, TypeOK
  <2> QED
    BY <1>5, <2>1 DEF Send, AckInv, histVars
<1>6. ASSUME NEW c \in Client, EditRefused(c)
      PROVE  AckInv'
  <2>1. \A d \in Client : call'[d].at = "replace" => call'[d] = call[d]
    BY <1>6, EndedMoves, GoesMoves DEF EditRefused, Refused
  <2> QED
    BY <1>6, <2>1 DEF EditRefused, Refused, AckInv, histVars
<1>7. ASSUME NEW c \in Client, EditChecks(c)
      PROVE  AckInv'
  <2>1. \A d \in Client : call'[d].at = "replace" => call'[d] = call[d]
    BY <1>7, EndedMoves, GoesMoves DEF EditChecks
  <2> QED
    BY <1>7, <2>1 DEF EditChecks, AckInv, histVars
<1>8. ASSUME NEW c \in Client, EditRechecks(c)
      PROVE  AckInv'
  <2>1. CASE Fresh(c)
    BY <1>8, <2>1, GoesMoves DEF EditRechecks, Fresh, AckInv, histVars
  <2>2. CASE ~Fresh(c)
    BY <1>8, <2>2, EndedMoves DEF EditRechecks, AckInv, histVars
  <2> QED
    BY <2>1, <2>2
<1>9. ASSUME NEW c \in Client, EditReplaces(c)
      PROVE  AckInv'
  <2>1. promised \subseteq call[c].base /\ lock = c
    BY <1>9 DEF EditReplaces, AckInv
  <2>2. file' = call[c].cand
        /\ promised' = (promised \ (call[c].base \ call[c].cand))
                        \cup (call[c].cand \ call[c].base)
    BY <1>9 DEF EditReplaces
  <2>3. \A d \in Client : call'[d].at # "replace"
    BY <1>9, <2>1, EndedMoves, GoesMoves DEF EditReplaces, MutexInv, Holding
  <2> QED
    BY <2>1, <2>2, <2>3 DEF AckInv
<1>10. ASSUME NEW c \in Client, ApplyChecks(c) \/ CloseAsked(c)
      PROVE  AckInv'
  <2>1. \A d \in Client : call'[d].at = "replace" => call'[d] = call[d]
    BY <1>10, EndedMoves, GoesMoves DEF ApplyChecks, CloseAsked
  <2> QED
    BY <1>10, <2>1 DEF ApplyChecks, CloseAsked, AckInv, histVars
<1>11. ASSUME NEW c \in Client, ApplyReloads(c)
      PROVE  AckInv'
  <2>1. \A d \in Client : call'[d].at = "replace" => call'[d] = call[d]
    BY <1>11, EndedMoves, GoesMoves DEF ApplyReloads
  <2> QED
    BY <1>11, <2>1 DEF ApplyReloads, AckInv, histVars
<1>12. ASSUME NEW c \in Client, StartServer(c)
      PROVE  AckInv'
  <2>1. \A d \in Client : call'[d].at = "replace" => call'[d] = call[d]
    BY <1>12, EndedMoves, GoesMoves DEF StartServer
  <2> QED
    BY <1>12, <2>1 DEF StartServer, AckInv, histVars
<1>13. ASSUME NEW c \in Client, RestartRefused(c)
      PROVE  AckInv'
  <2>1. \A d \in Client : call'[d].at = "replace" => call'[d] = call[d]
    BY <1>13, EndedMoves, GoesMoves DEF RestartRefused, Refused
  <2> QED
    BY <1>13, <2>1 DEF RestartRefused, Refused, AckInv, histVars
<1>14. ASSUME NEW c \in Client, StopServer(c)
      PROVE  AckInv'
  <2>1. \A d \in Client : call'[d].at = "replace" => call'[d] = call[d]
    BY <1>14, EndedMoves, GoesMoves DEF StopServer
  <2> QED
    BY <1>14, <2>1 DEF StopServer, AckInv, histVars
<1>15. ASSUME NEW c \in Client, StopDone(c)
      PROVE  AckInv'
  <2>1. \A d \in Client : call'[d].at = "replace" => call'[d] = call[d]
    BY <1>15, EndedMoves, GoesMoves DEF StopDone
  <2> QED
    BY <1>15, <2>1 DEF StopDone, AckInv, histVars
<1>16. ASSUME NEW c \in Client, ScanRefused(c)
      PROVE  AckInv'
  <2>1. \A d \in Client : call'[d].at = "replace" => call'[d] = call[d]
    BY <1>16, EndedMoves, GoesMoves DEF ScanRefused, Refused
  <2> QED
    BY <1>16, <2>1 DEF ScanRefused, Refused, AckInv, histVars
<1>17. ASSUME NEW c \in Client, NEW j \in Job, NEW on \in Resource,
             ScanStarts(c, j, on)
      PROVE  AckInv'
  <2>1. \A d \in Client : call'[d].at = "replace" => call'[d] = call[d]
    BY <1>17, EndedMoves, GoesMoves DEF ScanStarts
  <2> QED
    BY <1>17, <2>1 DEF ScanStarts, AckInv, histVars
<1>18. ASSUME NEW c \in Client, NEW j \in Job, CancelScan(c, j)
      PROVE  AckInv'
  <2>1. \A d \in Client : call'[d].at = "replace" => call'[d] = call[d]
    BY <1>18, EndedMoves, GoesMoves DEF CancelScan
  <2> QED
    BY <1>18, <2>1 DEF CancelScan, AckInv, histVars
<1>19. ASSUME NEW c \in Client, ProbeRefused(c)
      PROVE  AckInv'
  <2>1. \A d \in Client : call'[d].at = "replace" => call'[d] = call[d]
    BY <1>19, EndedMoves, GoesMoves DEF ProbeRefused, Refused
  <2> QED
    BY <1>19, <2>1 DEF ProbeRefused, Refused, AckInv, histVars
<1>20. ASSUME NEW c \in Client, ProbeStarts(c)
      PROVE  AckInv'
  <2>1. \A d \in Client : call'[d].at = "replace" => call'[d] = call[d]
    BY <1>20, EndedMoves, GoesMoves DEF ProbeStarts
  <2> QED
    BY <1>20, <2>1 DEF ProbeStarts, AckInv, histVars
<1>21. ASSUME NEW c \in Client, ProbeEnds(c)
      PROVE  AckInv'
  <2>1. \A d \in Client : call'[d].at = "replace" => call'[d] = call[d]
    BY <1>21, EndedMoves, GoesMoves DEF ProbeEnds
  <2> QED
    BY <1>21, <2>1 DEF ProbeEnds, AckInv, histVars
<1>22. ASSUME NEW c \in Client, Leaves(c)
      PROVE  AckInv'
  <2>1. \A d \in Client : call'[d].at = "replace" => call'[d] = call[d]
    BY <1>22, EndedMoves, GoesMoves DEF Leaves
  <2> QED
    BY <1>22, <2>1 DEF Leaves, AckInv, histVars
<1>23. ASSUME Panics PROVE AckInv'
  <2>1. \A d \in Client : call'[d].at = "replace" => call'[d] = call[d]
    BY <1>23, EndedMoves DEF Panics, MutexInv
  <2> QED
    BY <1>23, <2>1 DEF Panics, AckInv, histVars
<1>24. ASSUME ReloadSucceeds PROVE AckInv'
  <2>1. \A d \in Client : call'[d].at = "replace" => call'[d] = call[d]
    BY <1>24, EndedMoves DEF ReloadSucceeds, MutexInv
  <2> QED
    BY <1>24, <2>1 DEF ReloadSucceeds, AckInv, histVars
<1>25. ASSUME ReloadFails PROVE AckInv'
  <2>1. \A d \in Client : call'[d].at = "replace" => call'[d] = call[d]
    BY <1>25, EndedMoves DEF ReloadFails, MutexInv
  <2> QED
    BY <1>25, <2>1 DEF ReloadFails, AckInv, histVars
<1>26. ASSUME ShutDone PROVE AckInv'
  BY <1>26 DEF ShutDone, Idle, AckInv, histVars
<1>27. CASE UNCHANGED vars
  BY <1>0, <1>27 DEF vars, knownVars, runVars, endVars, histVars
<1> QED
  BY <1>0, <1>1, <1>2, <1>3, <1>4, <1>5, <1>6, <1>7, <1>8, <1>9, <1>10, <1>11,
     <1>12, <1>13, <1>14, <1>15, <1>16, <1>17, <1>18, <1>19, <1>20, <1>21,
     <1>22, <1>23, <1>24, <1>25, <1>26, <1>27
     DEF Next, Serve, Reload, Watch, Shutdown

-----------------------------------------------------------------------------
(* Revisions that were only saved *)

LEMMA StageStep ==
  TypeOK /\ MutexInv /\ StackInv /\ CloseInv /\ StageInv /\ [Next]_vars
    => StageInv'
<1> SUFFICES
ASSUME TypeOK, MutexInv, StackInv, CloseInv, StageInv, [Next]_vars
             PROVE  StageInv'
  OBVIOUS
<1>0. ASSUME UNCHANGED <<file, seen, staged, stack, reload, lock>> PROVE StageInv'
  BY <1>0 DEF StageInv
<1>1. ASSUME NEW c \in Client,
             EditRefused(c) \/
             ApplyChecks(c) \/ CloseAsked(c) \/ RestartRefused(c) \/ ScanRefused(c) \/
             ProbeRefused(c)
      PROVE  StageInv'
  BY <1>0, <1>1 DEF EditRefused, ApplyChecks, CloseAsked, RestartRefused, ScanRefused,
     ProbeRefused, Refused, knownVars, runVars, endVars, histVars
<1>2. ASSUME PortReleased \/ WatchSees \/ WatchFails \/ HostShutdown \/ ShutCloses \/
             ShutCancels
      PROVE  StageInv'
  BY <1>0, <1>2 DEF PortReleased, WatchSees, WatchFails, HostShutdown, ShutCloses,
     ShutCancels, knownVars, runVars, endVars, histVars
<1>3. ASSUME NEW c \in Client, NEW op \in Op, Send(c, op)
      PROVE  StageInv'
  BY <1>0, <1>3 DEF Send, knownVars, runVars, endVars, histVars
<1>4. ASSUME NEW c \in Client, NEW j \in Job, NEW on \in Resource,
             ScanStarts(c, j, on)
      PROVE  StageInv'
  BY <1>0, <1>4 DEF ScanStarts, knownVars, runVars, endVars, histVars
<1>5. ASSUME NEW c \in Client, NEW j \in Job, CancelScan(c, j)
      PROVE  StageInv'
  BY <1>0, <1>5 DEF CancelScan, knownVars, runVars, endVars, histVars
<1>6. ASSUME NEW j \in Job, ScanConnects(j)
      PROVE  StageInv'
  BY <1>0, <1>6 DEF ScanConnects, knownVars, runVars, endVars, histVars
<1>7. ASSUME NEW j \in Job, ScanEnds(j)
      PROVE  StageInv'
  BY <1>0, <1>7 DEF ScanEnds, knownVars, runVars, endVars, histVars
<1>8. ASSUME NEW f \in Feature, External(f)
      PROVE  StageInv'
  BY <1>8 DEF External, StageInv, knownVars, runVars
<1>9. ASSUME NEW c \in Client, EditChecks(c)
      PROVE  StageInv'
  <2>1. reload.at = "no"
    BY <1>9, ControllerAssumption DEF EditChecks, Takes, MutexInv, Holding
  <2> QED
    BY <1>9, <2>1 DEF EditChecks, StageInv, knownVars, runVars, histVars
<1>10. ASSUME NEW c \in Client, EditRechecks(c)
      PROVE  StageInv'
  <2>1. reload.at = "no"
    BY <1>10, ControllerAssumption DEF EditRechecks, MutexInv, Holding
  <2> QED
    BY <1>10, <2>1 DEF EditRechecks, StageInv, knownVars, runVars, histVars
<1>11. ASSUME NEW c \in Client, EditReplaces(c)
      PROVE  StageInv'
  <2> DEFINE r == call[c].cand
  <2>1. lock = c /\ lock # Watcher /\ reload.at = "no" /\ file' = r /\ seen' = r
    BY <1>11, ControllerAssumption DEF EditReplaces, SeenAfter, MutexInv, Holding
  <2>2. staged' = IF Applies(c) \/ SameRun(r) THEN staged \ {r} ELSE staged \cup {r}
    BY <1>11 DEF EditReplaces
  <2>3. CASE Applies(c) /\ ReloadBegins(r)
    BY <2>1, <2>2, <2>3 DEF ReloadBegins, StageInv, TypeOK, Stacks
  <2>4. CASE UNCHANGED <<stack, reload>>
    BY <2>1, <2>2, <2>4 DEF SameRun, StageInv
  <2> QED
    BY <1>11, <2>3, <2>4 DEF EditReplaces, ReloadAnswers
<1>12. ASSUME NEW c \in Client, ApplyReloads(c)
      PROVE  StageInv'
  <2>1. lock = None /\ reload.at = "no" /\ file' = file /\ file \in Revision
    BY <1>12, ControllerAssumption DEF ApplyReloads, MutexInv, TypeOK
  <2>2. CASE Startable(file) /\ ~(stack.up /\ OfflineScan)
    <3>1. staged' = staged \ {file}
      BY <1>12, <2>2 DEF ApplyReloads
    <3>2. CASE ReloadBegins(file)
      BY <2>1, <3>1, <3>2 DEF ReloadBegins, StageInv, TypeOK, Stacks
    <3>3. CASE UNCHANGED <<stack, reload>>
      BY <2>1, <3>1, <3>3 DEF StageInv
    <3> QED
      BY <1>12, <2>2, <3>2, <3>3 DEF ApplyReloads, ReloadAnswers
  <2>3. CASE ~(Startable(file) /\ ~(stack.up /\ OfflineScan))
    BY <1>12, <2>1, <2>3 DEF ApplyReloads, StageInv
  <2> QED
    BY <2>2, <2>3
<1>13. ASSUME NEW c \in Client, StartServer(c)
      PROVE  StageInv'
  <2>1. reload.at = "no"
    BY <1>13, ControllerAssumption DEF StartServer, Takes, MutexInv
  <2> QED
    BY <1>13, <2>1 DEF StartServer, Starts, Up, StageInv
<1>14. ASSUME NEW c \in Client, StopServer(c)
      PROVE  StageInv'
  <2>1. reload.at = "no"
    BY <1>14, ControllerAssumption DEF StopServer, Takes, MutexInv
  <2> QED
    BY <1>14, <2>1 DEF StopServer, StackTaken, Down, StageInv, knownVars, histVars
<1>15. ASSUME NEW c \in Client, StopDone(c)
      PROVE  StageInv'
  <2>1. reload.at = "no"
    BY <1>15, ControllerAssumption DEF StopDone, MutexInv, Holding
  <2> QED
    BY <1>15, <2>1 DEF StopDone, StageInv, knownVars, runVars, histVars
<1>16. ASSUME NEW c \in Client, ProbeStarts(c)
      PROVE  StageInv'
  <2>1. reload.at = "no"
    BY <1>16, ControllerAssumption DEF ProbeStarts, Takes, MutexInv, Holding
  <2> QED
    BY <1>16, <2>1 DEF ProbeStarts, StageInv, knownVars, runVars, histVars
<1>17. ASSUME NEW c \in Client, ProbeEnds(c)
      PROVE  StageInv'
  <2>1. reload.at = "no"
    BY <1>17, ControllerAssumption DEF ProbeEnds, MutexInv, Holding
  <2> QED
    BY <1>17, <2>1 DEF ProbeEnds, StageInv, knownVars, runVars, histVars
<1>18. ASSUME NEW c \in Client, Leaves(c)
      PROVE  StageInv'
  <2>1. lock # c => UNCHANGED <<lock, reload>>
    BY <1>18 DEF Leaves
  <2>2. lock = c => reload'.at = "no"
    BY <1>18 DEF Leaves, TypeOK
  <2> QED
    BY <1>18, <2>1, <2>2 DEF Leaves, StageInv, knownVars
<1>19. ASSUME EngineDrained PROVE StageInv'
  BY <1>19
     DEF EngineDrained, Swapped, StageInv, TypeOK, Stacks, knownVars, histVars
<1>20. ASSUME PollerDrained PROVE StageInv'
  BY <1>20
     DEF PollerDrained, Swapped, StageInv, TypeOK, Stacks, knownVars, histVars
<1>21. ASSUME Panics PROVE StageInv'
  BY <1>21 DEF Panics, StageInv, TypeOK, Stacks, knownVars, histVars
<1>22. ASSUME ReloadSucceeds PROVE StageInv'
  BY <1>22 DEF ReloadSucceeds, StageInv, TypeOK, Stacks, knownVars, histVars
<1>23. ASSUME ReloadFails PROVE StageInv'
  BY <1>23 DEF ReloadFails, StageInv, TypeOK, Stacks, knownVars, histVars
<1>24. ASSUME WatchLoads PROVE StageInv'
  <2>1. /\ lock = None /\ reload.at = "no" /\ file' = file /\ staged' = staged
        /\ file # seen /\ seen' = file /\ file \in Revision
    BY <1>24, ControllerAssumption DEF WatchLoads, MutexInv, TypeOK, histVars
  <2>2. file \notin staged
    BY <2>1 DEF StageInv
  <2>3. CASE ReloadBegins(file)
    BY <2>1, <2>2, <2>3 DEF ReloadBegins, StageInv, TypeOK, Stacks
  <2>4. CASE UNCHANGED <<stack, reload>>
    BY <2>1, <2>2, <2>4 DEF StageInv
  <2> QED
    BY <1>24, <2>3, <2>4 DEF WatchLoads, ReloadAnswers
<1>25. ASSUME ShutStops PROVE StageInv'
  <2>1. reload.at = "no"
    BY <1>25, ControllerAssumption DEF ShutStops, MutexInv
  <2> QED
    BY <1>25, <2>1 DEF ShutStops, StackTaken, Down, StageInv, knownVars, histVars
<1>26. ASSUME ShutStopped PROVE StageInv'
  <2>1. reload.at = "no"
    BY <1>26, ControllerAssumption DEF ShutStopped, MutexInv, Holding
  <2> QED
    BY <1>26, <2>1 DEF ShutStopped, StageInv, knownVars, runVars, histVars
<1>27. ASSUME ShutDone PROVE StageInv'
  <2>1. reload.at = "no"
    BY <1>27 DEF ShutDone, CloseInv, StackInv
  <2> QED
    BY <1>27, <2>1 DEF ShutDone, StageInv, knownVars, runVars, histVars
<1>28. CASE UNCHANGED vars
  BY <1>0, <1>28 DEF vars, knownVars, runVars, endVars, histVars
<1> QED
  BY <1>0, <1>1, <1>2, <1>3, <1>4, <1>5, <1>6, <1>7, <1>8, <1>9, <1>10, <1>11,
     <1>12, <1>13, <1>14, <1>15, <1>16, <1>17, <1>18, <1>19, <1>20, <1>21,
     <1>22, <1>23, <1>24, <1>25, <1>26, <1>27, <1>28
     DEF Next, Serve, Reload, Watch, Shutdown

-----------------------------------------------------------------------------
(* What the controller knows of the stack *)

LEMMA StopStep == TypeOK /\ MutexInv /\ StopInv /\ [Next]_vars => StopInv'
<1> SUFFICES ASSUME TypeOK, MutexInv, StopInv, [Next]_vars
             PROVE  StopInv'
  OBVIOUS
<1>0. ASSUME UNCHANGED <<call, stack>> PROVE StopInv'
  BY <1>0 DEF StopInv
<1>1. ASSUME PortReleased \/ WatchSees \/ WatchFails \/ HostShutdown \/ ShutCloses \/
             ShutCancels \/ ShutStopped
      PROVE  StopInv'
  BY <1>0, <1>1 DEF PortReleased, WatchSees, WatchFails, HostShutdown, ShutCloses,
     ShutCancels, ShutStopped, knownVars, runVars, endVars, histVars
<1>2. ASSUME NEW f \in Feature, External(f)
      PROVE  StopInv'
  BY <1>0, <1>2 DEF External, knownVars, runVars, endVars, histVars
<1>3. ASSUME NEW j \in Job, ScanConnects(j)
      PROVE  StopInv'
  BY <1>0, <1>3 DEF ScanConnects, knownVars, runVars, endVars, histVars
<1>4. ASSUME NEW j \in Job, ScanEnds(j)
      PROVE  StopInv'
  BY <1>0, <1>4 DEF ScanEnds, knownVars, runVars, endVars, histVars
<1>5. ASSUME NEW c \in Client, NEW op \in Op, Send(c, op)
      PROVE  StopInv'
  BY <1>5 DEF Send, StopInv, TypeOK, runVars
<1>6. ASSUME NEW c \in Client, EditRefused(c)
      PROVE  StopInv'
  BY <1>6, EndedMoves, GoesMoves DEF EditRefused, Refused, StopInv, runVars
<1>7. ASSUME NEW c \in Client, EditChecks(c)
      PROVE  StopInv'
  BY <1>7, EndedMoves, GoesMoves DEF EditChecks, StopInv, runVars
<1>8. ASSUME NEW c \in Client, EditRechecks(c)
      PROVE  StopInv'
  BY <1>8, EndedMoves, GoesMoves DEF EditRechecks, StopInv, runVars
<1>9. ASSUME NEW c \in Client, EditReplaces(c)
      PROVE  StopInv'
  <2>1. \A d \in Client : call'[d].at # "stopping"
    BY <1>9, EndedMoves, GoesMoves, ControllerAssumption
       DEF EditReplaces, MutexInv, Holding
  <2> QED
    BY <2>1 DEF StopInv
<1>10. ASSUME NEW c \in Client, ApplyChecks(c) \/ CloseAsked(c)
      PROVE  StopInv'
  BY <1>10, EndedMoves, GoesMoves DEF ApplyChecks, CloseAsked, StopInv, runVars
<1>11. ASSUME NEW c \in Client, ApplyReloads(c)
      PROVE  StopInv'
  <2>1. \A d \in Client : call'[d].at # "stopping"
    BY <1>11, EndedMoves, GoesMoves, ControllerAssumption
       DEF ApplyReloads, MutexInv, Holding
  <2> QED
    BY <2>1 DEF StopInv
<1>12. ASSUME NEW c \in Client, StartServer(c)
      PROVE  StopInv'
  <2>1. \A d \in Client : call'[d].at # "stopping"
    BY <1>12, EndedMoves, ControllerAssumption
       DEF StartServer, Takes, MutexInv, Holding
  <2> QED
    BY <2>1 DEF StopInv
<1>13. ASSUME NEW c \in Client, RestartRefused(c)
      PROVE  StopInv'
  BY <1>13, EndedMoves, GoesMoves DEF RestartRefused, Refused, StopInv, runVars
<1>14. ASSUME NEW c \in Client, StopServer(c)
      PROVE  StopInv'
  BY <1>14 DEF StopServer, StackTaken, Down, StopInv
<1>15. ASSUME NEW c \in Client, StopDone(c)
      PROVE  StopInv'
  BY <1>15, EndedMoves, GoesMoves DEF StopDone, StopInv, runVars
<1>16. ASSUME NEW c \in Client, ScanRefused(c)
      PROVE  StopInv'
  BY <1>16, EndedMoves, GoesMoves DEF ScanRefused, Refused, StopInv, runVars
<1>17. ASSUME NEW c \in Client, NEW j \in Job, NEW on \in Resource,
             ScanStarts(c, j, on)
      PROVE  StopInv'
  BY <1>17, EndedMoves, GoesMoves DEF ScanStarts, StopInv, runVars
<1>18. ASSUME NEW c \in Client, NEW j \in Job, CancelScan(c, j)
      PROVE  StopInv'
  BY <1>18, EndedMoves, GoesMoves DEF CancelScan, StopInv, runVars
<1>19. ASSUME NEW c \in Client, ProbeRefused(c)
      PROVE  StopInv'
  BY <1>19, EndedMoves, GoesMoves DEF ProbeRefused, Refused, StopInv, runVars
<1>20. ASSUME NEW c \in Client, ProbeStarts(c)
      PROVE  StopInv'
  BY <1>20, EndedMoves, GoesMoves DEF ProbeStarts, StopInv, runVars
<1>21. ASSUME NEW c \in Client, ProbeEnds(c)
      PROVE  StopInv'
  BY <1>21, EndedMoves, GoesMoves DEF ProbeEnds, StopInv, runVars
<1>22. ASSUME NEW c \in Client, Leaves(c)
      PROVE  StopInv'
  BY <1>22, EndedMoves, GoesMoves DEF Leaves, StopInv, runVars
<1>23. ASSUME EngineDrained PROVE StopInv'
  BY <1>23 DEF EngineDrained, Swapped, StopInv, TypeOK, Stacks
<1>24. ASSUME PollerDrained PROVE StopInv'
  BY <1>24 DEF PollerDrained, Swapped, StopInv, TypeOK, Stacks
<1>25. ASSUME Panics PROVE StopInv'
  <2>1. \A d \in Client : call'[d].at = "stopping" => call[d].at = "stopping"
    BY <1>25, EndedMoves DEF Panics, MutexInv
  <2> QED
    BY <1>25, <2>1 DEF Panics, StopInv, TypeOK, Stacks
<1>26. ASSUME ReloadSucceeds PROVE StopInv'
  <2>1. \A d \in Client : call'[d].at = "stopping" => call[d].at = "stopping"
    BY <1>26, EndedMoves DEF ReloadSucceeds, MutexInv
  <2> QED
    BY <1>26, <2>1 DEF ReloadSucceeds, StopInv, TypeOK, Stacks
<1>27. ASSUME ReloadFails PROVE StopInv'
  <2>1. \A d \in Client : call'[d].at = "stopping" => call[d].at = "stopping"
    BY <1>27, EndedMoves DEF ReloadFails, MutexInv
  <2> QED
    BY <1>27, <2>1 DEF ReloadFails, StopInv, TypeOK, Stacks
<1>28. ASSUME WatchLoads PROVE StopInv'
  <2>1. \A d \in Client : call'[d].at # "stopping"
    BY <1>28, ControllerAssumption DEF WatchLoads, MutexInv, Holding
  <2> QED
    BY <2>1 DEF StopInv
<1>29. ASSUME ShutStops PROVE StopInv'
  BY <1>29 DEF ShutStops, StackTaken, Down, StopInv
<1>30. ASSUME ShutDone PROVE StopInv'
  BY <1>30 DEF ShutDone, Idle, StopInv, runVars
<1>31. CASE UNCHANGED vars
  BY <1>0, <1>31 DEF vars, knownVars, runVars, endVars, histVars
<1> QED
  BY <1>0, <1>1, <1>2, <1>3, <1>4, <1>5, <1>6, <1>7, <1>8, <1>9, <1>10, <1>11,
     <1>12, <1>13, <1>14, <1>15, <1>16, <1>17, <1>18, <1>19, <1>20, <1>21,
     <1>22, <1>23, <1>24, <1>25, <1>26, <1>27, <1>28, <1>29, <1>30, <1>31
     DEF Next, Serve, Reload, Watch, Shutdown

LEMMA SyncStep ==
  TypeOK /\ MutexInv /\ CloseInv /\ StopInv /\ SyncInv /\ [Next]_vars => SyncInv'
<1> SUFFICES ASSUME TypeOK, MutexInv, CloseInv, StopInv, SyncInv, [Next]_vars
             PROVE  SyncInv'
  OBVIOUS
<1>0. ASSUME UNCHANGED <<stack, reload, applied, lost>> PROVE SyncInv'
  BY <1>0 DEF SyncInv
<1>1. ASSUME NEW c \in Client,
             EditRefused(c) \/ EditChecks(c) \/
             EditRechecks(c) \/ ApplyChecks(c) \/ CloseAsked(c) \/ RestartRefused(c) \/
             ScanRefused(c) \/ ProbeRefused(c) \/ ProbeStarts(c) \/
             ProbeEnds(c)
      PROVE  SyncInv'
  BY <1>0, <1>1 DEF EditRefused, EditChecks, EditRechecks, ApplyChecks, CloseAsked,
     RestartRefused, ScanRefused, ProbeRefused, ProbeStarts, ProbeEnds,
     Refused, knownVars, runVars, endVars, histVars
<1>2. ASSUME PortReleased \/ WatchSees \/ WatchFails \/ HostShutdown \/ ShutCloses \/
             ShutCancels \/ ShutDone
      PROVE  SyncInv'
  BY <1>0, <1>2 DEF PortReleased, WatchSees, WatchFails, HostShutdown, ShutCloses,
     ShutCancels, ShutDone, knownVars, runVars, endVars, histVars
<1>3. ASSUME NEW f \in Feature, External(f)
      PROVE  SyncInv'
  BY <1>0, <1>3 DEF External, knownVars, runVars, endVars, histVars
<1>4. ASSUME NEW c \in Client, NEW op \in Op, Send(c, op)
      PROVE  SyncInv'
  BY <1>0, <1>4 DEF Send, knownVars, runVars, endVars, histVars
<1>5. ASSUME NEW c \in Client, NEW j \in Job, NEW on \in Resource,
             ScanStarts(c, j, on)
      PROVE  SyncInv'
  BY <1>0, <1>5 DEF ScanStarts, knownVars, runVars, endVars, histVars
<1>6. ASSUME NEW c \in Client, NEW j \in Job, CancelScan(c, j)
      PROVE  SyncInv'
  BY <1>0, <1>6 DEF CancelScan, knownVars, runVars, endVars, histVars
<1>7. ASSUME NEW j \in Job, ScanConnects(j)
      PROVE  SyncInv'
  BY <1>0, <1>7 DEF ScanConnects, knownVars, runVars, endVars, histVars
<1>8. ASSUME NEW j \in Job, ScanEnds(j)
      PROVE  SyncInv'
  BY <1>0, <1>8 DEF ScanEnds, knownVars, runVars, endVars, histVars
<1>9. ASSUME NEW c \in Client, EditReplaces(c)
      PROVE  SyncInv'
  <2>1. reload.at = "no" /\ lost' = lost
    BY <1>9, ControllerAssumption DEF EditReplaces, MutexInv, Holding, histVars
  <2>2. CASE \E r \in Revision : ReloadBegins(r) /\ UNCHANGED applied
    BY <2>1, <2>2 DEF ReloadBegins, SyncInv, TypeOK, Stacks
  <2>3. CASE \E r \in Revision : ReloadAnswers(r)
    BY <2>1, <2>3 DEF ReloadAnswers, SameRun, SyncInv
  <2>4. CASE UNCHANGED <<stack, reload, applied>>
    BY <2>1, <2>4 DEF SyncInv
  <2>5. file \in Revision /\ \A d \in Client : call[d].cand \in Revision
    BY DEF TypeOK, Calls
  <2> QED
    BY <1>9, <2>2, <2>3, <2>4, <2>5 DEF EditReplaces
<1>10. ASSUME NEW c \in Client, ApplyReloads(c)
      PROVE  SyncInv'
  <2>1. reload.at = "no" /\ lost' = lost
    BY <1>10, ControllerAssumption DEF ApplyReloads, MutexInv, Holding, histVars
  <2>2. CASE \E r \in Revision : ReloadBegins(r) /\ UNCHANGED applied
    BY <2>1, <2>2 DEF ReloadBegins, SyncInv, TypeOK, Stacks
  <2>3. CASE \E r \in Revision : ReloadAnswers(r)
    BY <2>1, <2>3 DEF ReloadAnswers, SameRun, SyncInv
  <2>4. CASE UNCHANGED <<stack, reload, applied>>
    BY <2>1, <2>4 DEF SyncInv
  <2>5. file \in Revision /\ \A d \in Client : call[d].cand \in Revision
    BY DEF TypeOK, Calls
  <2> QED
    BY <1>10, <2>2, <2>3, <2>4, <2>5 DEF ApplyReloads
<1>11. ASSUME NEW c \in Client, StartServer(c)
      PROVE  SyncInv'
  <2>1. reload.at = "no"
    BY <1>11, ControllerAssumption DEF StartServer, Takes, MutexInv
  <2> QED
    BY <1>11, <2>1 DEF StartServer, Starts, Up, SyncInv
<1>12. ASSUME NEW c \in Client, StopServer(c)
      PROVE  SyncInv'
  BY <1>12 DEF StopServer, StackTaken, Down, SyncInv
<1>13. ASSUME NEW c \in Client, StopDone(c)
      PROVE  SyncInv'
  <2>1. ~stack.up
    BY <1>13 DEF StopDone, StopInv
  <2> QED
    BY <1>13, <2>1 DEF StopDone, SyncInv
<1>14. ASSUME NEW c \in Client, Leaves(c)
      PROVE  SyncInv'
  BY <1>14 DEF Leaves, SyncInv, TypeOK, Stacks, knownVars, histVars
<1>15. ASSUME EngineDrained PROVE SyncInv'
  BY <1>15
     DEF EngineDrained, Swapped, SyncInv, TypeOK, Stacks, knownVars, histVars
<1>16. ASSUME PollerDrained PROVE SyncInv'
  BY <1>16
     DEF PollerDrained, Swapped, SyncInv, TypeOK, Stacks, knownVars, histVars
<1>17. ASSUME Panics PROVE SyncInv'
  BY <1>17 DEF Panics, SyncInv, TypeOK, Stacks, knownVars, histVars
<1>18. ASSUME ReloadSucceeds PROVE SyncInv'
  BY <1>18 DEF ReloadSucceeds, SyncInv, TypeOK, Stacks, knownVars, histVars
<1>19. ASSUME ReloadFails PROVE SyncInv'
  BY <1>19 DEF ReloadFails, SyncInv, TypeOK, Stacks, knownVars, histVars
<1>20. ASSUME WatchLoads PROVE SyncInv'
  <2>1. reload.at = "no" /\ lost' = lost
    BY <1>20, ControllerAssumption DEF WatchLoads, MutexInv, Holding, histVars
  <2>2. CASE \E r \in Revision : ReloadBegins(r) /\ UNCHANGED applied
    BY <2>1, <2>2 DEF ReloadBegins, SyncInv, TypeOK, Stacks
  <2>3. CASE \E r \in Revision : ReloadAnswers(r)
    BY <2>1, <2>3 DEF ReloadAnswers, SameRun, SyncInv
  <2>4. CASE UNCHANGED <<stack, reload, applied>>
    BY <2>1, <2>4 DEF SyncInv
  <2>5. file \in Revision /\ \A d \in Client : call[d].cand \in Revision
    BY DEF TypeOK, Calls
  <2> QED
    BY <1>20, <2>2, <2>3, <2>4, <2>5 DEF WatchLoads
<1>21. ASSUME ShutStops PROVE SyncInv'
  BY <1>21 DEF ShutStops, StackTaken, Down, SyncInv
<1>22. ASSUME ShutStopped PROVE SyncInv'
  <2>1. ~stack.up
    BY <1>22 DEF ShutStopped, CloseInv
  <2> QED
    BY <1>22, <2>1 DEF ShutStopped, SyncInv
<1>23. CASE UNCHANGED vars
  BY <1>0, <1>23 DEF vars, knownVars, runVars, endVars, histVars
<1> QED
  BY <1>0, <1>1, <1>2, <1>3, <1>4, <1>5, <1>6, <1>7, <1>8, <1>9, <1>10, <1>11,
     <1>12, <1>13, <1>14, <1>15, <1>16, <1>17, <1>18, <1>19, <1>20, <1>21,
     <1>22, <1>23
     DEF Next, Serve, Reload, Watch, Shutdown

-----------------------------------------------------------------------------
(* The shutdown *)

LEMMA CloseStep ==
  TypeOK /\ MutexInv /\ StackInv /\ CloseInv /\ [Next]_vars => CloseInv'
<1> SUFFICES ASSUME TypeOK, MutexInv, StackInv, CloseInv, [Next]_vars
             PROVE  CloseInv'
  OBVIOUS
<1>0. ASSUME UNCHANGED <<shut, closed, job, stack, awaited>> PROVE CloseInv'
  BY <1>0 DEF CloseInv, Running
<1>1. ASSUME NEW c \in Client,
             EditRefused(c) \/ EditChecks(c) \/
             EditRechecks(c) \/ ApplyChecks(c) \/ RestartRefused(c) \/
             ScanRefused(c) \/ ProbeRefused(c) \/ ProbeStarts(c) \/
             ProbeEnds(c)
      PROVE  CloseInv'
  BY <1>0, <1>1 DEF EditRefused, EditChecks, EditRechecks, ApplyChecks,
     RestartRefused, ScanRefused, ProbeRefused, ProbeStarts, ProbeEnds,
     Refused, knownVars, runVars, endVars, histVars
<1>2. ASSUME WatchSees \/ WatchFails
      PROVE  CloseInv'
  BY <1>0, <1>2 DEF WatchSees, WatchFails, knownVars, runVars, endVars, histVars
<1>3. ASSUME NEW f \in Feature, External(f)
      PROVE  CloseInv'
  BY <1>0, <1>3 DEF External, knownVars, runVars, endVars, histVars
<1>4. ASSUME NEW c \in Client, NEW op \in Op, Send(c, op)
      PROVE  CloseInv'
  BY <1>0, <1>4 DEF Send, knownVars, runVars, endVars, histVars
<1>5. ASSUME NEW c \in Client, EditReplaces(c)
      PROVE  CloseInv'
  <2>1. stack'.up = stack.up
    BY <1>5 DEF EditReplaces, ReloadBegins, ReloadAnswers, TypeOK, Stacks
  <2> QED
    BY <1>5, <2>1 DEF EditReplaces, CloseInv, endVars, Running
<1>6. ASSUME NEW c \in Client, ApplyReloads(c)
      PROVE  CloseInv'
  <2>1. stack'.up = stack.up
    BY <1>6 DEF ApplyReloads, ReloadBegins, ReloadAnswers, TypeOK, Stacks
  <2> QED
    BY <1>6, <2>1 DEF ApplyReloads, CloseInv, endVars, Running
<1>7. ASSUME NEW c \in Client, StartServer(c)
      PROVE  CloseInv'
  <2>1. closed => stack' = stack
    BY <1>7 DEF StartServer, MayStart
  <2>2. /\ shut \in {"jobs", "stop", "stopping", "tasks", "done"} => closed
        /\ UNCHANGED <<shut, closed, job, awaited>>
    BY <1>7 DEF StartServer, CloseInv, endVars
  <2> QED
    BY <2>1, <2>2 DEF CloseInv, Running
<1>8. ASSUME NEW c \in Client, StopServer(c)
      PROVE  CloseInv'
  <2>1. shut # "stopping"
    BY <1>8, ControllerAssumption DEF StopServer, Takes, MutexInv
  <2>2. shut \in {"tasks", "done"} => ~awaited'
    BY <1>8 DEF StopServer, StackTaken, PollsPort, CloseInv, StackInv
  <2> QED
    BY <1>8, <2>1, <2>2 DEF StopServer, StackTaken, Down, CloseInv, Running, endVars
<1>9. ASSUME NEW c \in Client, StopDone(c)
      PROVE  CloseInv'
  BY <1>9 DEF StopDone, CloseInv, Running
<1>10. ASSUME NEW c \in Client, NEW j \in Job, NEW on \in Resource,
             ScanStarts(c, j, on)
      PROVE  CloseInv'
  <2>1. ~closed
    BY <1>10 DEF ScanStarts, MayScan
  <2> QED
    BY <1>10, <2>1 DEF ScanStarts, CloseInv, endVars, runVars
<1>11. ASSUME NEW c \in Client, NEW j \in Job, CancelScan(c, j)
      PROVE  CloseInv'
  <2>1. \A k \in Job : /\ job'[k].at = job[k].at
                       /\ job[k].at # "none" /\ job[k].cancel => job'[k].cancel
    BY <1>11 DEF CancelScan, TypeOK, Jobs
  <2> QED
    BY <1>11, <2>1 DEF CancelScan, CloseInv, Running, endVars, runVars
<1>12. ASSUME NEW c \in Client, Leaves(c)
      PROVE  CloseInv'
  BY <1>12 DEF Leaves, CloseInv, Running, endVars
<1>13. ASSUME EngineDrained PROVE CloseInv'
  <2>1. stack.up
    BY <1>13 DEF EngineDrained, StackInv
  <2>2. shut \notin {"stopping", "tasks", "done"}
    BY <2>1 DEF CloseInv
  <2> QED
    BY <1>13, <2>2 DEF EngineDrained, CloseInv, Running, endVars
<1>14. ASSUME PollerDrained PROVE CloseInv'
  <2>1. stack.up
    BY <1>14 DEF PollerDrained, StackInv
  <2>2. shut \notin {"stopping", "tasks", "done"}
    BY <2>1 DEF CloseInv
  <2> QED
    BY <1>14, <2>2 DEF PollerDrained, CloseInv, Running, endVars
<1>15. ASSUME Panics PROVE CloseInv'
  <2>1. stack'.up = stack.up
    BY <1>15 DEF Panics, TypeOK, Stacks
  <2> QED
    BY <1>15, <2>1 DEF Panics, CloseInv, Running, endVars
<1>16. ASSUME ReloadSucceeds PROVE CloseInv'
  BY <1>16 DEF ReloadSucceeds, CloseInv, Running, endVars
<1>17. ASSUME ReloadFails PROVE CloseInv'
  <2>1. stack'.up = stack.up
    BY <1>17 DEF ReloadFails, TypeOK, Stacks
  <2> QED
    BY <1>17, <2>1 DEF ReloadFails, CloseInv, Running, endVars
<1>18. ASSUME PortReleased PROVE CloseInv'
  BY <1>18 DEF PortReleased, CloseInv, Running, endVars
<1>19. ASSUME WatchLoads PROVE CloseInv'
  <2>1. stack'.up = stack.up
    BY <1>19 DEF WatchLoads, ReloadBegins, ReloadAnswers, TypeOK, Stacks
  <2> QED
    BY <1>19, <2>1 DEF WatchLoads, CloseInv, endVars, Running
<1>20. ASSUME NEW j \in Job, ScanConnects(j)
      PROVE  CloseInv'
  <2>1. \A k \in Job : /\ job'[k].at = "running" => job[k].at = "running"
                       /\ job'[k].cancel = job[k].cancel
    BY <1>20 DEF ScanConnects, TypeOK, Jobs
  <2> QED
    BY <1>20, <2>1 DEF ScanConnects, CloseInv, Running, endVars, runVars
<1>21. ASSUME NEW j \in Job, ScanEnds(j)
      PROVE  CloseInv'
  <2>1. \A k \in Job : /\ job'[k].at = "running" => job[k].at = "running"
                       /\ job'[k].cancel = job[k].cancel
    BY <1>21 DEF ScanEnds, TypeOK, Jobs
  <2> QED
    BY <1>21, <2>1 DEF ScanEnds, CloseInv, Running, endVars, runVars
<1>22. ASSUME HostShutdown PROVE CloseInv'
  BY <1>22 DEF HostShutdown, CloseInv
<1>23. ASSUME ShutCloses PROVE CloseInv'
  BY <1>23 DEF ShutCloses, CloseInv
<1>24. ASSUME ShutCancels PROVE CloseInv'
  <2>1. \A k \in Job : /\ job'[k].at = job[k].at
                       /\ job[k].at # "none" => job'[k].cancel = TRUE
    BY <1>24 DEF ShutCancels, TypeOK, Jobs
  <2>2. ASSUME NEW k \in Job, Running(k)' PROVE job'[k].cancel
    <3>1. job[k].at = "running"
      BY <2>1, <2>2 DEF Running
    <3> QED
      BY <2>1, <3>1
  <2>3. shut' = "stop" /\ closed' = closed /\ closed
    BY <1>24 DEF ShutCancels, CloseInv
  <2> QED
    BY <2>2, <2>3 DEF CloseInv
<1>25. ASSUME ShutStops PROVE CloseInv'
  BY <1>25 DEF ShutStops, StackTaken, Down, CloseInv, Running
<1>26. ASSUME ShutStopped PROVE CloseInv'
  BY <1>26 DEF ShutStopped, Released, CloseInv, Running
<1>27. ASSUME ShutDone PROVE CloseInv'
  BY <1>27 DEF ShutDone, CloseInv, Running, runVars
<1>28. ASSUME NEW c \in Client, CloseAsked(c)
      PROVE  CloseInv'
  BY <1>28 DEF CloseAsked, CloseInv, Running, runVars
<1>29. CASE UNCHANGED vars
  BY <1>0, <1>29 DEF vars, knownVars, runVars, endVars, histVars
<1> QED
  BY <1>0, <1>1, <1>2, <1>3, <1>4, <1>5, <1>6, <1>7, <1>8, <1>9, <1>10, <1>11,
     <1>12, <1>13, <1>14, <1>15, <1>16, <1>17, <1>18, <1>19, <1>20, <1>21,
     <1>22, <1>23, <1>24, <1>25, <1>26, <1>27, <1>28, <1>29
     DEF Next, Serve, Reload, Watch, Shutdown

\* Nobody is let in once the lease is given back.
LEMMA DoneStep ==
  TypeOK /\ CloseInv /\ DoneInv /\ [Next]_vars => DoneInv'
<1> SUFFICES ASSUME TypeOK, CloseInv, DoneInv, [Next]_vars, shut' = "done"
             PROVE  \A c \in Client : call'[c].at = "idle"
  BY DEF DoneInv
<1>0. CASE ShutDone
  BY <1>0 DEF ShutDone, Idle
<1>1. ASSUME NEW c \in Client, Serve(c)
      PROVE  call[c].at # "idle" /\ shut' \in {shut, "begin"}
  <2>1. CASE EditRefused(c) \/ EditChecks(c) \/ EditRechecks(c) \/ EditReplaces(c)
    BY <2>1 DEF EditRefused, EditChecks, EditRechecks, EditReplaces, Refused, Takes,
       Serves, endVars
  <2>2. CASE \/ ApplyChecks(c) \/ ApplyReloads(c) \/ StartServer(c)
             \/ RestartRefused(c) \/ CloseAsked(c) \/ StopServer(c) \/ StopDone(c)
    BY <2>2 DEF ApplyChecks, ApplyReloads, StartServer, RestartRefused, CloseAsked,
       StopServer, StopDone, Refused, Takes, Serves, endVars
  <2>3. CASE \/ ScanRefused(c) \/ ProbeRefused(c) \/ ProbeStarts(c) \/ ProbeEnds(c)
             \/ \E j \in Job, on \in Resource : ScanStarts(c, j, on)
             \/ \E j \in Job : CancelScan(c, j)
    BY <2>3 DEF ScanRefused, ScanStarts, CancelScan, ProbeRefused, ProbeStarts,
       ProbeEnds, Refused, Takes, Serves, endVars
  <2> QED
    BY <1>1, <2>1, <2>2, <2>3 DEF Serve
<1>2. ASSUME NEW c \in Client, Leaves(c)
      PROVE  call[c].at # "idle" /\ shut' = shut
  BY <1>2 DEF Leaves, endVars
<1>3. ASSUME NEW c \in Client, NEW op \in Op, Send(c, op)
      PROVE  ~closed /\ shut' = shut
  BY <1>3 DEF Send, endVars
<1>4. CASE Reload
  <2>1. shut' = shut /\ (call' = call \/ Ended(lock))
    BY <1>4 DEF Reload, EngineDrained, PollerDrained, Panics, ReloadSucceeds,
       ReloadFails, endVars
  <2> QED
    BY <2>1 DEF DoneInv, Ended, Idle, TypeOK
<1>5. CASE \/ \E f \in Feature : External(f)
           \/ PortReleased \/ Watch \/ WatchFails \/ HostShutdown
           \/ Shutdown /\ ~ShutDone
           \/ \E j \in Job : ScanConnects(j) \/ ScanEnds(j)
           \/ UNCHANGED vars
  <2>1. call' = call /\ shut' \in {shut, "begin", "jobs", "stop", "stopping", "tasks"}
    BY <1>5 DEF External, PortReleased, Watch, WatchSees, WatchLoads, WatchFails,
       HostShutdown, Shutdown, ShutCloses, ShutCancels, ShutStops, ShutStopped,
       ScanConnects, ScanEnds, vars, endVars
  <2> QED
    BY <2>1 DEF DoneInv
<1> QED
  BY <1>0, <1>1, <1>2, <1>3, <1>4, <1>5 DEF Next, DoneInv, CloseInv

-----------------------------------------------------------------------------
(* The port *)

LEMMA DrainStep ==
  TypeOK /\ MutexInv /\ CloseInv /\ DrainInv /\ [Next]_vars => DrainInv'
<1> SUFFICES ASSUME TypeOK, MutexInv, CloseInv, DrainInv, [Next]_vars
             PROVE  DrainInv'
  OBVIOUS
<1>0. ASSUME UNCHANGED <<awaited, stack, shut, reload, call>> PROVE DrainInv'
  BY <1>0 DEF DrainInv
<1>1. ASSUME WatchSees \/ WatchFails
      PROVE  DrainInv'
  BY <1>0, <1>1 DEF WatchSees, WatchFails, knownVars, runVars, endVars, histVars
<1>2. ASSUME NEW f \in Feature, External(f)
      PROVE  DrainInv'
  BY <1>0, <1>2 DEF External, knownVars, runVars, endVars, histVars
<1>3. ASSUME NEW j \in Job, ScanConnects(j)
      PROVE  DrainInv'
  BY <1>0, <1>3 DEF ScanConnects, knownVars, runVars, endVars, histVars
<1>4. ASSUME NEW j \in Job, ScanEnds(j)
      PROVE  DrainInv'
  BY <1>0, <1>4 DEF ScanEnds, knownVars, runVars, endVars, histVars
<1>5. ASSUME NEW c \in Client, NEW op \in Op, Send(c, op)
      PROVE  DrainInv'
  <2>1. \A d \in Client : call[d].at = "stopping" => call'[d].at = "stopping"
    BY <1>5 DEF Send, TypeOK
  <2> QED
    BY <1>5, <2>1 DEF Send, DrainInv, runVars, endVars
<1>6. ASSUME NEW c \in Client, EditRefused(c)
      PROVE  DrainInv'
  <2>1. ~awaited
    BY <1>6, ControllerAssumption
       DEF EditRefused, Takes, Refused, DrainInv, MutexInv, Holding
  <2> QED
    BY <1>6, <2>1 DEF EditRefused, Refused, DrainInv, runVars
<1>7. ASSUME NEW c \in Client, EditChecks(c)
      PROVE  DrainInv'
  <2>1. ~awaited
    BY <1>7, ControllerAssumption
       DEF EditChecks, Takes, DrainInv, MutexInv, Holding
  <2> QED
    BY <1>7, <2>1 DEF EditChecks, DrainInv, runVars
<1>8. ASSUME NEW c \in Client, EditRechecks(c)
      PROVE  DrainInv'
  <2>1. ~awaited
    BY <1>8, ControllerAssumption DEF EditRechecks, DrainInv, MutexInv, Holding
  <2> QED
    BY <1>8, <2>1 DEF EditRechecks, DrainInv, runVars
<1>9. ASSUME NEW c \in Client, EditReplaces(c)
      PROVE  DrainInv'
  <2>1. ~awaited
    BY <1>9, ControllerAssumption DEF EditReplaces, DrainInv, MutexInv, Holding
  <2> QED
    BY <1>9, <2>1 DEF EditReplaces, DrainInv, runVars
<1>10. ASSUME NEW c \in Client, ApplyChecks(c) \/ CloseAsked(c)
      PROVE  DrainInv'
  <2>1. \A d \in Client : call[d].at = "stopping" => call'[d].at = "stopping"
    BY <1>10, EndedMoves, GoesMoves DEF ApplyChecks, CloseAsked, Serves
  <2> QED
    BY <1>10, <2>1 DEF ApplyChecks, CloseAsked, DrainInv, runVars, endVars
<1>11. ASSUME NEW c \in Client, ApplyReloads(c)
      PROVE  DrainInv'
  <2>1. ~awaited
    BY <1>11, ControllerAssumption DEF ApplyReloads, DrainInv, MutexInv, Holding
  <2> QED
    BY <1>11, <2>1 DEF ApplyReloads, DrainInv, runVars
<1>12. ASSUME NEW c \in Client, StartServer(c)
      PROVE  DrainInv'
  <2>1. ~awaited
    BY <1>12, ControllerAssumption
       DEF StartServer, Takes, DrainInv, MutexInv, Holding
  <2> QED
    BY <1>12, <2>1 DEF StartServer, DrainInv, runVars
<1>13. ASSUME NEW c \in Client, RestartRefused(c)
      PROVE  DrainInv'
  <2>1. \A d \in Client : call[d].at = "stopping" => call'[d].at = "stopping"
    BY <1>13, EndedMoves, GoesMoves DEF RestartRefused, Refused, Serves
  <2> QED
    BY <1>13, <2>1 DEF RestartRefused, Refused, DrainInv, runVars, endVars
<1>14. ASSUME NEW c \in Client, StopServer(c)
      PROVE  DrainInv'
  <2>1. call'[c].at = "stopping"
    BY <1>14, GoesMoves DEF StopServer
  <2> QED
    BY <1>14, <2>1 DEF StopServer, StackTaken, Down, DrainInv
<1>15. ASSUME NEW c \in Client, StopDone(c)
      PROVE  DrainInv'
  BY <1>15 DEF StopDone, Released, DrainInv
<1>16. ASSUME NEW c \in Client, ScanRefused(c)
      PROVE  DrainInv'
  <2>1. ~awaited
    BY <1>16, ControllerAssumption
       DEF ScanRefused, Takes, Refused, DrainInv, MutexInv, Holding
  <2> QED
    BY <1>16, <2>1 DEF ScanRefused, Refused, DrainInv, runVars
<1>17. ASSUME NEW c \in Client, NEW j \in Job, NEW on \in Resource,
             ScanStarts(c, j, on)
      PROVE  DrainInv'
  <2>1. ~awaited
    BY <1>17, ControllerAssumption
       DEF ScanStarts, Takes, DrainInv, MutexInv, Holding
  <2> QED
    BY <1>17, <2>1 DEF ScanStarts, DrainInv, runVars
<1>18. ASSUME NEW c \in Client, NEW j \in Job, CancelScan(c, j)
      PROVE  DrainInv'
  <2>1. \A d \in Client : call[d].at = "stopping" => call'[d].at = "stopping"
    BY <1>18, EndedMoves, GoesMoves DEF CancelScan, Serves
  <2> QED
    BY <1>18, <2>1 DEF CancelScan, DrainInv, runVars, endVars
<1>19. ASSUME NEW c \in Client, ProbeRefused(c)
      PROVE  DrainInv'
  <2>1. ~awaited
    BY <1>19, ControllerAssumption
       DEF ProbeRefused, Takes, Refused, DrainInv, MutexInv, Holding
  <2> QED
    BY <1>19, <2>1 DEF ProbeRefused, Refused, DrainInv, runVars
<1>20. ASSUME NEW c \in Client, ProbeStarts(c)
      PROVE  DrainInv'
  <2>1. ~awaited
    BY <1>20, ControllerAssumption
       DEF ProbeStarts, Takes, DrainInv, MutexInv, Holding
  <2> QED
    BY <1>20, <2>1 DEF ProbeStarts, DrainInv, runVars
<1>21. ASSUME NEW c \in Client, ProbeEnds(c)
      PROVE  DrainInv'
  <2>1. ~awaited
    BY <1>21, ControllerAssumption DEF ProbeEnds, DrainInv, MutexInv, Holding
  <2> QED
    BY <1>21, <2>1 DEF ProbeEnds, DrainInv, runVars
<1>22. ASSUME NEW c \in Client, Leaves(c)
      PROVE  DrainInv'
  <2>1. CASE lock = c
    BY <1>22, <2>1 DEF Leaves, DrainInv
  <2>2. CASE lock # c
    <3>1. \A d \in Client : call[d].at = "stopping" => call'[d].at = "stopping"
      BY <1>22, <2>2, EndedMoves DEF Leaves, MutexInv, Holding
    <3> QED
      BY <1>22, <2>2, <3>1 DEF Leaves, DrainInv, endVars
  <2> QED
    BY <2>1, <2>2
<1>23. ASSUME EngineDrained PROVE DrainInv'
  <2>1. ~awaited
    BY <1>23, ControllerAssumption DEF EngineDrained, DrainInv, MutexInv, Holding
  <2> QED
    BY <1>23, <2>1 DEF EngineDrained, DrainInv, TypeOK, Stacks
<1>24. ASSUME PollerDrained PROVE DrainInv'
  BY <1>24 DEF PollerDrained, Released, DrainInv
<1>25. ASSUME Panics PROVE DrainInv'
  <2>1. ~awaited
    BY <1>25, ControllerAssumption DEF Panics, DrainInv, MutexInv, Holding
  <2> QED
    BY <1>25, <2>1 DEF Panics, DrainInv
<1>26. ASSUME ReloadSucceeds PROVE DrainInv'
  <2>1. ~awaited
    BY <1>26, ControllerAssumption DEF ReloadSucceeds, DrainInv, MutexInv, Holding
  <2> QED
    BY <1>26, <2>1 DEF ReloadSucceeds, DrainInv
<1>27. ASSUME ReloadFails PROVE DrainInv'
  <2>1. ~awaited
    BY <1>27, ControllerAssumption DEF ReloadFails, DrainInv, MutexInv, Holding
  <2> QED
    BY <1>27, <2>1 DEF ReloadFails, DrainInv
<1>28. ASSUME PortReleased PROVE DrainInv'
  <2>1. awaited' => awaited
    BY <1>28 DEF PortReleased
  <2> QED
    BY <1>28, <2>1 DEF PortReleased, DrainInv, endVars
<1>29. ASSUME WatchLoads PROVE DrainInv'
  <2>1. ~awaited
    BY <1>29, ControllerAssumption DEF WatchLoads, DrainInv, MutexInv, Holding
  <2> QED
    BY <1>29, <2>1 DEF WatchLoads, DrainInv, runVars
<1>30. ASSUME HostShutdown PROVE DrainInv'
  BY <1>30 DEF HostShutdown, DrainInv, runVars
<1>31. ASSUME ShutCloses PROVE DrainInv'
  BY <1>31 DEF ShutCloses, DrainInv, runVars
<1>32. ASSUME ShutCancels PROVE DrainInv'
  BY <1>32 DEF ShutCancels, DrainInv, runVars
<1>33. ASSUME ShutStops PROVE DrainInv'
  BY <1>33 DEF ShutStops, StackTaken, Down, DrainInv
<1>34. ASSUME ShutStopped PROVE DrainInv'
  BY <1>34 DEF ShutStopped, Released, DrainInv
<1>35. ASSUME ShutDone PROVE DrainInv'
  BY <1>35 DEF ShutDone, CloseInv, DrainInv, runVars
<1>36. CASE UNCHANGED vars
  BY <1>0, <1>36 DEF vars, knownVars, runVars, endVars, histVars
<1> QED
  BY <1>0, <1>1, <1>2, <1>3, <1>4, <1>5, <1>6, <1>7, <1>8, <1>9, <1>10, <1>11,
     <1>12, <1>13, <1>14, <1>15, <1>16, <1>17, <1>18, <1>19, <1>20, <1>21,
     <1>22, <1>23, <1>24, <1>25, <1>26, <1>27, <1>28, <1>29, <1>30, <1>31,
     <1>32, <1>33, <1>34, <1>35, <1>36
     DEF Next, Serve, Reload, Watch, Shutdown

\* With the same jobs, what must not run beside an offline scan does not begin.
LEMMA ScanKept ==
  ASSUME ScanInv, job' = job,
         reload'.at # "no" => reload.at # "no" \/ ~OfflineScan,
         \A c \in Client :
           call'[c].at \in {"saving", "replace"} /\ call'[c].op = "save" =>
             \/ call[c].at \in {"saving", "replace"} /\ call[c].op = "save"
             \/ ~OfflineScan,
         \A c \in Client :
           call'[c].at = "probe" /\ ~stack'.up =>
             \/ call[c].at = "probe" /\ ~stack.up
             \/ \A j \in Job : Running(j) => job[j].on # "port"
  PROVE  ScanInv'
BY DEF ScanInv, OfflineScan, Running

\* Jobs that go on as they were, or end.
LEMMA ScanFewer ==
  ASSUME ScanInv, UNCHANGED <<reload, stack>>,
         \A c \in Client : call'[c].at \in {"saving", "replace", "probe"}
                              => call'[c] = call[c],
         \/ job' = job
         \/ /\ \A k \in Job :
                 /\ job'[k].at = "running" => job[k].at = "running"
                 /\ job'[k].on = job[k].on /\ job'[k].offline = job[k].offline
            /\ \A k \in Job : job'[k].open =>
                 job'[k].at = "running" /\ job'[k].offline
  PROVE  ScanInv'
BY DEF ScanInv, OfflineScan, Running

LEMMA ScanStep == TypeOK /\ MutexInv /\ ScanInv /\ [Next]_vars => ScanInv'
<1> SUFFICES ASSUME TypeOK, MutexInv, ScanInv, [Next]_vars
             PROVE  ScanInv'
  OBVIOUS
<1>0. ASSUME UNCHANGED <<call, job, reload, stack>> PROVE ScanInv'
  BY <1>0 DEF ScanInv, OfflineScan, Running
<1>1. ASSUME PortReleased \/ WatchSees \/ WatchFails \/ HostShutdown \/ ShutCloses \/
             ShutStopped
      PROVE  ScanInv'
  BY <1>0, <1>1 DEF PortReleased, WatchSees, WatchFails, HostShutdown, ShutCloses,
     ShutStopped, knownVars, runVars, endVars, histVars
<1>2. ASSUME NEW f \in Feature, External(f)
      PROVE  ScanInv'
  BY <1>0, <1>2 DEF External, knownVars, runVars, endVars, histVars
<1>3. ASSUME NEW c \in Client, NEW op \in Op, Send(c, op)
      PROVE  ScanInv'
  <2>1. \A d \in Client : call'[d].at \in {"saving", "replace", "probe"}
                             => call'[d] = call[d]
    BY <1>3 DEF Send, TypeOK
  <2> QED
    BY <1>3, <2>1, ScanFewer DEF Send, runVars, Running
<1>4. ASSUME NEW c \in Client, EditRefused(c)
      PROVE  ScanInv'
  <2>1. \A d \in Client : call'[d].at \in {"saving", "replace", "probe"}
                             => call'[d] = call[d]
    BY <1>4, EndedMoves, GoesMoves DEF EditRefused, Refused
  <2> QED
    BY <1>4, <2>1, ScanFewer DEF EditRefused, Refused, runVars, Running
<1>5. ASSUME NEW c \in Client, EditChecks(c)
      PROVE  ScanInv'
  <2>1. Applies(c) => ~OfflineScan
    BY <1>5 DEF EditChecks, MayEdit
  <2>2. /\ call'[c].at = "saving" /\ call'[c].op = call[c].op
        /\ \A d \in Client \ {c} : call'[d] = call[d]
        /\ UNCHANGED <<job, reload, stack>>
    BY <1>5, GoesMoves DEF EditChecks, runVars
  <2> QED
    BY <2>1, <2>2, ScanKept DEF Applies, ScanInv
<1>6. ASSUME NEW c \in Client, EditRechecks(c)
      PROVE  ScanInv'
  <2>1. call[c].at = "saving" /\ UNCHANGED <<job, reload, stack>>
        /\ \A d \in Client \ {c} : call'[d] = call[d]
    BY <1>6, EndedMoves, GoesMoves DEF EditRechecks, runVars
  <2>2. \/ call'[c].at = "replace" /\ call'[c].op = call[c].op
        \/ call'[c].at = "idle"
    BY <1>6, EndedMoves, GoesMoves DEF EditRechecks
  <2> QED
    BY <2>1, <2>2, ScanKept DEF ScanInv
<1>7. ASSUME NEW c \in Client, EditReplaces(c)
      PROVE  ScanInv'
  <2>1. call[c].at = "replace" /\ lock = c /\ job' = job
    BY <1>7 DEF EditReplaces
  <2>2. \A d \in Client : call'[d].at \notin {"saving", "replace", "probe"}
    BY <1>7, <2>1, EndedMoves, GoesMoves DEF EditReplaces, MutexInv, Holding
  <2>3. reload'.at # "no" => reload.at # "no" \/ ~OfflineScan
    BY <1>7, <2>1 DEF EditReplaces, ReloadAnswers, Applies, ScanInv
  <2> QED
    BY <2>1, <2>2, <2>3, ScanKept DEF ScanInv
<1>8. ASSUME NEW c \in Client, ApplyChecks(c) \/ CloseAsked(c)
      PROVE  ScanInv'
  <2>1. \A d \in Client : call'[d].at \in {"saving", "replace", "probe"}
                             => call'[d] = call[d]
    BY <1>8, EndedMoves, GoesMoves DEF ApplyChecks, CloseAsked
  <2> QED
    BY <1>8, <2>1, ScanFewer DEF ApplyChecks, CloseAsked, runVars, Running
<1>9. ASSUME NEW c \in Client, ApplyReloads(c)
      PROVE  ScanInv'
  <2>1. lock = None /\ job' = job
    BY <1>9 DEF ApplyReloads
  <2>2. \A d \in Client : call'[d].at \notin {"saving", "replace", "probe"}
    BY <1>9, <2>1, EndedMoves, GoesMoves, ControllerAssumption
       DEF ApplyReloads, MutexInv, Holding
  <2>3. reload'.at # "no" => reload.at # "no" \/ ~OfflineScan
    BY <1>9 DEF ApplyReloads, ReloadAnswers
  <2> QED
    BY <2>1, <2>2, <2>3, ScanKept DEF ScanInv
<1>10. ASSUME NEW c \in Client, StartServer(c)
      PROVE  ScanInv'
  <2>1. lock = None /\ job' = job /\ reload' = reload
    BY <1>10 DEF StartServer, Takes
  <2>2. \A d \in Client : call'[d].at \notin {"saving", "replace", "probe"}
    BY <1>10, <2>1, EndedMoves, ControllerAssumption
       DEF StartServer, MutexInv, Holding
  <2> QED
    BY <2>1, <2>2, ScanKept DEF ScanInv
<1>11. ASSUME NEW c \in Client, RestartRefused(c)
      PROVE  ScanInv'
  <2>1. \A d \in Client : call'[d].at \in {"saving", "replace", "probe"}
                             => call'[d] = call[d]
    BY <1>11, EndedMoves, GoesMoves DEF RestartRefused, Refused
  <2> QED
    BY <1>11, <2>1, ScanFewer DEF RestartRefused, Refused, runVars, Running
<1>12. ASSUME NEW c \in Client, StopServer(c)
      PROVE  ScanInv'
  <2>1. lock = None /\ job' = job /\ reload' = reload
    BY <1>12 DEF StopServer, Takes
  <2>2. \A d \in Client : call'[d].at \notin {"saving", "replace", "probe"}
    BY <1>12, <2>1, GoesMoves, ControllerAssumption
       DEF StopServer, MutexInv, Holding
  <2> QED
    BY <2>1, <2>2, ScanKept DEF ScanInv
<1>13. ASSUME NEW c \in Client, StopDone(c)
      PROVE  ScanInv'
  <2>1. \A d \in Client : call'[d].at \in {"saving", "replace", "probe"}
                             => call'[d] = call[d]
    BY <1>13, EndedMoves, GoesMoves DEF StopDone
  <2> QED
    BY <1>13, <2>1, ScanFewer DEF StopDone, runVars, Running
<1>14. ASSUME NEW c \in Client, ScanRefused(c)
      PROVE  ScanInv'
  <2>1. \A d \in Client : call'[d].at \in {"saving", "replace", "probe"}
                             => call'[d] = call[d]
    BY <1>14, EndedMoves, GoesMoves DEF ScanRefused, Refused
  <2> QED
    BY <1>14, <2>1, ScanFewer DEF ScanRefused, Refused, runVars, Running
<1>15. ASSUME NEW c \in Client, NEW j \in Job, NEW on \in Resource,
             ScanStarts(c, j, on)
      PROVE  ScanInv'
  <2>1. lock = None /\ MayScan(on) /\ UNCHANGED <<reload, stack>>
    BY <1>15 DEF ScanStarts, Takes, runVars
  <2>2. reload.at = "no"
        /\ \A d \in Client : call'[d].at \notin {"saving", "replace", "probe"}
    BY <1>15, <2>1, EndedMoves, ControllerAssumption
       DEF ScanStarts, MutexInv, Holding
  <2>3. /\ job'[j] = [at |-> "running", on |-> on, offline |-> ~ScanQueues(on),
                     cancel |-> FALSE, open |-> FALSE]
        /\ \A k \in Job \ {j} : job'[k] = job[k]
    BY <1>15 DEF ScanStarts, TypeOK
  <2>4. \A k \in Job \ {j} : Running(k) => job[k].on # on
    BY <2>1 DEF MayScan
  <2>5. \A k \in Job : job'[k].open => Running(k)' /\ job'[k].offline
    BY <2>3 DEF ScanInv, Running
  <2>6. \A i, k \in Job : Running(i)' /\ Running(k)' /\ job'[i].on = job'[k].on
                            => i = k
    BY <2>3, <2>4 DEF ScanInv, Running
  <2> QED
    BY <2>1, <2>2, <2>5, <2>6 DEF ScanInv
<1>16. ASSUME NEW c \in Client, NEW j \in Job, CancelScan(c, j)
      PROVE  ScanInv'
  <2>1. \A k \in Job : /\ job'[k].at = job[k].at /\ job'[k].open = job[k].open
                       /\ job'[k].on = job[k].on /\ job'[k].offline = job[k].offline
    BY <1>16 DEF CancelScan, TypeOK, Jobs
  <2>2. \A d \in Client : call'[d].at \in {"saving", "replace", "probe"}
                             => call'[d] = call[d]
    BY <1>16, EndedMoves DEF CancelScan
  <2>3. \A k \in Job : job'[k].open => job'[k].at = "running" /\ job'[k].offline
    BY <2>1 DEF ScanInv, Running
  <2> QED
    BY <1>16, <2>1, <2>2, <2>3, ScanFewer DEF CancelScan, runVars
<1>17. ASSUME NEW c \in Client, ProbeRefused(c)
      PROVE  ScanInv'
  <2>1. \A d \in Client : call'[d].at \in {"saving", "replace", "probe"}
                             => call'[d] = call[d]
    BY <1>17, EndedMoves, GoesMoves DEF ProbeRefused, Refused
  <2> QED
    BY <1>17, <2>1, ScanFewer DEF ProbeRefused, Refused, runVars, Running
<1>18. ASSUME NEW c \in Client, ProbeStarts(c)
      PROVE  ScanInv'
  <2>1. MayProbe /\ UNCHANGED <<job, reload, stack>>
    BY <1>18 DEF ProbeStarts, runVars
  <2>2. call'[c].at = "probe" /\ \A d \in Client \ {c} : call'[d] = call[d]
    BY <1>18, GoesMoves DEF ProbeStarts
  <2> QED
    BY <2>1, <2>2, ScanKept DEF MayProbe, ScanInv
<1>19. ASSUME NEW c \in Client, ProbeEnds(c)
      PROVE  ScanInv'
  <2>1. \A d \in Client : call'[d].at \in {"saving", "replace", "probe"}
                             => call'[d] = call[d]
    BY <1>19, EndedMoves, GoesMoves DEF ProbeEnds
  <2> QED
    BY <1>19, <2>1, ScanFewer DEF ProbeEnds, runVars, Running
<1>20. ASSUME NEW c \in Client, Leaves(c)
      PROVE  ScanInv'
  <2>1. \A d \in Client : call'[d].at \in {"saving", "replace", "probe"}
                             => call'[d] = call[d]
    BY <1>20, EndedMoves DEF Leaves
  <2>2. UNCHANGED <<job, stack>> /\ (reload'.at # "no" => reload.at # "no")
    BY <1>20 DEF Leaves, TypeOK
  <2> QED
    BY <2>1, <2>2, ScanKept DEF ScanInv
<1>21. ASSUME EngineDrained PROVE ScanInv'
  <2>1. UNCHANGED <<job, call>> /\ stack'.up = stack.up /\ reload.at # "no"
    BY <1>21 DEF EngineDrained, Swapped, TypeOK, Stacks
  <2> QED
    BY <2>1, ScanKept DEF ScanInv
<1>22. ASSUME PollerDrained PROVE ScanInv'
  <2>1. UNCHANGED <<job, call>> /\ stack'.up = stack.up /\ reload.at # "no"
    BY <1>22 DEF PollerDrained, Swapped, TypeOK, Stacks
  <2> QED
    BY <2>1, ScanKept DEF ScanInv
<1>23. ASSUME Panics PROVE ScanInv'
  <2>1. job' = job /\ stack'.up = stack.up /\ reload'.at = "no"
    BY <1>23 DEF Panics, TypeOK, Stacks
  <2>2. \A d \in Client : call'[d].at \in {"saving", "replace", "probe"}
                             => call'[d] = call[d]
    BY <1>23, EndedMoves DEF Panics, MutexInv
  <2> QED
    BY <2>1, <2>2, ScanKept DEF ScanInv
<1>24. ASSUME ReloadSucceeds PROVE ScanInv'
  <2>1. job' = job /\ stack'.up = stack.up /\ reload'.at = "no"
    BY <1>24 DEF ReloadSucceeds, TypeOK, Stacks
  <2>2. \A d \in Client : call'[d].at \in {"saving", "replace", "probe"}
                             => call'[d] = call[d]
    BY <1>24, EndedMoves DEF ReloadSucceeds, MutexInv
  <2> QED
    BY <2>1, <2>2, ScanKept DEF ScanInv
<1>25. ASSUME ReloadFails PROVE ScanInv'
  <2>1. job' = job /\ stack'.up = stack.up /\ reload'.at = "no"
    BY <1>25 DEF ReloadFails, TypeOK, Stacks
  <2>2. \A d \in Client : call'[d].at \in {"saving", "replace", "probe"}
                             => call'[d] = call[d]
    BY <1>25, EndedMoves DEF ReloadFails, MutexInv
  <2> QED
    BY <2>1, <2>2, ScanKept DEF ScanInv
<1>26. ASSUME WatchLoads PROVE ScanInv'
  <2>1. lock = None /\ job' = job
    BY <1>26 DEF WatchLoads
  <2>2. \A d \in Client : call'[d].at \notin {"saving", "replace", "probe"}
    BY <1>26, <2>1, ControllerAssumption DEF WatchLoads, MutexInv, Holding
  <2>3. reload'.at # "no" => reload.at # "no" \/ ~OfflineScan
    BY <1>26 DEF WatchLoads, ReloadAnswers, MayLoad
  <2> QED
    BY <2>1, <2>2, <2>3, ScanKept DEF ScanInv
<1>27. ASSUME NEW j \in Job, ScanConnects(j)
      PROVE  ScanInv'
  <2>1. \A k \in Job : /\ job'[k].at = "running" => job[k].at = "running"
                       /\ job'[k].on = job[k].on /\ job'[k].offline = job[k].offline
    BY <1>27 DEF ScanConnects, TypeOK, Jobs
  <2>2. \A k \in Job : job'[k].open => job'[k].at = "running" /\ job'[k].offline
    BY <1>27 DEF ScanConnects, ScanInv, Running, TypeOK, Jobs
  <2> QED
    BY <1>27, <2>1, <2>2, ScanFewer DEF ScanConnects, runVars
<1>28. ASSUME NEW j \in Job, ScanEnds(j)
      PROVE  ScanInv'
  <2>1. \A k \in Job : /\ job'[k].at = "running" => job[k].at = "running"
                       /\ job'[k].on = job[k].on /\ job'[k].offline = job[k].offline
    BY <1>28 DEF ScanEnds, TypeOK, Jobs
  <2>2. \A k \in Job : job'[k].open => job'[k].at = "running" /\ job'[k].offline
    BY <1>28 DEF ScanEnds, ScanInv, Running, TypeOK, Jobs
  <2> QED
    BY <1>28, <2>1, <2>2, ScanFewer DEF ScanEnds, runVars
<1>29. ASSUME ShutCancels PROVE ScanInv'
  <2>1. \A k \in Job : /\ job'[k].at = "running" => job[k].at = "running"
                       /\ job'[k].on = job[k].on /\ job'[k].offline = job[k].offline
    BY <1>29 DEF ShutCancels, TypeOK, Jobs
  <2>2. \A k \in Job : job'[k].open => job'[k].at = "running" /\ job'[k].offline
    BY <1>29 DEF ShutCancels, ScanInv, Running, TypeOK, Jobs
  <2> QED
    BY <1>29, <2>1, <2>2, ScanFewer DEF ShutCancels, runVars
<1>30. ASSUME ShutStops PROVE ScanInv'
  <2>1. lock = None /\ job' = job /\ reload' = reload
    BY <1>30 DEF ShutStops
  <2>2. \A d \in Client : call'[d].at \notin {"saving", "replace", "probe"}
    BY <1>30, <2>1, ControllerAssumption DEF ShutStops, MutexInv, Holding
  <2> QED
    BY <2>1, <2>2, ScanKept DEF ScanInv
<1>31. ASSUME ShutDone PROVE ScanInv'
  <2>1. \A d \in Client : call'[d].at = "idle"
    BY <1>31 DEF ShutDone, Idle
  <2>2. UNCHANGED <<job, reload, stack>>
    BY <1>31 DEF ShutDone, runVars
  <2> QED
    BY <2>1, <2>2, ScanKept DEF ScanInv
<1>32. CASE UNCHANGED vars
  BY <1>0, <1>32 DEF vars, knownVars, runVars, endVars, histVars
<1> QED
  BY <1>0, <1>1, <1>2, <1>3, <1>4, <1>5, <1>6, <1>7, <1>8, <1>9, <1>10, <1>11,
     <1>12, <1>13, <1>14, <1>15, <1>16, <1>17, <1>18, <1>19, <1>20, <1>21,
     <1>22, <1>23, <1>24, <1>25, <1>26, <1>27, <1>28, <1>29, <1>30, <1>31,
     <1>32
     DEF Next, Serve, Reload, Watch, Shutdown

LEMMA PortStep ==
  TypeOK /\ MutexInv /\ StackInv /\ SyncInv /\ ScanInv /\ DrainInv /\ PortInv
    /\ [Next]_vars => PortInv'
<1> SUFFICES
ASSUME TypeOK, MutexInv, StackInv, SyncInv, ScanInv, DrainInv, PortInv, [Next]_vars
             PROVE  PortInv'
  OBVIOUS
<1>0. ASSUME UNCHANGED <<lost, job, stack, awaited>> PROVE PortInv'
  BY <1>0 DEF PortInv, PollsPort, Running
<1>1. ASSUME NEW c \in Client,
             EditRefused(c) \/ EditChecks(c) \/
             EditRechecks(c) \/ ApplyChecks(c) \/ CloseAsked(c) \/ RestartRefused(c) \/
             StopDone(c) \/ ScanRefused(c) \/ ProbeRefused(c) \/
             ProbeStarts(c) \/ ProbeEnds(c)
      PROVE  PortInv'
  BY <1>0, <1>1 DEF EditRefused, EditChecks, EditRechecks, ApplyChecks, CloseAsked,
     RestartRefused, StopDone, ScanRefused, ProbeRefused, ProbeStarts,
     ProbeEnds, Refused, knownVars, runVars, endVars, histVars
<1>2. ASSUME WatchSees \/ WatchFails \/ HostShutdown \/ ShutCloses \/ ShutStopped \/
             ShutDone
      PROVE  PortInv'
  BY <1>0, <1>2 DEF WatchSees, WatchFails, HostShutdown, ShutCloses, ShutStopped,
     ShutDone, knownVars, runVars, endVars, histVars
<1>3. ASSUME NEW f \in Feature, External(f)
      PROVE  PortInv'
  BY <1>0, <1>3 DEF External, knownVars, runVars, endVars, histVars
<1>4. ASSUME NEW c \in Client, NEW op \in Op, Send(c, op)
      PROVE  PortInv'
  BY <1>0, <1>4 DEF Send, knownVars, runVars, endVars, histVars
<1>5. ASSUME NEW c \in Client, EditReplaces(c)
      PROVE  PortInv'
  <2>1. UNCHANGED <<job, awaited, lost>> /\ PollsPort' = PollsPort
    BY <1>5 DEF EditReplaces, ReloadBegins, ReloadAnswers, PollsPort, TypeOK,
       Stacks, histVars
  <2> QED
    BY <2>1 DEF PortInv, Running
<1>6. ASSUME NEW c \in Client, ApplyReloads(c)
      PROVE  PortInv'
  <2>1. UNCHANGED <<job, awaited, lost>> /\ PollsPort' = PollsPort
    BY <1>6 DEF ApplyReloads, ReloadBegins, ReloadAnswers, PollsPort, TypeOK,
       Stacks, histVars
  <2> QED
    BY <2>1 DEF PortInv, Running
<1>7. ASSUME NEW c \in Client, StartServer(c)
      PROVE  PortInv'
  <2>1. UNCHANGED <<job, awaited, lost>> /\ (stack' = stack \/ ~OfflineScan)
    BY <1>7 DEF StartServer, MayStart
  <2> QED
    BY <2>1 DEF PortInv, OfflineScan, PollsPort, Running
<1>8. ASSUME NEW c \in Client, StopServer(c)
      PROVE  PortInv'
  <2>1. UNCHANGED <<job, lost>> /\ ~PollsPort' /\ awaited' = PollsPort
    BY <1>8 DEF StopServer, StackTaken, Down, PollsPort, histVars
  <2> QED
    BY <2>1 DEF PortInv, Running
<1>9. ASSUME NEW c \in Client, NEW j \in Job, NEW on \in Resource,
             ScanStarts(c, j, on)
      PROVE  PortInv'
  <2>1. lock = None /\ UNCHANGED <<stack, awaited, lost>>
    BY <1>9 DEF ScanStarts, Takes, runVars, histVars
  <2>2. reload.at = "no" /\ ~awaited
    BY <2>1, ControllerAssumption DEF MutexInv, Holding, DrainInv
  <2>3. /\ job'[j] = [at |-> "running", on |-> on, offline |-> ~ScanQueues(on),
                     cancel |-> FALSE, open |-> FALSE]
        /\ \A k \in Job \ {j} : job'[k] = job[k]
    BY <1>9 DEF ScanStarts, TypeOK
  <2>4. ASSUME ~lost, on = "port", ~ScanQueues(on) PROVE ~PollsPort
    <3>1. CASE ~stack.up
      BY <3>1 DEF StackInv, PollsPort
    <3>2. CASE stack.up
      <4>1. applied = stack.cfg /\ applied # None
        BY <2>2, <2>4, <3>2, ControllerAssumption
           DEF SyncInv, TypeOK, Stacks, Revision
      <4> QED
        BY <2>4, <3>2, <4>1 DEF ScanQueues, InUse, PollsPort
    <3> QED
      BY <3>1, <3>2
  <2>5. ASSUME ~lost, NEW k \in Job, Running(k)', job'[k].offline, job'[k].on = "port"
        PROVE  ~PollsPort /\ ~awaited
    <3>1. CASE k = j
      <4>1. job'[j].on = on /\ job'[j].offline = ~ScanQueues(on)
        BY <2>3
      <4>2. ~ScanQueues(on)
        BY <2>5, <3>1, <4>1, Zenon
      <4>3. on = "port"
        BY <2>5, <3>1, <4>1
      <4> QED
        BY <2>2, <2>4, <2>5, <4>2, <4>3
    <3>2. CASE k # j
      BY <2>3, <2>5, <3>2 DEF PortInv, Running
    <3> QED
      BY <3>1, <3>2
  <2> QED
    BY <2>1, <2>5 DEF PortInv, PollsPort
<1>10. ASSUME NEW c \in Client, NEW j \in Job, CancelScan(c, j)
      PROVE  PortInv'
  <2>1. \A k \in Job : /\ job'[k].at = "running" => job[k].at = "running"
                       /\ job'[k].on = job[k].on /\ job'[k].offline = job[k].offline
    BY <1>10 DEF CancelScan, TypeOK, Jobs
  <2>2. UNCHANGED <<stack, awaited, lost>>
    BY <1>10 DEF CancelScan, runVars, histVars
  <2> QED
    BY <2>1, <2>2 DEF PortInv, PollsPort, Running
<1>11. ASSUME NEW c \in Client, Leaves(c)
      PROVE  PortInv'
  <2>1. UNCHANGED <<stack, job>> /\ (lost => lost') /\ (awaited' => awaited)
    BY <1>11 DEF Leaves
  <2> QED
    BY <2>1 DEF PortInv, PollsPort, Running
<1>12. ASSUME EngineDrained PROVE PortInv'
  <2>1. job' = job /\ ~OfflineScan
    BY <1>12 DEF EngineDrained, ScanInv
  <2> QED
    BY <2>1 DEF PortInv, OfflineScan, Running
<1>13. ASSUME PollerDrained PROVE PortInv'
  <2>1. job' = job /\ ~OfflineScan
    BY <1>13 DEF PollerDrained, ScanInv
  <2> QED
    BY <2>1 DEF PortInv, OfflineScan, Running
<1>14. ASSUME Panics PROVE PortInv'
  <2>1. UNCHANGED <<job, awaited>> /\ PollsPort' = PollsPort /\ (lost => lost')
    BY <1>14 DEF Panics, PollsPort, TypeOK, Stacks, histVars
  <2> QED
    BY <2>1 DEF PortInv, Running
<1>15. ASSUME ReloadSucceeds PROVE PortInv'
  <2>1. UNCHANGED <<job, awaited>> /\ PollsPort' = PollsPort /\ (lost => lost')
    BY <1>15 DEF ReloadSucceeds, PollsPort, TypeOK, Stacks, histVars
  <2> QED
    BY <2>1 DEF PortInv, Running
<1>16. ASSUME ReloadFails PROVE PortInv'
  <2>1. UNCHANGED <<job, awaited>> /\ PollsPort' = PollsPort /\ (lost => lost')
    BY <1>16 DEF ReloadFails, PollsPort, TypeOK, Stacks, histVars
  <2> QED
    BY <2>1 DEF PortInv, Running
<1>17. ASSUME PortReleased PROVE PortInv'
  <2>1. UNCHANGED <<stack, job, lost>> /\ (awaited' => awaited)
    BY <1>17 DEF PortReleased, histVars
  <2> QED
    BY <2>1 DEF PortInv, PollsPort, Running
<1>18. ASSUME WatchLoads PROVE PortInv'
  <2>1. UNCHANGED <<job, awaited, lost>> /\ PollsPort' = PollsPort
    BY <1>18 DEF WatchLoads, ReloadBegins, ReloadAnswers, PollsPort, TypeOK,
       Stacks, histVars
  <2> QED
    BY <2>1 DEF PortInv, Running
<1>19. ASSUME NEW j \in Job, ScanConnects(j)
      PROVE  PortInv'
  <2>1. \A k \in Job : /\ job'[k].at = "running" => job[k].at = "running"
                       /\ job'[k].on = job[k].on /\ job'[k].offline = job[k].offline
    BY <1>19 DEF ScanConnects, TypeOK, Jobs
  <2>2. UNCHANGED <<stack, awaited, lost>>
    BY <1>19 DEF ScanConnects, runVars, histVars
  <2> QED
    BY <2>1, <2>2 DEF PortInv, PollsPort, Running
<1>20. ASSUME NEW j \in Job, ScanEnds(j)
      PROVE  PortInv'
  <2>1. \A k \in Job : /\ job'[k].at = "running" => job[k].at = "running"
                       /\ job'[k].on = job[k].on /\ job'[k].offline = job[k].offline
    BY <1>20 DEF ScanEnds, TypeOK, Jobs
  <2>2. UNCHANGED <<stack, awaited, lost>>
    BY <1>20 DEF ScanEnds, runVars, histVars
  <2> QED
    BY <2>1, <2>2 DEF PortInv, PollsPort, Running
<1>21. ASSUME ShutCancels PROVE PortInv'
  <2>1. \A k \in Job : /\ job'[k].at = "running" => job[k].at = "running"
                       /\ job'[k].on = job[k].on /\ job'[k].offline = job[k].offline
    BY <1>21 DEF ShutCancels, TypeOK, Jobs
  <2>2. UNCHANGED <<stack, awaited, lost>>
    BY <1>21 DEF ShutCancels, runVars, histVars
  <2> QED
    BY <2>1, <2>2 DEF PortInv, PollsPort, Running
<1>22. ASSUME ShutStops PROVE PortInv'
  <2>1. UNCHANGED <<job, lost>> /\ ~PollsPort' /\ awaited' = PollsPort
    BY <1>22 DEF ShutStops, StackTaken, Down, PollsPort, histVars
  <2> QED
    BY <2>1 DEF PortInv, Running
<1>23. CASE UNCHANGED vars
  BY <1>0, <1>23 DEF vars, knownVars, runVars, endVars, histVars
<1> QED
  BY <1>0, <1>1, <1>2, <1>3, <1>4, <1>5, <1>6, <1>7, <1>8, <1>9, <1>10, <1>11,
     <1>12, <1>13, <1>14, <1>15, <1>16, <1>17, <1>18, <1>19, <1>20, <1>21,
     <1>22, <1>23
     DEF Next, Serve, Reload, Watch, Shutdown

-----------------------------------------------------------------------------
(* The theorems *)

IInv == /\ TypeOK /\ MutexInv /\ StackInv /\ AckInv /\ StageInv /\ StopInv
        /\ SyncInv /\ ScanInv /\ DrainInv /\ PortInv /\ CloseInv
        /\ DoneInv

LEMMA InvInit == Init => IInv
<1> SUFFICES ASSUME Init PROVE IInv
  OBVIOUS
<1>1. TypeOK /\ MutexInv
  BY TypeInit, MutexInit
<1>2. StackInv /\ StopInv /\ SyncInv
  BY DEF Init, Up, Down, Idle, StackInv, StopInv, SyncInv
<1>3. AckInv /\ StageInv
  BY DEF Init, Idle, AckInv, StageInv
<1>4. ScanInv /\ DrainInv /\ PortInv /\ CloseInv /\ DoneInv
  BY DEF Init, Idle, NoJob, OfflineScan, Running, ScanInv, DrainInv, PortInv,
     CloseInv, DoneInv
<1> QED
  BY <1>1, <1>2, <1>3, <1>4 DEF IInv

LEMMA InvStep == IInv /\ [Next]_vars => IInv'
BY TypeStep, MutexStep, StackStep, AckStep, StageStep, StopStep, SyncStep,
   ScanStep, DrainStep, PortStep, CloseStep, DoneStep DEF IInv

\* Every reachable state satisfies the inductive invariant: what the mutex over
\* the controller's state guards, and in what state each of its holders is.
THEOREM Invariant == Spec => []IInv
BY InvInit, InvStep, PTL DEF Spec

\* The state of the controller is one the code has, whatever its clients, the
\* watcher, the scans and the shutdown do, and who is in the middle of a tool,
\* a reload or the shutdown has the state mutex.
THEOREM TypeCorrect == Spec => [](TypeOK /\ MutexInv)
<1>1. IInv => TypeOK /\ MutexInv
  BY DEF IInv
<1> QED
  BY <1>1, Invariant, PTL

\* No edit that mutate has acknowledged is lost to the edit of another client:
\* the file is read again under the mutex before it is replaced.
THEOREM EditsKept == Spec => []AckedKept
<1>1. IInv => AckedKept
  BY DEF IInv, AckInv, AckedKept
<1> QED
  BY <1>1, Invariant, PTL

\* A revision saved with apply = false never runs before it is asked for,
\* because the watcher takes it for known.
THEOREM StagedWaits == Spec => []OnlyAsked
<1>1. IInv => OnlyAsked
  BY DEF IInv, StageInv, OnlyAsked
<1> QED
  BY <1>1, Invariant, PTL

\* A set whose elements are all equal has one of them at most.
LEMMA AtMostOne ==
  ASSUME NEW S, \A x, y \in S : x = y
  PROVE  Cardinality(S) <= 1
<1>1. CASE S = {}
  BY <1>1, FS_EmptySet
<1>2. CASE S # {}
  <2>1. PICK x \in S : TRUE
    BY <1>2
  <2>2. S = {x}
    BY <2>1
  <2> QED
    BY <2>2, FS_Singleton
<1> QED
  BY <1>1, <1>2

\* The poller, one offline scan or one single request has the serial port,
\* through every start, stop, restart and reload, as long as no reload ended
\* with a generation in place that the controller does not know of.
THEOREM PortIsExclusive == Spec => []PortExclusive
<1>1. ASSUME IInv, ~lost PROVE Exclusive
  <2> USE <1>1 DEF IInv
  <2> DEFINE J == {k \in Job : job[k].open /\ job[k].on = "port"}
             D == {d \in Client : call[d].at = "probe" /\ ~stack.up}
             P == IF PollsPort THEN {<<"poller">>} ELSE {}
             A == IF awaited THEN {<<"drained">>} ELSE {}
             S == {<<"job", j>> : j \in J} \cup {<<"client", c>> : c \in D}
                  \cup P \cup A
  <2>1. \A i, j \in J : i = j
    BY DEF ScanInv
  <2>2. \A c, d \in D : c = d
    BY DEF MutexInv, Holding
  <2>3. J # {} => D = {} /\ ~PollsPort /\ ~awaited
    BY DEF ScanInv, PortInv
  <2>4. D # {} => ~PollsPort /\ ~awaited
    <3> SUFFICES ASSUME NEW c \in D PROVE ~PollsPort /\ ~awaited
      OBVIOUS
    <3>1. ~PollsPort
      BY DEF StackInv, PollsPort
    <3>2. lock = c /\ reload.at = "no"
      BY DEF MutexInv, Holding, StackInv
    <3>3. shut # "stopping" /\ \A d \in Client : call[d].at # "stopping"
      BY <3>2, ControllerAssumption DEF MutexInv, Holding
    <3> QED
      BY <3>1, <3>2, <3>3 DEF DrainInv
  <2>5. ~(PollsPort /\ awaited)
    BY DEF DrainInv, PollsPort
  <2> HIDE DEF J, D
  <2>6. \A x, y \in S : x = y
    BY <2>1, <2>2, <2>3, <2>4, <2>5
  <2> HIDE DEF S
  <2>7. Cardinality(S) <= 1
    BY <2>6, AtMostOne
  <2> QED
    BY <2>7 DEF S, J, D, Exclusive, PortUsers
<1>2. IInv => PortExclusive
  BY <1>1 DEF PortExclusive
<1> QED
  BY <1>2, Invariant, PTL

\* When Controller::shutdown gives the lease back no stack, no scan and no call
\* of this process is left, and of the users of the port at most the poller of a
\* stop or a reload whose client vanished.
THEOREM ShutdownClean == Spec => []ClosedIsClean
<1>1. ASSUME IInv, shut = "done"
      PROVE  /\ ~stack.up /\ \A j \in Job : ~Running(j)
             /\ \A c \in Client : call[c].at = "idle"
             /\ AllPortUsers \subseteq {<<"left">>}
  <2>1. ~stack.up /\ ~awaited /\ \A j \in Job : ~Running(j)
    BY <1>1 DEF IInv, CloseInv
  <2>2. \A c \in Client : call[c].at = "idle"
    BY <1>1 DEF IInv, DoneInv
  <2>3. ~PollsPort /\ \A j \in Job : ~job[j].open
    BY <1>1, <2>1 DEF IInv, StackInv, ScanInv, PollsPort
  <2> QED
    BY <2>1, <2>2, <2>3 DEF AllPortUsers, PortUsers
<1>2. IInv => ClosedIsClean
  BY <1>1 DEF ClosedIsClean
<1> QED
  BY <1>2, Invariant, PTL
==============================================================================
