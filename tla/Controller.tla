------------------------------ MODULE Controller ------------------------------
(***************************************************************************)
(* The MCP controller of one configuration file: the tools its clients     *)
(* call, the watcher of the file, the scan jobs, and the shutdown, all of  *)
(* which contend for the state mutex that owns the running stack.          *)
(*                                                                         *)
(* A configuration is the set of its features.  "port" enables the channel *)
(* on the serial port, "tag" is a formula (the poller survives its edit),  *)
(* "startup" an OPC UA, logging or storage setting, "mcp" a setting of the *)
(* controller itself, and "bad" makes it invalid.  A revision, the SHA256  *)
(* of the file, is the configuration itself.  The stack is what a reload   *)
(* and its failures leave of it; its inner steps are Generations.          *)
(***************************************************************************)
EXTENDS Naturals, FiniteSets

CONSTANTS
  Client,      \* connections, one call at a time each
  Leaver,      \* those that may break off in the middle of a call
  Feature,     \* see above
  Job,         \* identities of scan jobs, as many as the history keeps
  Op,          \* the tools the clients use
  Resource,    \* what a scan may go to: "port", and "lan" that nobody polls
  MaxRunning,  \* scans at a time (4 in the code)
  MaxEvents,   \* bound: calls, changes of the file by others, failing reads of
               \* it, host's shutdown
  None,
  Watcher,     \* the file watcher, and
  Host         \* Controller::shutdown, as owners of the mutex

ASSUME ControllerAssumption ==
  /\ Leaver \subseteq Client /\ {None, Watcher, Host} \cap Client = {}
  /\ None # Watcher /\ None # Host /\ Watcher # Host
  /\ \A r \in SUBSET Feature : r # None
  /\ "port" \in Resource
  /\ Feature \subseteq {"port", "tag", "startup", "mcp", "bad"}
  /\ Op \subseteq {"save", "stage", "apply", "start", "stop", "restart",
                   "scan", "cancel", "probe", "shutdown"}
  /\ MaxRunning \in Nat /\ MaxEvents \in Nat

VARIABLES
  file, events,           \* the saved configuration, events so far
  seen, pending, desired, \* what the watcher knows, the saved one parsed
  applied, err,           \* applied revision, whether an error is shown
  stack,                  \* the runtime
  awaited, left,          \* pollers told to stop that still hold the port: one
                          \* the owner of the mutex waits for, one nobody does
  lock, reload,           \* owner of the state mutex and its RunningStack::reload
  call,                   \* the call of each client
  job,                    \* the scan jobs
  closed, shut, watching, \* is_closed(), Controller::shutdown, the watcher task
  promised, staged, lost  \* history: features acknowledged, revisions only
                          \* saved, whether a generation went unrecorded

knownVars == <<seen, pending, desired>>
runVars   == <<stack, awaited, left, applied>>
endVars   == <<closed, shut, watching>>
histVars  == <<promised, staged, lost>>
vars == <<file, events, knownVars, runVars, err, lock, reload, call, job, endVars,
          histVars>>

Revision == SUBSET Feature
Down     == [up |-> FALSE, cfg |-> {}, engine |-> FALSE, poller |-> FALSE,
             pump |-> FALSE]
Up(r)    == [up |-> TRUE, cfg |-> r, engine |-> TRUE, poller |-> TRUE,
             pump |-> TRUE]
Idle     == [op |-> "none", at |-> "idle", base |-> {}, cand |-> {}]
NoJob    == [at |-> "none", on |-> "port", offline |-> FALSE, cancel |-> FALSE,
             open |-> FALSE]

Stacks == [up : BOOLEAN, cfg : Revision, engine : BOOLEAN, poller : BOOLEAN,
           pump : BOOLEAN]
Calls  == [op : Op \cup {"none"}, base : Revision, cand : Revision,
           at : {"idle", "sent", "saving", "replace", "reload", "probe",
                 "stopping", "again"}]
Jobs   == [at : {"none", "running", "done"}, on : Resource, offline : BOOLEAN,
           cancel : BOOLEAN, open : BOOLEAN]

TypeOK ==
  /\ file \in Revision /\ events \in 0 .. MaxEvents
  /\ seen \in Revision /\ desired \in Revision
  /\ pending \in Revision \cup {None} /\ applied \in Revision \cup {None}
  /\ err \in BOOLEAN /\ awaited \in BOOLEAN /\ left \in BOOLEAN
  /\ stack \in Stacks
  /\ lock \in Client \cup {None, Watcher, Host}
  /\ reload \in [at : {"no", "engine", "poller", "commit"}, to : Revision]
  /\ call \in [Client -> Calls]
  /\ job \in [Job -> Jobs]
  /\ closed \in BOOLEAN /\ watching \in BOOLEAN
  /\ shut \in {"no", "begin", "jobs", "stop", "stopping", "tasks", "done"}
  /\ promised \in SUBSET Feature /\ staged \in SUBSET Revision
  /\ lost \in BOOLEAN

\* run_managed starts the server right away, run_controller does not.
Init ==
  /\ file \in {{}, {"port"}} \cap Revision /\ events = 0
  /\ seen = file /\ desired = file /\ pending = None
  /\ err = FALSE
  /\ \/ stack = Down /\ applied = None
     \/ stack = Up(file) /\ applied = file
  /\ awaited = FALSE /\ left = FALSE
  /\ lock = None /\ reload = [at |-> "no", to |-> {}]
  /\ call = [c \in Client |-> Idle]
  /\ job = [j \in Job |-> NoJob]
  /\ closed = FALSE /\ shut = "no" /\ watching = TRUE
  /\ promised = {} /\ staged = {} /\ lost = FALSE

----------------------------------------------------------------------------
Valid(r)         == "bad" \notin r
Differ(r, q, f)  == (f \in r) # (f \in q)
Startable(r)     == Valid(r) /\ "mcp" \notin r
Running(j)       == job[j].at = "running"
OfflineScan      == \E j \in Job : Running(j) /\ job[j].offline
PollsPort        == stack.poller /\ "port" \in stack.cfg

Ended(c)  == call' = [call EXCEPT ![c] = Idle]
Goes(c, s) == call' = [call EXCEPT ![c].at = s]

Counts == events < MaxEvents /\ events' = events + 1

\* Another program replaces the file.
External(f) ==
  /\ Counts
  /\ file' = IF f \in file THEN file \ {f} ELSE file \cup {f}
  /\ promised' = promised \cap file'
  /\ staged' = staged \ {file'}
  /\ UNCHANGED <<knownVars, runVars, err, lock, reload, call, job, endVars, lost>>

\* A request arrives.  Its client has read the configuration before and sends
\* an edit as the configuration it wants in its place.
Send(c, op) ==
  /\ call[c].at = "idle" /\ ~closed /\ Counts
  /\ \E new \in (IF op \in {"save", "stage"} THEN Revision \ {file} ELSE {{}}) :
       call' = [call EXCEPT ![c] = [op |-> op, at |-> "sent", base |-> file,
                                    cand |-> new]]
  /\ UNCHANGED <<file, knownVars, runVars, err, lock, reload, job, endVars,
                 histVars>>

Serves(c, ops) == call[c].at = "sent" /\ call[c].op \in ops
Takes(c, ops)  == Serves(c, ops) /\ lock = None

\* A tool answers with an error and has changed nothing.
Refused(c) ==
  /\ Ended(c)
  /\ UNCHANGED <<file, events, knownVars, runVars, err, lock, reload, job, endVars,
                 histVars>>

----------------------------------------------------------------------------
(***************************************************************************)
(* RunningStack::reload under the mutex, for a tool or the watcher         *)
(***************************************************************************)

SameRun(r)    == stack.cfg = r
Reloadable(r) == stack.pump /\ ~Differ(stack.cfg, r, "startup")

\* The engine is taken and awaited; writes are paused.
ReloadBegins(r) ==
  /\ Reloadable(r) /\ ~SameRun(r)
  /\ reload' = [at |-> "engine", to |-> r]
  /\ stack' = [stack EXCEPT !.engine = FALSE]

\* It returns before its first await: nothing differs, or the preflight fails.
\* What mutate and the watcher make of that.
ReloadAnswers(r) ==
  /\ IF SameRun(r) THEN applied' = r /\ err' = FALSE
     ELSE err' = TRUE /\ UNCHANGED applied
  /\ UNCHANGED <<stack, reload>>

\* The new generation runs, what is left is the pump's report.
Swapped ==
  /\ stack' = [stack EXCEPT !.cfg = reload.to, !.engine = TRUE, !.poller = TRUE]
  /\ reload' = [reload EXCEPT !.at = "commit"]

EngineDrained ==
  /\ reload.at = "engine"
  /\ IF Differ(stack.cfg, reload.to, "port")
     THEN /\ awaited' = PollsPort
          /\ stack' = [stack EXCEPT !.poller = FALSE]
          /\ reload' = [reload EXCEPT !.at = "poller"]
     ELSE stack.poller /\ Swapped /\ UNCHANGED awaited
  /\ UNCHANGED <<file, events, knownVars, left, applied, err, lock, call, job,
                 endVars, histVars>>

\* The shutdown of a poller returns when its tasks have ended.
Released == ~awaited

PollerDrained ==
  /\ reload.at = "poller" /\ Released
  /\ Swapped
  /\ UNCHANGED <<file, events, knownVars, awaited, left, applied, err, lock,
                 call, job, endVars, histVars>>

\* The tasks of a poller that was told to stop leave the port.
PortReleased ==
  /\ \/ awaited /\ awaited' = FALSE /\ UNCHANGED left
     \/ left /\ left' = FALSE /\ UNCHANGED awaited
  /\ UNCHANGED <<file, events, knownVars, stack, applied, err, lock, reload,
                 call, job, endVars, histVars>>

\* "poller running" is expected and there is none: the caller's task unwinds
\* with the new engine in place and the old configuration.
Panics ==
  /\ reload.at = "engine" /\ ~Differ(stack.cfg, reload.to, "port")
  /\ ~stack.poller
  /\ stack' = [stack EXCEPT !.engine = TRUE]
  /\ reload' = [reload EXCEPT !.at = "no"] /\ lock' = None
  /\ IF lock = Watcher THEN watching' = FALSE /\ UNCHANGED call
     ELSE Ended(lock) /\ UNCHANGED watching
  /\ UNCHANGED <<file, events, knownVars, awaited, left, applied, err, job,
                 closed, shut, histVars>>

\* The pump has committed.
ReloadSucceeds ==
  /\ reload.at = "commit"
  /\ reload' = [reload EXCEPT !.at = "no"] /\ lock' = None
  /\ applied' = reload.to /\ err' = FALSE
  /\ IF lock = Watcher THEN UNCHANGED <<call, seen, desired>>
     ELSE Ended(lock) /\ seen' = reload.to /\ desired' = reload.to
  /\ UNCHANGED <<file, events, pending, stack, awaited, left, job, endVars,
                 histVars>>

\* The pump is gone.  apply_config returns the error and leaves the rest, so
\* that the watcher will come across the file again.
ReloadFails ==
  /\ reload.at = "commit"
  /\ reload' = [reload EXCEPT !.at = "no"] /\ lock' = None
  /\ stack' = [stack EXCEPT !.pump = FALSE]
  /\ err' = IF lock # Watcher /\ call[lock].op = "apply" THEN err ELSE TRUE
  /\ IF lock = Watcher THEN UNCHANGED call ELSE Ended(lock)
  /\ UNCHANGED <<file, events, knownVars, awaited, left, applied, job,
                 endVars, promised, staged>>
  /\ lost' = (lost \/ applied # stack.cfg)

----------------------------------------------------------------------------
(***************************************************************************)
(* mutate: the tools that edit the file                                    *)
(***************************************************************************)

Applies(c) == call[c].op = "save"

\* Mutant of Fresh: the expected revision is not compared.
FreshAlways(c) == TRUE

\* The client has seen what is saved.
Fresh(c) == call[c].base = file

MayEdit(c) ==
  /\ ~closed /\ Fresh(c) /\ Valid(call[c].cand)
  /\ Applies(c) =>
       /\ ~OfflineScan /\ "mcp" \notin call[c].cand
       /\ stack.up => Reloadable(call[c].cand)

EditRefused(c) == Takes(c, {"save", "stage"}) /\ ~MayEdit(c) /\ Refused(c)

EditChecks(c) ==
  /\ Takes(c, {"save", "stage"}) /\ MayEdit(c)
  /\ lock' = c
  /\ Goes(c, "saving")
  /\ UNCHANGED <<file, events, knownVars, runVars, err, reload, job, endVars,
                 histVars>>

\* The file is read again after the temporary files have been written.
EditRechecks(c) ==
  /\ lock = c /\ call[c].at = "saving"
  /\ IF Fresh(c) THEN Goes(c, "replace") /\ UNCHANGED lock
     ELSE Ended(c) /\ lock' = None
  /\ UNCHANGED <<file, events, knownVars, runVars, err, reload, job, endVars,
                 histVars>>

\* Mutant of SeenAfter: the watcher is left to find the edit.
SeenAfterBefore(r) == seen

\* What the watcher takes for known after the controller has saved r.
SeenAfter(r) == r

\* The rename, and what follows it up to the next await.
EditReplaces(c) ==
  LET r == call[c].cand
  IN /\ lock = c /\ call[c].at = "replace"
     /\ file' = r /\ seen' = SeenAfter(r) /\ desired' = r
     /\ promised' = (promised \ (call[c].base \ r)) \cup (r \ call[c].base)
     /\ staged' = IF Applies(c) \/ SameRun(r) THEN staged \ {r}
                  ELSE staged \cup {r}
     /\ IF Applies(c) /\ stack.up
        THEN \/ ReloadBegins(r) /\ Goes(c, "reload")
                /\ UNCHANGED <<lock, applied, err>>
             \/ ReloadAnswers(r) /\ Ended(c) /\ lock' = None
        ELSE /\ Ended(c) /\ lock' = None
             /\ UNCHANGED <<stack, reload, applied, err>>
     /\ UNCHANGED <<events, pending, awaited, left, job, endVars, lost>>

----------------------------------------------------------------------------
(***************************************************************************)
(* apply_config, server_start, server_stop and server_restart              *)
(***************************************************************************)

\* The revision is compared before the mutex is waited for.
ApplyChecks(c) ==
  /\ Serves(c, {"apply"})
  /\ IF Fresh(c) THEN Goes(c, "again") ELSE Ended(c)
  /\ UNCHANGED <<file, events, knownVars, runVars, err, lock, reload, job,
                 endVars, histVars>>

\* reload_file reads the file once more, under the mutex.
ApplyReloads(c) ==
  /\ lock = None /\ call[c].op = "apply" /\ call[c].at = "again"
  /\ IF Startable(file) /\ ~(stack.up /\ OfflineScan)
     THEN /\ staged' = staged \ {file}
          /\ IF stack.up
             THEN \/ /\ ReloadBegins(file) /\ Goes(c, "reload") /\ lock' = c
                     /\ UNCHANGED <<seen, desired, applied, err>>
                  \/ /\ SameRun(file) /\ ReloadAnswers(file) /\ Ended(c)
                     /\ seen' = file /\ desired' = file /\ UNCHANGED lock
                  \/ /\ ~SameRun(file) /\ Ended(c)
                     /\ UNCHANGED <<seen, desired, applied, err, stack,
                                    reload, lock>>
             ELSE /\ seen' = file /\ desired' = file /\ err' = FALSE /\ Ended(c)
                  /\ UNCHANGED <<stack, reload, applied, lock>>
     ELSE /\ Ended(c)
          /\ UNCHANGED <<staged, seen, desired, applied, err, stack, reload,
                         lock>>
  /\ UNCHANGED <<file, events, pending, awaited, left, job, endVars, promised,
                 lost>>

\* Mutant of MayStart: a scan that started meanwhile is not looked for.
MayStartOverScans == ~closed /\ ~stack.up

\* Mutant of MayStart: is_closed() is not asked again under the mutex.
MayStartClosed == ~stack.up /\ ~OfflineScan

\* What start_server requires before it reads the file.
MayStart == ~closed /\ ~stack.up /\ ~OfflineScan

\* The part of start_server after the mutex, in one step: it awaits only when
\* the OPC UA server fails.  A failure, also one of the storage, is shown.
Starts ==
  \/ /\ Startable(file)
     /\ stack' = Up(file)
     /\ applied' = file /\ seen' = file /\ desired' = file /\ err' = FALSE
     /\ staged' = staged \ {file}
  \/ err' = TRUE /\ UNCHANGED <<stack, applied, seen, desired, staged>>

StartServer(c) ==
  /\ \/ Takes(c, {"start"})
     \/ lock = None /\ call[c].op = "restart" /\ call[c].at = "again"
  /\ IF MayStart THEN Starts
     ELSE UNCHANGED <<stack, applied, seen, desired, staged, err>>
  /\ Ended(c)
  /\ UNCHANGED <<file, events, pending, awaited, left, lock, reload, job,
                 endVars, promised, lost>>

\* The stack is taken out of the state and shut down.
StackTaken == stack' = Down /\ awaited' = PollsPort /\ UNCHANGED left

\* server_restart checks without the mutex.
RestartRefused(c) ==
  /\ Serves(c, {"restart"})
  /\ ~Startable(file) \/ OfflineScan
  /\ Refused(c)

\* shutdown_controller closes the controller before it waits for the mutex.
CloseAsked(c) ==
  /\ Serves(c, {"shutdown"})
  /\ closed' = TRUE /\ Goes(c, "again")
  /\ UNCHANGED <<file, events, knownVars, runVars, err, lock, reload, job, shut,
                 watching, histVars>>

StopServer(c) ==
  /\ \/ Takes(c, {"stop", "restart"})
     \/ lock = None /\ call[c].op = "shutdown" /\ call[c].at = "again"
  /\ call[c].op = "restart" => Startable(file) /\ ~OfflineScan
  /\ StackTaken
  /\ lock' = c /\ Goes(c, "stopping")
  /\ UNCHANGED <<file, events, knownVars, applied, err, reload, job, endVars,
                 histVars>>

StopDone(c) ==
  /\ lock = c /\ call[c].at = "stopping" /\ Released
  /\ lock' = None /\ applied' = None
  /\ IF call[c].op = "restart" THEN Goes(c, "again") ELSE Ended(c)
  /\ shut' = IF call[c].op = "shutdown" /\ shut = "no" THEN "begin" ELSE shut
  /\ UNCHANGED <<file, events, knownVars, stack, awaited, left, err, reload,
                 job, closed, watching, histVars>>

----------------------------------------------------------------------------
(***************************************************************************)
(* Scans and single requests                                               *)
(***************************************************************************)

\* With the stack up the configuration in use decides who owns the port.
InUse == IF applied = None THEN desired ELSE applied

ScanQueues(on) == on = "port" /\ stack.up /\ "port" \in InUse

MayScan(on) ==
  /\ ~closed /\ Valid(InUse)
  /\ ScanQueues(on) => stack.poller
  /\ Cardinality({j \in Job : Running(j)}) < MaxRunning
  /\ \A j \in Job : Running(j) => job[j].on # on

ScanRefused(c) ==
  /\ Takes(c, {"scan"}) /\ \E on \in Resource : ~MayScan(on)
  /\ Refused(c)

\* A full history gives up a job that is done.
ScanStarts(c, j, on) ==
  /\ Takes(c, {"scan"}) /\ MayScan(on)
  /\ job[j].at # "running" /\ (job[j].at = "done" => \A i \in Job : job[i].at # "none")
  /\ job' = [job EXCEPT ![j] = [at |-> "running", on |-> on,
                                offline |-> ~ScanQueues(on),
                                cancel |-> FALSE, open |-> FALSE]]
  /\ Ended(c)
  /\ UNCHANGED <<file, events, knownVars, runVars, err, lock, reload, endVars,
                 histVars>>

CancelScan(c, j) ==
  /\ Serves(c, {"cancel"})
  /\ job' = [job EXCEPT ![j].cancel = job[j].at # "none"]
  /\ Ended(c)
  /\ UNCHANGED <<file, events, knownVars, runVars, err, lock, reload, endVars,
                 histVars>>

\* An offline job opens the port for its requests and, after a timeout, closes
\* it to open it again.
ScanConnects(j) ==
  /\ Running(j) /\ job[j].offline /\ ~job[j].cancel
  /\ job' = [job EXCEPT ![j].open = ~@]
  /\ UNCHANGED <<file, events, knownVars, runVars, err, lock, reload, call, endVars,
                 histVars>>

\* All units asked, cancelled, or the queue is gone: the port is let go first.
ScanEnds(j) ==
  /\ Running(j)
  /\ job' = [job EXCEPT ![j].at = "done", ![j].open = FALSE]
  /\ UNCHANGED <<file, events, knownVars, runVars, err, lock, reload, call, endVars,
                 histVars>>

\* read_modbus and write_modbus hold the mutex over the transaction, which
\* goes through the queue of a running channel or over a port of their own.
MayProbe ==
  /\ ~closed /\ Valid(InUse) /\ "port" \in InUse
  /\ IF stack.up THEN stack.poller
     ELSE \A j \in Job : Running(j) => job[j].on # "port"

ProbeRefused(c) == Takes(c, {"probe"}) /\ ~MayProbe /\ Refused(c)

ProbeStarts(c) ==
  /\ Takes(c, {"probe"}) /\ MayProbe
  /\ lock' = c /\ Goes(c, "probe")
  /\ UNCHANGED <<file, events, knownVars, runVars, err, reload, job, endVars,
                 histVars>>

ProbeEnds(c) ==
  /\ lock = c /\ call[c].at = "probe"
  /\ lock' = None /\ Ended(c)
  /\ UNCHANGED <<file, events, knownVars, runVars, err, reload, job, endVars,
                 histVars>>

----------------------------------------------------------------------------
(***************************************************************************)
(* A connection that breaks off takes the future of its call with it       *)
(***************************************************************************)

\* The handler is dropped at an await: before the mutex, or holding it.
Leaves(c) ==
  /\ c \in Leaver
  /\ call[c].at \in {"sent", "again", "reload", "probe", "stopping"}
  /\ Ended(c)
  /\ IF lock = c
     THEN /\ lock' = None /\ reload' = [reload EXCEPT !.at = "no"]
          /\ left' = (left \/ awaited) /\ awaited' = FALSE
     ELSE UNCHANGED <<lock, reload, left, awaited>>
  /\ UNCHANGED <<file, events, knownVars, stack, applied, err, job, endVars,
                 promised, staged>>
  /\ lost' = (lost \/ (lock = c /\ reload.at = "commit"))

----------------------------------------------------------------------------
(***************************************************************************)
(* The watcher of the file                                                 *)
(***************************************************************************)

MayLoad == Startable(file) /\ ~(stack.up /\ OfflineScan)

\* Mutant of Sighting: the known bytes are kept instead of the new ones.
SightingKnown == seen

\* What the watcher keeps of a read that differs from what is known.
Sighting == file

\* Nothing new, a first sighting, or a read that is not like the one before.
WatchSees ==
  /\ watching /\ lock = None
  /\ IF file = seen THEN pending # None /\ pending' = None
     ELSE pending # file /\ pending' = Sighting
  /\ UNCHANGED <<file, events, seen, desired, runVars, err, lock, reload,
                 call, job, endVars, histVars>>

\* A read that fails forgets the sighting.
WatchFails ==
  /\ watching /\ lock = None /\ Counts
  /\ pending' = None /\ err' = TRUE
  /\ UNCHANGED <<file, seen, desired, runVars, lock, reload, call, job, endVars,
                 histVars>>

WatchLoads ==
  /\ watching /\ lock = None
  /\ file # seen /\ pending = file
  /\ seen' = file /\ pending' = None
  /\ IF MayLoad
     THEN /\ desired' = file
          /\ IF stack.up
             THEN \/ /\ ReloadBegins(file) /\ lock' = Watcher
                     /\ UNCHANGED <<applied, err>>
                  \/ ReloadAnswers(file) /\ UNCHANGED lock
             ELSE err' = FALSE /\ UNCHANGED <<stack, reload, applied, lock>>
     ELSE err' = TRUE /\ UNCHANGED <<desired, stack, reload, applied, lock>>
  /\ UNCHANGED <<file, events, awaited, left, call, job, endVars, histVars>>

----------------------------------------------------------------------------
(***************************************************************************)
(* Controller::shutdown, by the host or after shutdown_controller          *)
(***************************************************************************)

HostShutdown ==
  /\ Counts
  /\ shut = "no" /\ shut' = "begin"
  /\ UNCHANGED <<file, knownVars, runVars, err, lock, reload, call, job,
                 closed, watching, histVars>>

\* Close, tell the watcher, pass the mutex once and cancel the jobs.
ShutCloses ==
  /\ shut = "begin" /\ shut' = "jobs"
  /\ closed' = TRUE
  /\ UNCHANGED <<file, events, knownVars, runVars, err, lock, reload, call,
                 job, watching, histVars>>

ShutCancels ==
  /\ shut = "jobs" /\ lock = None /\ shut' = "stop"
  /\ job' = [j \in Job |-> [job[j] EXCEPT !.cancel = job[j].at # "none"]]
  /\ UNCHANGED <<file, events, knownVars, runVars, err, lock, reload, call, closed,
                 watching, histVars>>

\* The jobs that were collected are awaited before the stack is stopped.
ShutStops ==
  /\ shut = "stop" /\ lock = None /\ \A j \in Job : job[j].cancel => ~Running(j)
  /\ shut' = "stopping" /\ lock' = Host /\ StackTaken
  /\ UNCHANGED <<file, events, knownVars, applied, err, reload, call, job,
                 closed, watching, histVars>>

ShutStopped ==
  /\ shut = "stopping" /\ Released
  /\ shut' = "tasks" /\ lock' = None /\ applied' = None
  /\ UNCHANGED <<file, events, knownVars, stack, awaited, left, err, reload,
                 call, job, closed, watching, histVars>>

\* The watcher and the connections have ended, by force if need be; then the
\* lease on the configuration is given back.
ShutDone ==
  /\ shut = "tasks" /\ shut' = "done"
  /\ watching' = FALSE
  /\ call' = [c \in Client |-> Idle] /\ lock' = None
  /\ UNCHANGED <<file, events, knownVars, runVars, err, reload, job, closed,
                 histVars>>

----------------------------------------------------------------------------
Serve(c) ==
  \/ EditRefused(c) \/ EditChecks(c) \/ EditRechecks(c) \/ EditReplaces(c)
  \/ ApplyChecks(c) \/ ApplyReloads(c)
  \/ StartServer(c) \/ RestartRefused(c) \/ CloseAsked(c) \/ StopServer(c)
  \/ StopDone(c)
  \/ ScanRefused(c) \/ (\E j \in Job, on \in Resource : ScanStarts(c, j, on))
  \/ (\E j \in Job : CancelScan(c, j))
  \/ ProbeRefused(c) \/ ProbeStarts(c) \/ ProbeEnds(c)

Reload   == EngineDrained \/ PollerDrained \/ Panics \/ ReloadSucceeds \/ ReloadFails
Watch    == WatchSees \/ WatchLoads
Shutdown == ShutCloses \/ ShutCancels \/ ShutStops \/ ShutStopped \/ ShutDone

Next ==
  \/ \E f \in Feature : External(f)
  \/ \E c \in Client : (\E op \in Op : Send(c, op)) \/ Serve(c) \/ Leaves(c)
  \/ Reload \/ PortReleased \/ Watch \/ WatchFails
  \/ \E j \in Job : ScanConnects(j) \/ ScanEnds(j)
  \/ HostShutdown \/ Shutdown

Spec == Init /\ [][Next]_vars

\* Every wait of the code is bounded: drains, transactions, scans and ticks.  A
\* read of the file that fails is an event, and not every read fails.
FairSpec ==
  /\ Spec
  /\ \A c \in Client : WF_vars(Serve(c))
  /\ WF_vars(Reload) /\ WF_vars(PortReleased)
  /\ WF_vars(Watch) /\ WF_vars(Shutdown)
  /\ \A j \in Job : WF_vars(ScanEnds(j))

----------------------------------------------------------------------------
\* No edit that a client was told to be saved is lost to an edit of another
\* client: it stays in the file until somebody else changes the file.
AckedKept == promised \subseteq file

\* A revision that was only saved (apply = false) does not get into the running
\* stack until a tool or a change of the file asks for it.
OnlyAsked == stack.up => stack.cfg \notin staged

\* What has the port open: offline scans, single requests beside a stopped stack,
\* the poller and one that is awaited.
PortUsers ==
  {<<"job", j>> : j \in {k \in Job : job[k].open /\ job[k].on = "port"}}
    \cup {<<"client", c>> : c \in {d \in Client :
                                     call[d].at = "probe" /\ ~stack.up}}
    \cup (IF PollsPort THEN {<<"poller">>} ELSE {})
    \cup (IF awaited THEN {<<"drained">>} ELSE {})

\* The same with the poller of a call that broke off in its drain.
AllPortUsers == PortUsers \cup (IF left THEN {<<"left">>} ELSE {})

\* At most one of poller, offline scan and single request has the port open.
\* The poller of a call that broke off in its drain is not counted.
Exclusive == Cardinality(PortUsers) <= 1

\* It holds until a reload ends with a generation in place that the controller
\* does not know of, also through the gaps of a restart.
PortExclusive == ~lost => Exclusive

\* When the lease is given back no stack and no scan runs and no call is under
\* way, though calls that had passed the check of is_closed() were still waiting
\* for the mutex; and of all that used the port at most the poller of a call that
\* broke off in its drain still does.
ClosedIsClean ==
  shut = "done" => /\ ~stack.up
                   /\ \A j \in Job : ~Running(j)
                   /\ \A c \in Client : call[c].at = "idle"
                   /\ AllPortUsers \subseteq {<<"left">>}

\* The lease is not given back before the port.
ClosedFreesPort == shut = "done" => AllPortUsers = {}

\* A controller that was closed gives its lease back in the end.
ClosedEnds == closed ~> shut = "done"

\* Whatever is saved is looked at in the end, by the watcher or before.
FileSettles == []<>(file = seen \/ ~watching)

\* A client that goes away leaves the acquisition as it is.
PollingOutlivesClients == stack.up /\ lock = None => stack.engine /\ stack.poller
=============================================================================
