-------------------------------- MODULE Owners --------------------------------
(***************************************************************************)
(* The processes that share one configuration file: services (run_managed) *)
(* and windows of the configurator (EmbeddedServer).  The one that holds   *)
(* the lock file has the controller and the runtime, the others attach to  *)
(* it over the endpoint in the sidecar file, and take over when it ends.   *)
(* What the controller does inside is the module Controller.               *)
(***************************************************************************)
EXTENDS Naturals, FiniteSets

CONSTANTS
  Service, Window,  \* the processes
  MaxEvents,        \* bound: what operators and MCP clients do
  MaxFaults,        \* bound: processes killed, runtimes that fail to start
  None

Proc == Service \cup Window

ASSUME OwnersAssumption ==
  /\ Service \cap Window = {} /\ None \notin Proc
  /\ MaxEvents \in Nat /\ MaxFaults \in Nat

VARIABLES
  proc,             \* the state of every process, see TypeOK
  ctl,              \* its controller and whether that polls
  lease,            \* who has the lock of <config>.mcp-owner.lock
  sidecar,          \* <config>.mcp-endpoint.json: is there, says running
  marker,           \* <config>.mcp-stop-request.json is there
  keep, finished,   \* history: what polling is due, shutdown_controller's end
  events, faults

fileVars == <<lease, sidecar, marker>>
histVars == <<keep, finished>>
bounds   == <<events, faults>>
vars     == <<proc, ctl, fileVars, histVars, bounds>>

NoController == [at |-> "none", running |-> FALSE]

\* Where a process is, and what it knows.
Place == {"off", "failed", "read", "try", "wait", "new", "made", "call", "own",
          "attached", "lost", "stopped", "end"}

Process ==
  [at : Place,
   then : {"off", "failed", "stopped"},  \* where "end" leads
   intent : BOOLEAN,   \* the runtime was running when last heard of
   once : BOOLEAN,     \* attached_once
   known : BOOLEAN,    \* previous_instance is the present owner
   held : BOOLEAN,     \* its client has the present address and token
   read : BOOLEAN,     \* what attach_controller read from the sidecar
   resume : BOOLEAN]   \* attach_runtime is to start the server

\* The stages of a controller.
Stage == {"none", "new", "up", "ending", "ended", "closing", "quiet"}

TypeOK ==
  /\ proc \in [Proc -> Process]
  /\ ctl \in [Proc -> [at : Stage, running : BOOLEAN]]
  /\ lease \in Proc \cup {None}
  /\ sidecar \in [there : BOOLEAN, running : BOOLEAN] /\ marker \in BOOLEAN
  /\ keep \in {"no", "asked", "left"} /\ finished \in BOOLEAN
  /\ events \in 0 .. MaxEvents /\ faults \in 0 .. MaxFaults

\* A process that starts.
Fresh(p, at) ==
  [at |-> at, then |-> "off", intent |-> p \in Service, once |-> FALSE,
   known |-> FALSE, held |-> FALSE, read |-> FALSE, resume |-> FALSE]

Init ==
  /\ proc \in {f \in [Proc -> UNION {{Fresh(p, "off"), Fresh(p, "try"), Fresh(p, "read")}
                                      : p \in Proc}] :
                 \A p \in Proc : f[p] \in {Fresh(p, "off"),
                   Fresh(p, IF p \in Service THEN "try" ELSE "read")}}
  /\ ctl = [p \in Proc |-> NoController]
  /\ lease = None /\ marker = FALSE
  /\ sidecar = [there |-> FALSE, running |-> FALSE]
  /\ keep = "no" /\ finished = FALSE
  /\ events = 0 /\ faults = 0

----------------------------------------------------------------------------
At(p, s)      == proc[p].at = s
Goes(p, s)    == proc' = [proc EXCEPT ![p].at = s]
EndsTo(p, s)  == proc' = [proc EXCEPT ![p] = [Fresh(p, "end") EXCEPT !.then = s]]
Becomes(p, s) == proc' = [proc EXCEPT ![p] = Fresh(p, s)]  \* and forgets the rest
Counts        == events < MaxEvents /\ events' = events + 1 /\ UNCHANGED faults
Breaks        == faults < MaxFaults /\ faults' = faults + 1 /\ UNCHANGED events

\* Controllers that serve every tool, and those that serve server_status.
Serving(q)    == ctl[q].at = "up"
Answering(q)  == ctl[q].at \in {"up", "ending", "ended"}

\* start_server and stop_server with the record refresh_view makes of them.
Polls(q)  == /\ ctl' = [ctl EXCEPT ![q].running = TRUE]
             /\ sidecar' = [sidecar EXCEPT !.running = sidecar.there]
             /\ keep' = "asked"
Pauses(q, s) == /\ ctl' = [ctl EXCEPT ![q].running = FALSE, ![q].at = s]
                /\ sidecar' = [sidecar EXCEPT !.running = FALSE]

----------------------------------------------------------------------------
(***************************************************************************)
(* Controller::new, and attaching to the owner when it is busy             *)
(***************************************************************************)

\* attach_controller reads the sidecar and the marker before it takes the lock.
Reads(w) ==
  /\ w \in Window /\ At(w, "read")
  /\ proc' = [proc EXCEPT ![w].at = "try",
                          ![w].read = sidecar.running /\ ~marker]
  /\ UNCHANGED <<ctl, fileVars, histVars, bounds>>

\* A service that was attached ends when the shutdown was asked for.
GivesUp(s) ==
  /\ s \in Service /\ At(s, "try") /\ proc[s].once /\ marker
  /\ Becomes(s, "off")
  /\ UNCHANGED <<ctl, fileVars, histVars, bounds>>

Tries(p) == At(p, "try") /\ (p \in Service => ~(proc[p].once /\ marker))

\* Mutant of Free: the lock is taken as a shared one.
FreeShared == TRUE

\* try_lock_exclusive succeeds.
Free == lease = None

Acquires(p) ==
  /\ Tries(p) /\ Free
  /\ lease' = p /\ ctl' = [ctl EXCEPT ![p] = [at |-> "new", running |-> FALSE]]
  /\ Goes(p, "new")
  /\ UNCHANGED <<sidecar, marker, histVars, bounds>>

\* OWNER_BUSY
Busy(p) ==
  /\ Tries(p) /\ ~Free
  /\ Goes(p, "wait")
  /\ UNCHANGED <<ctl, fileVars, histVars, bounds>>

\* The token of a sidecar that is still there is used again, and the port if it
\* is configured and free: then the clients of the dead owner reach this one.
Listens(p) ==
  /\ At(p, "new")
  /\ ctl' = [ctl EXCEPT ![p].at = "up"]
  /\ sidecar' = [there |-> TRUE, running |-> FALSE] /\ marker' = FALSE
  /\ \E same \in {FALSE, sidecar.there} :
       proc' = [q \in Proc |-> [proc[q] EXCEPT
                  !.at = IF q = p THEN "made" ELSE @,
                  !.held = @ /\ same, !.known = FALSE]]
  /\ UNCHANGED <<lease, histVars, bounds>>

ToStart(p) == IF p \in Service THEN proc[p].intent ELSE proc[p].read \/ proc[p].resume

\* Where a failure to start leaves a process.
AfterFailure(p) == IF p \in Service THEN "failed" ELSE "stopped"

Owns(p) ==
  /\ At(p, "made") /\ ~ToStart(p)
  /\ Becomes(p, "own")
  /\ UNCHANGED <<ctl, fileVars, histVars, bounds>>

StartsOwn(p) ==
  /\ At(p, "made") /\ ToStart(p)
  /\ IF Serving(p) THEN Polls(p) /\ Becomes(p, "own")
     ELSE EndsTo(p, AfterFailure(p)) /\ UNCHANGED <<ctl, sidecar, keep>>
  /\ UNCHANGED <<lease, marker, finished, bounds>>

StartFails(p) ==
  /\ At(p, "made") /\ ToStart(p) /\ Breaks
  /\ EndsTo(p, AfterFailure(p))
  /\ UNCHANGED <<ctl, fileVars, histVars>>

\* Client::wait, for a window with the first view (read_tags).
Connects(p, q) ==
  /\ At(p, "wait")
  /\ IF p \in Service THEN Answering(q) ELSE Serving(q)
  /\ LET me == proc[p]
         call == IF p \in Service THEN me.intent /\ ~(me.once /\ me.known)
                 ELSE me.resume
     IN proc' = [proc EXCEPT ![p] =
          [Fresh(p, IF call THEN "call" ELSE "attached") EXCEPT
             !.held = TRUE, !.known = p \in Service, !.once = p \in Service,
             !.intent = IF p \in Service THEN me.intent ELSE ctl[q].running]]
  /\ UNCHANGED <<ctl, fileVars, histVars, bounds>>

WaitFails(p) ==
  /\ At(p, "wait") /\ ~\E q \in Proc : Serving(q)
  /\ IF p \in Service THEN Goes(p, "try") ELSE Becomes(p, "stopped")
  /\ UNCHANGED <<ctl, fileVars, histVars, bounds>>

\* server_start over the endpoint.
Reaches(p, q) == proc[p].held /\ Serving(q)

StartsRemote(p) ==
  /\ At(p, "call")
  /\ \/ \E q \in Proc :
          /\ Reaches(p, q) /\ Polls(q)
          /\ proc' = [proc EXCEPT ![p].at = "attached", ![p].intent = TRUE]
     \/ /\ ~\E q \in Proc : Reaches(p, q)
        /\ Becomes(p, AfterFailure(p))
        /\ UNCHANGED <<ctl, sidecar, keep>>
  /\ UNCHANGED <<lease, marker, finished, bounds>>

----------------------------------------------------------------------------
(***************************************************************************)
(* Attached: the status is asked for again and again                       *)
(***************************************************************************)

\* Mutant of Remembered: the sidecar of the dead owner is not asked.
RememberedNothing(p) == FALSE

\* previous_runtime_intent, or what was last heard of.
Remembered(p) == IF sidecar.there THEN sidecar.running ELSE proc[p].intent

\* A call that was accepted before the owner closed its endpoint is answered.
Hears(p, q) ==
  /\ At(p, "attached") /\ proc[p].held
  /\ IF p \in Service THEN Answering(q) \/ ctl[q].at \in {"closing", "quiet"}
     ELSE Serving(q)
  /\ proc' = [proc EXCEPT ![p].intent = ctl[q].running]
  /\ UNCHANGED <<ctl, fileVars, histVars, bounds>>

Unreachable(p) == ~\E q \in Proc : proc[p].held /\ IF p \in Service THEN Answering(q)
                                                   ELSE Serving(q)

HearsNothing(p) ==
  /\ At(p, "attached") /\ Unreachable(p)
  /\ proc' = IF p \in Service
             THEN [proc EXCEPT ![p].at = "try", ![p].held = FALSE,
                               ![p].intent = Remembered(p)]
             ELSE [proc EXCEPT ![p].at = "lost", ![p].held = FALSE]
  /\ UNCHANGED <<ctl, fileVars, histVars, bounds>>

\* The task of Remote finds the owner again before the window notices.
Reconnects(w, q) ==
  /\ At(w, "lost") /\ Serving(q)
  /\ proc' = [proc EXCEPT ![w].at = "attached", ![w].held = TRUE,
                          ![w].intent = ctl[q].running]
  /\ UNCHANGED <<ctl, fileVars, histVars, bounds>>

\* Mutant of MayAttach: the window does not look for the marker.
MayAttachAlways == TRUE

\* pump attaches again unless the shutdown was asked for.
MayAttach == ~marker

Lost(w) ==
  /\ w \in Window /\ (At(w, "lost") \/ (At(w, "own") /\ ~Serving(w)))
  /\ IF MayAttach /\ At(w, "lost")
     THEN proc' = [proc EXCEPT ![w].at = "read", ![w].resume = Remembered(w)]
     ELSE IF At(w, "own") THEN EndsTo(w, "stopped") ELSE Becomes(w, "stopped")
  /\ UNCHANGED <<ctl, fileVars, histVars, bounds>>

\* Mutant of RetryDue: only a connection that was lost is tried again.
RetryDueLost(w) == At(w, "lost")

\* A window that is not attached tries again every 2 s.
RetryDue(w) == At(w, "stopped")

Retries(w) ==
  /\ w \in Window /\ RetryDue(w) /\ MayAttach
  /\ proc' = [proc EXCEPT ![w].at = "read", ![w].resume = sidecar.running]
  /\ UNCHANGED <<ctl, fileVars, histVars, bounds>>

----------------------------------------------------------------------------
(***************************************************************************)
(* The end of a controller                                                 *)
(***************************************************************************)

\* shutdown_controller stops the runtime before it closes the endpoint.
EndingStops(q) ==
  /\ ctl[q].at = "ending" /\ Pauses(q, "ended")
  /\ UNCHANGED <<proc, lease, marker, histVars, bounds>>

\* Controller::shutdown, by the host or 100 ms after shutdown_controller.
Closes(q) ==
  /\ ctl[q].at = "ended" \/ (At(q, "end") /\ Serving(q))
  /\ ctl' = [ctl EXCEPT ![q].at = "closing"]
  /\ UNCHANGED <<proc, fileVars, histVars, bounds>>

ClosingStops(q) ==
  /\ ctl[q].at = "closing" /\ Pauses(q, "quiet")
  /\ keep' = IF ctl[q].running /\ keep = "asked" THEN "left" ELSE keep
  /\ UNCHANGED <<proc, lease, marker, finished, bounds>>

\* The tasks have ended: remove_endpoint, and at once the lock is given back.
Releases(q) ==
  /\ ctl[q].at = "quiet"
  /\ ctl' = [ctl EXCEPT ![q] = NoController] /\ lease' = None
  /\ sidecar' = [there |-> FALSE, running |-> FALSE]
  /\ proc' = [p \in Proc |-> [proc[p] EXCEPT !.held = FALSE]]
  /\ UNCHANGED <<marker, histVars, bounds>>

\* run_managed sees the exit signal.
Exits(s) ==
  /\ s \in Service /\ At(s, "own")
  /\ ctl[s].at \in {"none", "closing", "quiet"}
  /\ EndsTo(s, "off")
  /\ UNCHANGED <<ctl, fileVars, histVars, bounds>>

Ended(p) ==
  /\ At(p, "end") /\ ctl[p].at = "none"
  /\ Becomes(p, proc[p].then)
  /\ UNCHANGED <<ctl, fileVars, histVars, bounds>>

\* The service manager starts a service that failed or was killed.
Restarts(s) ==
  /\ At(s, "failed")
  /\ Becomes(s, "try")
  /\ UNCHANGED <<ctl, fileVars, histVars, bounds>>

----------------------------------------------------------------------------
(***************************************************************************)
(* Operators, MCP clients and faults                                       *)
(***************************************************************************)

\* run_managed of a console or of the service.
ServiceStarts(s) ==
  /\ s \in Service /\ At(s, "off") /\ Counts
  /\ Becomes(s, "try")
  /\ finished' = FALSE
  /\ UNCHANGED <<ctl, fileVars, keep>>

\* The window attaches to the configuration it loads.
WindowOpens(w) ==
  /\ w \in Window /\ At(w, "off") /\ Counts
  /\ Becomes(w, "read")
  /\ finished' = FALSE
  /\ UNCHANGED <<ctl, fileVars, keep>>

InMainLoop(p) == At(p, "own") \/ At(p, "attached")

\* A service that is told to stop shuts down its controller, or stops the
\* server it is attached to.
ServiceStops(s) ==
  /\ s \in Service /\ InMainLoop(s) /\ Counts
  /\ IF At(s, "own") THEN EndsTo(s, "off") ELSE Becomes(s, "off")
  /\ IF At(s, "attached") /\ \E q \in Proc : Reaches(s, q)
     THEN /\ \E q \in Proc : Reaches(s, q) /\ Pauses(q, "up")
          /\ keep' = "no"
     ELSE /\ keep' = IF At(s, "own") THEN "no" ELSE keep
          /\ UNCHANGED <<ctl, sidecar>>
  /\ UNCHANGED <<lease, marker, finished>>

\* A window that is closed shuts down its controller, or leaves the server
\* it is attached to alone.
WindowCloses(w) ==
  /\ w \in Window
  /\ InMainLoop(w) \/ At(w, "stopped") \/ At(w, "lost")
  /\ Counts
  /\ IF At(w, "own") THEN EndsTo(w, "off") ELSE Becomes(w, "off")
  /\ UNCHANGED <<ctl, fileVars, keep, finished>>

\* The start button of a window, and server_start of a client.
PressStart(w) ==
  /\ w \in Window /\ Counts /\ finished' = FALSE
  /\ \/ /\ At(w, "stopped")
        /\ proc' = [proc EXCEPT ![w].at = "read", ![w].resume = TRUE]
        /\ UNCHANGED <<ctl, sidecar, keep>>
     \/ /\ At(w, "own") /\ Serving(w) /\ ~ctl[w].running
        /\ Polls(w) /\ UNCHANGED proc
     \/ /\ At(w, "attached") /\ ~proc[w].intent
        /\ Goes(w, "call")
        /\ UNCHANGED <<ctl, sidecar, keep>>
  /\ UNCHANGED <<lease, marker>>

ClientStarts(q) ==
  /\ Serving(q) /\ ~ctl[q].running /\ Counts
  /\ Polls(q)
  /\ finished' = FALSE
  /\ UNCHANGED <<proc, lease, marker>>

\* The stop button of a window, and server_stop of a client.
ServerStop(q) ==
  /\ Serving(q) /\ ctl[q].running /\ Counts
  /\ Pauses(q, "up") /\ keep' = "no"
  /\ UNCHANGED <<proc, lease, marker, finished>>

\* shutdown_controller.  It is final for the processes that have settled.
ShutdownController(q) ==
  /\ Serving(q) /\ Counts
  /\ marker' = TRUE /\ ctl' = [ctl EXCEPT ![q].at = "ending"]
  /\ keep' = "no"
  /\ finished' = \A p \in Proc : proc[p].at \in {"off", "own", "attached", "stopped"}
  /\ UNCHANGED <<proc, lease, sidecar>>

\* It is about to become the owner with what it knew before the start.
Unaware(r) == proc[r].at \in {"try", "wait"} /\ ~ToStart(r)

\* A process is killed: its lock is gone, its sidecar is not.  What an unaware
\* process makes of the intent is not counted.
Killed(p) ==
  /\ ~At(p, "off") /\ ~At(p, "failed") /\ Breaks
  /\ Becomes(p, IF p \in Service THEN "failed" ELSE "off")
  /\ ctl' = [ctl EXCEPT ![p] = NoController]
  /\ lease' = IF lease = p THEN None ELSE lease
  /\ keep' = IF keep = "asked" /\ \E r \in Proc \ {p} : Unaware(r)
             THEN "left" ELSE keep
  /\ finished' = FALSE
  /\ UNCHANGED <<sidecar, marker>>

----------------------------------------------------------------------------
Runs(p) ==
  \/ Reads(p) \/ GivesUp(p) \/ Acquires(p) \/ Busy(p) \/ Listens(p)
  \/ Owns(p) \/ StartsOwn(p) \/ (\E q \in Proc : Connects(p, q)) \/ WaitFails(p)
  \/ StartsRemote(p) \/ (\E q \in Proc : Hears(p, q)) \/ HearsNothing(p)
  \/ (p \in Window /\ \E q \in Proc : Reconnects(p, q)) \/ Lost(p) \/ Retries(p)
  \/ Exits(p) \/ Ended(p) \/ (p \in Service /\ Restarts(p))

Ends(q) == EndingStops(q) \/ Closes(q) \/ ClosingStops(q) \/ Releases(q)

Operators ==
  \E p \in Proc : ServiceStarts(p) \/ WindowOpens(p) \/ ServiceStops(p)
                  \/ WindowCloses(p) \/ PressStart(p) \/ ClientStarts(p)
                  \/ ServerStop(p) \/ ShutdownController(p)

Faults == \E p \in Proc : Killed(p) \/ StartFails(p)

Next == (\E p \in Proc : Runs(p) \/ Ends(p)) \/ Operators \/ Faults

Spec == Init /\ [][Next]_vars

\* Every loop has a timer and every wait of the shutdown is bounded.
FairSpec == Spec /\ \A p \in Proc : WF_vars(Runs(p)) /\ WF_vars(Ends(p))

----------------------------------------------------------------------------
Polling == \E p \in Proc : ctl[p].running

\* Never two runtimes on one configuration, through every takeover: the next
\* owner starts only after the one before has stopped or died.
OneRuntime == Cardinality({p \in Proc : ctl[p].running}) <= 1

\* shutdown_controller is not undone by the processes that were attached when
\* it was called, however late they notice, until somebody starts something.
ShutdownIsFinal ==
  finished => /\ \A p \in Proc : ctl[p].running => ctl[p].at = "ending"
              /\ \A p \in Proc : proc[p].at \notin {"new", "made"}

ServiceThere == \E s \in Service : ~At(s, "off")

\* When the owner is killed or its runtime does not start again, a service that
\* is there sees to it that polling goes on, until somebody stops it.
PollingResumes ==
  (keep = "asked" /\ ServiceThere) ~> (Polling \/ keep # "asked" \/ ~ServiceThere)

\* The same when the owner is a window and is closed.
PollingOutlivesWindow ==
  (keep # "no" /\ ServiceThere) ~> (Polling \/ keep = "no" \/ ~ServiceThere)

\* In the end every process is the owner, or attached and rightly informed, or
\* a window that was told of a shutdown.
Settles ==
  <>[](\A p \in Proc :
        \/ proc[p].at \in {"off", "own"}
        \/ At(p, "attached") /\ proc[p].intent = Polling
        \/ At(p, "stopped") /\ marker)
=============================================================================
