----------------------------- MODULE OwnersProofs -----------------------------
(***************************************************************************)
(* Proofs about Owners, for every number of services and windows that      *)
(* share a configuration.                                                  *)
(***************************************************************************)
EXTENDS Owners, FiniteSetTheorems, TLAPS

-----------------------------------------------------------------------------
(* The inductive invariants *)

\* A controller exists only while its process has the lock, polls only once it
\* is up, and is made by a process that knows it is making one.
HoldInv ==
  \A p \in Proc :
    /\ ctl[p].at # "none" => lease = p
    /\ ctl[p].running => ctl[p].at \notin {"none", "new"}
    /\ At(p, "new") <=> ctl[p].at = "new"

\* A service that is attached, or asks for polling, was attached once: what
\* makes it end instead of taking over when the marker is there.
OnceInv ==
  \A s \in Service : proc[s].at \in {"attached", "call"} => proc[s].once

\* Where a process is after a final shutdown: one that tries for the lock is a
\* service that was attached, and one that ends was not failing.
Settled(p) ==
  /\ proc[p].at \in {"off", "own", "attached", "lost", "stopped", "end", "try"}
  /\ At(p, "try") => p \in Service /\ proc[p].once
  /\ At(p, "end") => proc[p].then # "failed"

\* The controller that was shut down serves no tool any more, and polls only
\* until its runtime has been stopped.
WindsDown(p) ==
  /\ ctl[p].at \notin {"new", "up"}
  /\ ctl[p].running => ctl[p].at = "ending"

FinalInv == finished => marker /\ \A p \in Proc : Settled(p) /\ WindsDown(p)

-----------------------------------------------------------------------------
(* Types *)

LEMMA FreshType ==
  ASSUME NEW p \in Proc, NEW s \in Place
  PROVE  Fresh(p, s) \in Process /\ Fresh(p, s).at = s /\ Fresh(p, s).then = "off"
         /\ Fresh(p, s).once = FALSE
BY DEF Fresh, Process

\* What the three ways to move a process do to its record.
LEMMA GoesType ==
  ASSUME TypeOK, NEW p \in Proc, NEW s \in Place, Goes(p, s)
  PROVE  proc' \in [Proc -> Process]
BY DEF TypeOK, Goes, Process

LEMMA BecomesType ==
  ASSUME TypeOK, NEW p \in Proc, NEW s \in Place, Becomes(p, s)
  PROVE  proc' \in [Proc -> Process]
BY FreshType DEF TypeOK, Becomes

LEMMA EndsToType ==
  ASSUME TypeOK, NEW p \in Proc, NEW s \in {"off", "failed", "stopped"},
         EndsTo(p, s)
  PROVE  proc' \in [Proc -> Process]
<1>1. "end" \in Place
  BY DEF Place
<1>2. \A r \in Process : [r EXCEPT !.then = s] \in Process
  BY DEF Process
<1> QED
  BY <1>1, <1>2, FreshType DEF TypeOK, EndsTo

\* And the ways to change what it knows while it moves.
LEMMA LearnsType ==
  ASSUME TypeOK, NEW p \in Proc, NEW s \in Place, NEW b \in BOOLEAN
  PROVE  /\ [proc EXCEPT ![p].at = s, ![p].read = b] \in [Proc -> Process]
         /\ [proc EXCEPT ![p].at = s, ![p].resume = b] \in [Proc -> Process]
         /\ [proc EXCEPT ![p].at = s, ![p].intent = b] \in [Proc -> Process]
<1>1. \A r \in Process : /\ [r EXCEPT !.at = s] \in Process
                         /\ [r EXCEPT !.read = b] \in Process
                         /\ [r EXCEPT !.resume = b] \in Process
                         /\ [r EXCEPT !.intent = b] \in Process
  BY DEF Process
<1>2. \A f \in [Proc -> Process] :
        /\ [f EXCEPT ![p].at = s] \in [Proc -> Process]
        /\ [f EXCEPT ![p].read = b] \in [Proc -> Process]
        /\ [f EXCEPT ![p].resume = b] \in [Proc -> Process]
        /\ [f EXCEPT ![p].intent = b] \in [Proc -> Process]
  BY <1>1
<1> QED
  BY <1>2 DEF TypeOK

LEMMA LosesType ==
  ASSUME TypeOK, NEW p \in Proc, NEW s \in Place, NEW h \in BOOLEAN
  PROVE  /\ [proc EXCEPT ![p].at = s, ![p].held = h] \in [Proc -> Process]
         /\ \A b \in BOOLEAN :
              [proc EXCEPT ![p].at = s, ![p].held = h, ![p].intent = b]
                \in [Proc -> Process]
<1>1. \A r \in Process : /\ [r EXCEPT !.at = s] \in Process
                         /\ [r EXCEPT !.held = h] \in Process
                         /\ \A b \in BOOLEAN : [r EXCEPT !.intent = b] \in Process
  BY DEF Process
<1>2. \A f \in [Proc -> Process] :
        /\ [f EXCEPT ![p].at = s] \in [Proc -> Process]
        /\ [f EXCEPT ![p].held = h] \in [Proc -> Process]
        /\ \A b \in BOOLEAN : [f EXCEPT ![p].intent = b] \in [Proc -> Process]
  BY <1>1
<1> QED
  BY <1>2 DEF TypeOK

LEMMA PollsType ==
  ASSUME TypeOK, NEW q \in Proc, Polls(q)
  PROVE  /\ ctl' \in [Proc -> [at : Stage, running : BOOLEAN]]
         /\ sidecar' \in [there : BOOLEAN, running : BOOLEAN]
         /\ keep' \in {"no", "asked", "left"}
BY DEF TypeOK, Polls

LEMMA PausesType ==
  ASSUME TypeOK, NEW q \in Proc, NEW s \in Stage, Pauses(q, s)
  PROVE  /\ ctl' \in [Proc -> [at : Stage, running : BOOLEAN]]
         /\ sidecar' \in [there : BOOLEAN, running : BOOLEAN]
BY DEF TypeOK, Pauses

LEMMA CountsType ==
  ASSUME TypeOK, Counts \/ Breaks \/ UNCHANGED bounds
  PROVE  events' \in 0 .. MaxEvents /\ faults' \in 0 .. MaxFaults
BY OwnersAssumption DEF TypeOK, Counts, Breaks, bounds

LEMMA TypeInit == Init => TypeOK
<1> SUFFICES ASSUME Init PROVE TypeOK
  OBVIOUS
<1>1. \A p \in Proc : \A s \in {"off", "try", "read"} : Fresh(p, s) \in Process
  BY FreshType DEF Place
<1>2. proc \in [Proc -> Process]
  BY <1>1 DEF Init
<1>3. ctl \in [Proc -> [at : Stage, running : BOOLEAN]]
  BY DEF Init, NoController, Stage
<1> QED
  BY <1>2, <1>3, OwnersAssumption, 0 \in 0 .. MaxEvents, 0 \in 0 .. MaxFaults
     DEF Init, TypeOK

LEMMA TypeStep == TypeOK /\ [Next]_vars => TypeOK'
<1> SUFFICES ASSUME TypeOK, [Next]_vars PROVE TypeOK'
  OBVIOUS
<1> USE OwnersAssumption
<1>0. CASE UNCHANGED vars
  BY <1>0 DEF TypeOK, vars, fileVars, histVars, bounds
<1>1. ASSUME NEW p \in Proc, Reads(p) PROVE TypeOK'
  <2> DEFINE b == sidecar.running /\ ~marker
  <2>1. b \in BOOLEAN /\ "try" \in Place
    BY DEF Place
  <2>2. proc' = [proc EXCEPT ![p].at = "try", ![p].read = b]
    BY <1>1 DEF Reads
  <2> HIDE DEF b
  <2>3. proc' \in [Proc -> Process]
    BY <2>1, <2>2, LearnsType
  <2> QED
    BY <1>1, <2>3 DEF Reads, TypeOK, fileVars, histVars, bounds
<1>2. ASSUME NEW p \in Proc, GivesUp(p) PROVE TypeOK'
  BY <1>2, BecomesType DEF GivesUp, TypeOK, Place, fileVars, histVars, bounds
<1>3. ASSUME NEW p \in Proc, Acquires(p) PROVE TypeOK'
  BY <1>3, GoesType DEF Acquires, TypeOK, Place, Stage, histVars, bounds
<1>4. ASSUME NEW p \in Proc, Busy(p) PROVE TypeOK'
  BY <1>4, GoesType DEF Busy, TypeOK, Place, fileVars, histVars, bounds
<1>5. ASSUME NEW p \in Proc, Listens(p) PROVE TypeOK'
  <2>1. PICK same \in {FALSE, sidecar.there} :
          proc' = [q \in Proc |-> [proc[q] EXCEPT
                     !.at = IF q = p THEN "made" ELSE @,
                     !.held = @ /\ same, !.known = FALSE]]
    BY <1>5 DEF Listens
  <2>2. ASSUME NEW q \in Proc
        PROVE  [proc[q] EXCEPT !.at = IF q = p THEN "made" ELSE @,
                  !.held = @ /\ same, !.known = FALSE] \in Process
    <3> DEFINE at == IF q = p THEN "made" ELSE proc[q].at
               held == proc[q].held /\ same
    <3>1. proc[q] \in Process
      BY DEF TypeOK
    <3>2. at \in Place /\ held \in BOOLEAN
      BY <3>1 DEF Process, Place
    <3> HIDE DEF at, held
    <3>3. [proc[q] EXCEPT !.at = at, !.held = held, !.known = FALSE] \in Process
      BY <3>1, <3>2 DEF Process
    <3> QED
      BY <3>3 DEF at, held
  <2>3. proc' \in [Proc -> Process]
    BY <2>1, <2>2
  <2> QED
    BY <1>5, <2>3 DEF Listens, TypeOK, Stage, histVars, bounds
<1>6. ASSUME NEW p \in Proc, Owns(p) PROVE TypeOK'
  BY <1>6, BecomesType DEF Owns, TypeOK, Place, fileVars, histVars, bounds
<1>7. ASSUME NEW p \in Proc, StartsOwn(p) PROVE TypeOK'
  BY <1>7, BecomesType, EndsToType, PollsType
     DEF StartsOwn, AfterFailure, TypeOK, Place, bounds
<1>8. ASSUME NEW p \in Proc, StartFails(p) PROVE TypeOK'
  BY <1>8, EndsToType, CountsType
     DEF StartFails, AfterFailure, TypeOK, fileVars, histVars
<1>9. ASSUME NEW p \in Proc, NEW q \in Proc, Connects(p, q) PROVE TypeOK'
  <2>1. proc' \in [Proc -> Process]
    <3> DEFINE me == proc[p]
               call == IF p \in Service THEN me.intent /\ ~(me.once /\ me.known)
                       ELSE me.resume
               svc == p \in Service
               told == IF p \in Service THEN me.intent ELSE ctl[q].running
               new == Fresh(p, IF call THEN "call" ELSE "attached")
    <3>1. me \in Process /\ ctl[q].running \in BOOLEAN
      BY DEF TypeOK
    <3>2. told \in BOOLEAN /\ svc \in BOOLEAN
      BY <3>1 DEF Process
    <3>3. new \in Process
      BY FreshType DEF Place
    <3>4. proc' = [proc EXCEPT ![p] = [new EXCEPT !.held = TRUE, !.known = svc,
                                         !.once = svc, !.intent = told]]
      BY <1>9 DEF Connects
    <3> HIDE DEF me, call, svc, told, new
    <3>5. [new EXCEPT !.held = TRUE, !.known = svc, !.once = svc,
             !.intent = told] \in Process
      BY <3>2, <3>3 DEF Process
    <3> QED
      BY <3>4, <3>5 DEF TypeOK
  <2> QED
    BY <1>9, <2>1 DEF Connects, TypeOK, fileVars, histVars, bounds
<1>10. ASSUME NEW p \in Proc, WaitFails(p) PROVE TypeOK'
  BY <1>10, GoesType, BecomesType
     DEF WaitFails, TypeOK, Place, fileVars, histVars, bounds
<1>11. ASSUME NEW p \in Proc, StartsRemote(p) PROVE TypeOK'
  <2>1. CASE \E q \in Proc : Reaches(p, q) /\ Polls(q)
               /\ proc' = [proc EXCEPT ![p].at = "attached", ![p].intent = TRUE]
    <3> DEFINE b == TRUE
    <3>1. b \in BOOLEAN /\ "attached" \in Place
      BY DEF Place
    <3>2. proc' = [proc EXCEPT ![p].at = "attached", ![p].intent = b]
      BY <2>1
    <3> HIDE DEF b
    <3>3. proc' \in [Proc -> Process]
      BY <3>1, <3>2, LearnsType
    <3> QED
      BY <1>11, <2>1, <3>3, PollsType DEF StartsRemote, TypeOK, bounds
  <2>2. CASE Becomes(p, AfterFailure(p)) /\ UNCHANGED <<ctl, sidecar, keep>>
    BY <1>11, <2>2, BecomesType
       DEF StartsRemote, AfterFailure, TypeOK, Place, bounds
  <2> QED
    BY <1>11, <2>1, <2>2 DEF StartsRemote
<1>12. ASSUME NEW p \in Proc, NEW q \in Proc, Hears(p, q) PROVE TypeOK'
  BY <1>12 DEF Hears, TypeOK, Process, fileVars, histVars, bounds
<1>13. ASSUME NEW p \in Proc, HearsNothing(p) PROVE TypeOK'
  <2> DEFINE b == Remembered(p)
  <2> DEFINE h == FALSE
  <2>1. b \in BOOLEAN /\ h \in BOOLEAN /\ "try" \in Place /\ "lost" \in Place
    BY DEF Remembered, TypeOK, Process, Place
  <2>2. \/ proc' = [proc EXCEPT ![p].at = "try", ![p].held = h, ![p].intent = b]
        \/ proc' = [proc EXCEPT ![p].at = "lost", ![p].held = h]
    BY <1>13 DEF HearsNothing
  <2> HIDE DEF b, h
  <2>3. proc' \in [Proc -> Process]
    <3>1. CASE proc' = [proc EXCEPT ![p].at = "try", ![p].held = h, ![p].intent = b]
      BY <2>1, <3>1, LosesType
    <3>2. CASE proc' = [proc EXCEPT ![p].at = "lost", ![p].held = h]
      BY <2>1, <3>2, LosesType
    <3> QED
      BY <2>2, <3>1, <3>2
  <2> QED
    BY <1>13, <2>3 DEF HearsNothing, TypeOK, fileVars, histVars, bounds
<1>14. ASSUME NEW p \in Proc, NEW q \in Proc, Reconnects(p, q) PROVE TypeOK'
  <2> DEFINE h == TRUE
  <2>1. h \in BOOLEAN /\ ctl[q].running \in BOOLEAN /\ "attached" \in Place
    BY DEF TypeOK, Place
  <2>2. proc' = [proc EXCEPT ![p].at = "attached", ![p].held = h,
                             ![p].intent = ctl[q].running]
    BY <1>14 DEF Reconnects
  <2> HIDE DEF h
  <2>3. proc' \in [Proc -> Process]
    BY <2>1, <2>2, LosesType
  <2> QED
    BY <1>14, <2>3 DEF Reconnects, TypeOK, fileVars, histVars, bounds
<1>15. ASSUME NEW p \in Proc, Lost(p) PROVE TypeOK'
  <2> DEFINE b == Remembered(p)
  <2>1. b \in BOOLEAN /\ "read" \in Place /\ "stopped" \in Place
    BY DEF Remembered, TypeOK, Process, Place
  <2>2. \/ proc' = [proc EXCEPT ![p].at = "read", ![p].resume = b]
        \/ EndsTo(p, "stopped") \/ Becomes(p, "stopped")
    BY <1>15 DEF Lost
  <2> HIDE DEF b
  <2>3. proc' \in [Proc -> Process]
    <3>1. CASE proc' = [proc EXCEPT ![p].at = "read", ![p].resume = b]
      BY <2>1, <3>1, LearnsType
    <3>2. CASE EndsTo(p, "stopped") \/ Becomes(p, "stopped")
      BY <2>1, <3>2, BecomesType, EndsToType
    <3> QED
      BY <2>2, <3>1, <3>2
  <2> QED
    BY <1>15, <2>3 DEF Lost, TypeOK, fileVars, histVars, bounds
<1>16. ASSUME NEW p \in Proc, Retries(p) PROVE TypeOK'
  <2>1. sidecar.running \in BOOLEAN /\ "read" \in Place
    BY DEF TypeOK, Place
  <2>2. proc' \in [Proc -> Process]
    BY <1>16, <2>1, LearnsType DEF Retries
  <2> QED
    BY <1>16, <2>2 DEF Retries, TypeOK, fileVars, histVars, bounds
<1>17. ASSUME NEW p \in Proc, EndingStops(p) PROVE TypeOK'
  BY <1>17, PausesType DEF EndingStops, TypeOK, Stage, histVars, bounds
<1>18. ASSUME NEW p \in Proc, Closes(p) PROVE TypeOK'
  BY <1>18 DEF Closes, TypeOK, Stage, fileVars, histVars, bounds
<1>19. ASSUME NEW p \in Proc, ClosingStops(p) PROVE TypeOK'
  BY <1>19, PausesType DEF ClosingStops, TypeOK, Stage, bounds
<1>20. ASSUME NEW p \in Proc, Releases(p) PROVE TypeOK'
  BY <1>20 DEF Releases, NoController, TypeOK, Process, Stage, histVars, bounds
<1>21. ASSUME NEW p \in Proc, Exits(p) PROVE TypeOK'
  BY <1>21, EndsToType DEF Exits, TypeOK, fileVars, histVars, bounds
<1>22. ASSUME NEW p \in Proc, Ended(p) PROVE TypeOK'
  <2>1. proc[p].then \in {"off", "failed", "stopped"}
    BY DEF TypeOK, Process
  <2> QED
    BY <1>22, <2>1, BecomesType
       DEF Ended, TypeOK, Place, fileVars, histVars, bounds
<1>23. ASSUME NEW p \in Proc, Restarts(p) PROVE TypeOK'
  BY <1>23, BecomesType DEF Restarts, TypeOK, Place, fileVars, histVars, bounds
<1>24. ASSUME NEW p \in Proc, ServiceStarts(p) PROVE TypeOK'
  BY <1>24, BecomesType, CountsType DEF ServiceStarts, TypeOK, Place, fileVars
<1>25. ASSUME NEW p \in Proc, WindowOpens(p) PROVE TypeOK'
  BY <1>25, BecomesType, CountsType DEF WindowOpens, TypeOK, Place, fileVars
<1>26. ASSUME NEW p \in Proc, ServiceStops(p) PROVE TypeOK'
  <2>1. proc' \in [Proc -> Process]
    BY <1>26, BecomesType, EndsToType DEF ServiceStops, Place
  <2>2. /\ ctl' \in [Proc -> [at : Stage, running : BOOLEAN]]
        /\ sidecar' \in [there : BOOLEAN, running : BOOLEAN]
        /\ keep' \in {"no", "asked", "left"}
    BY <1>26, PausesType DEF ServiceStops, TypeOK, Stage
  <2> QED
    BY <1>26, <2>1, <2>2, CountsType DEF ServiceStops, TypeOK
<1>27. ASSUME NEW p \in Proc, WindowCloses(p) PROVE TypeOK'
  BY <1>27, BecomesType, EndsToType, CountsType
     DEF WindowCloses, TypeOK, Place, fileVars
<1>28. ASSUME NEW p \in Proc, PressStart(p) PROVE TypeOK'
  <2>1. proc' \in [Proc -> Process]
    <3> DEFINE b == TRUE
    <3>1. b \in BOOLEAN /\ "read" \in Place /\ "call" \in Place
      BY DEF Place
    <3>2. \/ proc' = [proc EXCEPT ![p].at = "read", ![p].resume = b]
          \/ proc' = proc \/ Goes(p, "call")
      BY <1>28 DEF PressStart
    <3> HIDE DEF b
    <3>3. CASE proc' = [proc EXCEPT ![p].at = "read", ![p].resume = b]
      BY <3>1, <3>3, LearnsType
    <3> QED
      BY <3>1, <3>2, <3>3, GoesType DEF TypeOK
  <2>2. /\ ctl' \in [Proc -> [at : Stage, running : BOOLEAN]]
        /\ sidecar' \in [there : BOOLEAN, running : BOOLEAN]
        /\ keep' \in {"no", "asked", "left"}
    BY <1>28, PollsType DEF PressStart, TypeOK
  <2> QED
    BY <1>28, <2>1, <2>2, CountsType DEF PressStart, TypeOK
<1>29. ASSUME NEW p \in Proc, ClientStarts(p) PROVE TypeOK'
  BY <1>29, PollsType, CountsType DEF ClientStarts, TypeOK
<1>30. ASSUME NEW p \in Proc, ServerStop(p) PROVE TypeOK'
  BY <1>30, PausesType, CountsType DEF ServerStop, TypeOK, Stage
<1>31. ASSUME NEW p \in Proc, ShutdownController(p) PROVE TypeOK'
  BY <1>31, CountsType DEF ShutdownController, TypeOK, Stage
<1>32. ASSUME NEW p \in Proc, Killed(p) PROVE TypeOK'
  BY <1>32, BecomesType, CountsType DEF Killed, NoController, TypeOK, Place, Stage
<1> QED
  BY <1>0, <1>1, <1>2, <1>3, <1>4, <1>5, <1>6, <1>7, <1>8, <1>9, <1>10, <1>11,
     <1>12, <1>13, <1>14, <1>15, <1>16, <1>17, <1>18, <1>19, <1>20, <1>21,
     <1>22, <1>23, <1>24, <1>25, <1>26, <1>27, <1>28, <1>29, <1>30, <1>31, <1>32
     DEF Next, Runs, Ends, Operators, Faults

-----------------------------------------------------------------------------
(* The lock and the controllers *)

\* A process that moves between other places than "new" leaves HoldInv alone.
LEMMA HoldMoves ==
  ASSUME TypeOK, HoldInv, UNCHANGED <<ctl, lease>>, NEW p \in Proc, ~At(p, "new"),
         proc' \in [Proc -> Process], proc'[p].at # "new",
         \A q \in Proc \ {p} : proc'[q] = proc[q]
  PROVE  HoldInv'
BY DEF HoldInv, At, TypeOK

\* So does a controller that starts or stops polling, or goes on to end.
LEMMA HoldTurns ==
  ASSUME TypeOK, HoldInv, NEW q \in Proc, ctl[q].at \notin {"none", "new"},
         ctl'[q].at \notin {"none", "new"},
         \A r \in Proc \ {q} : ctl'[r] = ctl[r],
         lease' = lease, proc' \in [Proc -> Process],
         \A r \in Proc : proc'[r].at = "new" <=> proc[r].at = "new"
  PROVE  HoldInv'
BY DEF HoldInv, At, TypeOK

\* The new owner; the others are told nothing but what they hold is stale.
LEMMA ListensMoves ==
  ASSUME TypeOK, NEW p \in Proc, Listens(p), NEW q \in Proc
  PROVE  /\ proc'[q].at = IF q = p THEN "made" ELSE proc[q].at
         /\ proc'[q].once = proc[q].once /\ proc'[q].then = proc[q].then
<1>1. PICK same \in {FALSE, sidecar.there} :
        proc' = [r \in Proc |-> [proc[r] EXCEPT
                   !.at = IF r = p THEN "made" ELSE @,
                   !.held = @ /\ same, !.known = FALSE]]
  BY DEF Listens
<1> DEFINE held == proc[q].held /\ same
<1>2. proc'[q] = [proc[q] EXCEPT !.at = IF q = p THEN "made" ELSE @,
                    !.held = held, !.known = FALSE]
  BY <1>1
<1> HIDE DEF held
<1>3. proc[q] \in Process
  BY DEF TypeOK
<1> QED
  BY <1>2, <1>3 DEF Process

LEMMA HoldInit == Init => HoldInv
BY DEF Init, HoldInv, At, NoController, Fresh

LEMMA HoldStep == TypeOK /\ TypeOK' /\ HoldInv /\ [Next]_vars => HoldInv'
<1> SUFFICES ASSUME TypeOK, TypeOK', HoldInv, [Next]_vars PROVE HoldInv'
  OBVIOUS
<1>0. CASE UNCHANGED vars
  BY <1>0 DEF HoldInv, At, vars, fileVars
<1>1. ASSUME NEW p \in Proc, Reads(p) PROVE HoldInv'
  BY <1>1, HoldMoves DEF Reads, fileVars, TypeOK, At
<1>2. ASSUME NEW p \in Proc, GivesUp(p) PROVE HoldInv'
  BY <1>2, HoldMoves DEF GivesUp, Becomes, Fresh, fileVars, TypeOK, At
<1>3. ASSUME NEW p \in Proc, Acquires(p) PROVE HoldInv'
  <2>1. /\ lease = None /\ lease' = p /\ p # None /\ At(p, "try")
        /\ ctl' = [ctl EXCEPT ![p] = [at |-> "new", running |-> FALSE]]
        /\ proc' = [proc EXCEPT ![p].at = "new"]
    BY <1>3, OwnersAssumption DEF Acquires, Free, Tries, Goes
  <2>2. \A q \in Proc : ctl[q].at = "none" /\ ~ctl[q].running
    BY <2>1, OwnersAssumption DEF HoldInv, TypeOK
  <2> QED
    BY <2>1, <2>2 DEF HoldInv, TypeOK, At
<1>4. ASSUME NEW p \in Proc, Busy(p) PROVE HoldInv'
  BY <1>4, HoldMoves DEF Busy, Tries, Goes, fileVars, TypeOK, At
<1>5. ASSUME NEW p \in Proc, Listens(p) PROVE HoldInv'
  <2>1. \A q \in Proc \ {p} : proc'[q].at = proc[q].at
    BY <1>5, ListensMoves
  <2>2. proc'[p].at = "made"
    BY <1>5, ListensMoves
  <2>3. ctl[p].at = "new" /\ ctl' = [ctl EXCEPT ![p].at = "up"] /\ lease' = lease
    BY <1>5 DEF Listens, HoldInv
  <2> QED
    BY <2>1, <2>2, <2>3 DEF HoldInv, TypeOK, At
<1>6. ASSUME NEW p \in Proc, Owns(p) PROVE HoldInv'
  BY <1>6, HoldMoves DEF Owns, Becomes, Fresh, fileVars, TypeOK, At
<1>7. ASSUME NEW p \in Proc, StartsOwn(p) PROVE HoldInv'
  <2>1. proc'[p].at # "new" /\ \A q \in Proc \ {p} : proc'[q] = proc[q]
    BY <1>7 DEF StartsOwn, Becomes, EndsTo, Fresh, TypeOK
  <2>2. CASE Serving(p)
    BY <1>7, <2>1, <2>2, HoldTurns
       DEF StartsOwn, Serving, Polls, At, TypeOK, Stage
  <2>3. CASE ~Serving(p)
    BY <1>7, <2>1, <2>3, HoldMoves DEF StartsOwn, At, TypeOK
  <2> QED
    BY <2>2, <2>3
<1>8. ASSUME NEW p \in Proc, StartFails(p) PROVE HoldInv'
  BY <1>8, HoldMoves DEF StartFails, EndsTo, Fresh, fileVars, TypeOK, At
<1>9. ASSUME NEW p \in Proc, NEW q \in Proc, Connects(p, q) PROVE HoldInv'
  BY <1>9, HoldMoves DEF Connects, Fresh, fileVars, TypeOK, At
<1>10. ASSUME NEW p \in Proc, WaitFails(p) PROVE HoldInv'
  <2>1. proc'[p].at # "new" /\ \A q \in Proc \ {p} : proc'[q] = proc[q]
    BY <1>10 DEF WaitFails, Goes, Becomes, Fresh, TypeOK, Process
  <2> QED
    BY <1>10, <2>1, HoldMoves DEF WaitFails, fileVars, TypeOK, At
<1>11. ASSUME NEW p \in Proc, StartsRemote(p) PROVE HoldInv'
  <2>1. At(p, "call") /\ proc'[p].at # "new" /\ lease' = lease
        /\ \A q \in Proc \ {p} : proc'[q] = proc[q]
    <3>1. CASE proc' = [proc EXCEPT ![p].at = "attached", ![p].intent = TRUE]
      BY <1>11, <3>1 DEF StartsRemote, TypeOK, Process
    <3>2. CASE Becomes(p, AfterFailure(p))
      BY <1>11, <3>2 DEF StartsRemote, Becomes, AfterFailure, Fresh, TypeOK
    <3> QED
      BY <1>11, <3>1, <3>2 DEF StartsRemote
  <2>2. CASE \E q \in Proc : Reaches(p, q) /\ Polls(q)
    <3>1. PICK q \in Proc : Reaches(p, q) /\ Polls(q)
      BY <2>2
    <3> QED
      <4>1. \A r \in Proc : proc'[r].at = "new" <=> proc[r].at = "new"
        BY <2>1 DEF At
      <4>2. ctl[q].at = "up" /\ ctl' = [ctl EXCEPT ![q].running = TRUE]
        BY <3>1 DEF Reaches, Serving, Polls
      <4> QED
        BY <2>1, <4>1, <4>2, HoldTurns DEF TypeOK
  <2>3. CASE ctl' = ctl
    BY <2>1, <2>3, HoldMoves DEF At, TypeOK
  <2> QED
    BY <1>11, <2>2, <2>3 DEF StartsRemote
<1>12. ASSUME NEW p \in Proc, NEW q \in Proc, Hears(p, q) PROVE HoldInv'
  BY <1>12, HoldMoves DEF Hears, fileVars, TypeOK, At
<1>13. ASSUME NEW p \in Proc, HearsNothing(p) PROVE HoldInv'
  BY <1>13, HoldMoves DEF HearsNothing, fileVars, TypeOK, At
<1>14. ASSUME NEW p \in Proc, NEW q \in Proc, Reconnects(p, q) PROVE HoldInv'
  BY <1>14, HoldMoves DEF Reconnects, fileVars, TypeOK, At
<1>15. ASSUME NEW p \in Proc, Lost(p) PROVE HoldInv'
  <2>1. proc'[p].at # "new" /\ \A q \in Proc \ {p} : proc'[q] = proc[q]
    <3>1. CASE EndsTo(p, "stopped") \/ Becomes(p, "stopped")
      BY <3>1 DEF EndsTo, Becomes, Fresh, TypeOK
    <3>2. CASE proc' = [proc EXCEPT ![p].at = "read", ![p].resume = Remembered(p)]
      BY <3>2 DEF TypeOK, Process
    <3> QED
      BY <1>15, <3>1, <3>2 DEF Lost
  <2> QED
    BY <1>15, <2>1, HoldMoves DEF Lost, fileVars, TypeOK, At
<1>16. ASSUME NEW p \in Proc, Retries(p) PROVE HoldInv'
  BY <1>16, HoldMoves DEF Retries, RetryDue, fileVars, TypeOK, At
<1>17. ASSUME NEW p \in Proc, EndingStops(p) PROVE HoldInv'
  BY <1>17, HoldTurns DEF EndingStops, Pauses, TypeOK, Stage
<1>18. ASSUME NEW p \in Proc, Closes(p) PROVE HoldInv'
  BY <1>18, HoldTurns DEF Closes, Serving, fileVars, TypeOK, Stage
<1>19. ASSUME NEW p \in Proc, ClosingStops(p) PROVE HoldInv'
  BY <1>19, HoldTurns DEF ClosingStops, Pauses, TypeOK, Stage
<1>20. ASSUME NEW p \in Proc, Releases(p) PROVE HoldInv'
  <2>1. ctl[p].at = "quiet" /\ lease' = None
        /\ ctl' = [ctl EXCEPT ![p] = [at |-> "none", running |-> FALSE]]
        /\ \A q \in Proc : proc'[q].at = proc[q].at
    BY <1>20 DEF Releases, NoController, TypeOK, Process
  <2>2. \A q \in Proc \ {p} : ctl[q].at = "none"
    BY <2>1 DEF HoldInv
  <2> QED
    BY <2>1, <2>2 DEF HoldInv, TypeOK, At
<1>21. ASSUME NEW p \in Proc, Exits(p) PROVE HoldInv'
  BY <1>21, HoldMoves DEF Exits, EndsTo, Fresh, fileVars, TypeOK, At
<1>22. ASSUME NEW p \in Proc, Ended(p) PROVE HoldInv'
  <2>1. proc[p].then # "new"
    BY DEF TypeOK, Process
  <2> QED
    BY <1>22, <2>1, HoldMoves DEF Ended, Becomes, Fresh, fileVars, TypeOK, At
<1>23. ASSUME NEW p \in Proc, Restarts(p) PROVE HoldInv'
  BY <1>23, HoldMoves DEF Restarts, Becomes, Fresh, fileVars, TypeOK, At
<1>24. ASSUME NEW p \in Proc, ServiceStarts(p) PROVE HoldInv'
  BY <1>24, HoldMoves DEF ServiceStarts, Becomes, Fresh, fileVars, TypeOK, At
<1>25. ASSUME NEW p \in Proc, WindowOpens(p) PROVE HoldInv'
  BY <1>25, HoldMoves DEF WindowOpens, Becomes, Fresh, fileVars, TypeOK, At
<1>26. ASSUME NEW p \in Proc, ServiceStops(p) PROVE HoldInv'
  <2>1. ~At(p, "new") /\ proc'[p].at # "new" /\ lease' = lease
        /\ \A q \in Proc \ {p} : proc'[q] = proc[q]
    BY <1>26 DEF ServiceStops, InMainLoop, Becomes, EndsTo, Fresh, TypeOK, At
  <2>2. CASE \E q \in Proc : Reaches(p, q) /\ Pauses(q, "up")
    <3>1. PICK q \in Proc : Reaches(p, q) /\ Pauses(q, "up")
      BY <2>2
    <3> QED
      <4>1. \A r \in Proc : proc'[r].at = "new" <=> proc[r].at = "new"
        BY <2>1 DEF At
      <4>2. ctl[q].at = "up"
            /\ ctl' = [ctl EXCEPT ![q].running = FALSE, ![q].at = "up"]
        BY <3>1 DEF Reaches, Serving, Pauses
      <4> QED
        BY <2>1, <4>1, <4>2, HoldTurns DEF TypeOK
  <2>3. CASE ctl' = ctl
    BY <2>1, <2>3, HoldMoves DEF TypeOK
  <2> QED
    BY <1>26, <2>2, <2>3 DEF ServiceStops
<1>27. ASSUME NEW p \in Proc, WindowCloses(p) PROVE HoldInv'
  BY <1>27, HoldMoves
     DEF WindowCloses, InMainLoop, Becomes, EndsTo, Fresh, fileVars, TypeOK, At
<1>28. ASSUME NEW p \in Proc, PressStart(p) PROVE HoldInv'
  <2>1. CASE Serving(p) /\ Polls(p) /\ UNCHANGED proc
    BY <1>28, <2>1, HoldTurns DEF PressStart, Serving, Polls, TypeOK, Stage
  <2>2. CASE UNCHANGED ctl
    <3>1. proc'[p].at = "new" <=> proc[p].at = "new"
      BY <1>28 DEF PressStart, Goes, At, TypeOK, Process
    <3>2. \A q \in Proc \ {p} : proc'[q] = proc[q]
      BY <1>28 DEF PressStart, Goes, TypeOK
    <3> QED
      BY <1>28, <2>2, <3>1, <3>2 DEF PressStart, HoldInv, At
  <2> QED
    BY <1>28, <2>1, <2>2 DEF PressStart
<1>29. ASSUME NEW p \in Proc, ClientStarts(p) PROVE HoldInv'
  BY <1>29, HoldTurns DEF ClientStarts, Serving, Polls, TypeOK, Stage
<1>30. ASSUME NEW p \in Proc, ServerStop(p) PROVE HoldInv'
  BY <1>30, HoldTurns DEF ServerStop, Serving, Pauses, TypeOK, Stage
<1>31. ASSUME NEW p \in Proc, ShutdownController(p) PROVE HoldInv'
  BY <1>31, HoldTurns DEF ShutdownController, Serving, TypeOK, Stage
<1>32. ASSUME NEW p \in Proc, Killed(p) PROVE HoldInv'
  <2>1. /\ ctl' = [ctl EXCEPT ![p] = [at |-> "none", running |-> FALSE]]
        /\ lease' = IF lease = p THEN None ELSE lease
        /\ proc'[p].at # "new" /\ \A q \in Proc \ {p} : proc'[q] = proc[q]
    BY <1>32 DEF Killed, NoController, Becomes, Fresh, TypeOK
  <2>2. \A q \in Proc \ {p} : ctl[q].at # "none" => lease' = q
    BY <2>1 DEF HoldInv
  <2> QED
    BY <2>1, <2>2 DEF HoldInv, TypeOK, At
<1> QED
  BY <1>0, <1>1, <1>2, <1>3, <1>4, <1>5, <1>6, <1>7, <1>8, <1>9, <1>10, <1>11,
     <1>12, <1>13, <1>14, <1>15, <1>16, <1>17, <1>18, <1>19, <1>20, <1>21,
     <1>22, <1>23, <1>24, <1>25, <1>26, <1>27, <1>28, <1>29, <1>30, <1>31, <1>32
     DEF Next, Runs, Ends, Operators, Faults

-----------------------------------------------------------------------------
(* Services that were attached *)

LEMMA OnceMoves ==
  ASSUME OnceInv, NEW p \in Proc, \A q \in Proc \ {p} : proc'[q] = proc[q],
         p \in Service /\ proc'[p].at \in {"attached", "call"} => proc'[p].once
  PROVE  OnceInv'
BY DEF OnceInv, Proc

LEMMA OnceInit == Init => OnceInv
BY DEF Init, OnceInv, Fresh, Proc

LEMMA OnceStep == TypeOK /\ OnceInv /\ [Next]_vars => OnceInv'
<1> SUFFICES ASSUME TypeOK, OnceInv, [Next]_vars PROVE OnceInv'
  OBVIOUS
<1>0. CASE UNCHANGED vars
  BY <1>0 DEF OnceInv, vars
<1>1. ASSUME NEW p \in Proc, Reads(p) PROVE OnceInv'
  BY <1>1, OnceMoves DEF Reads, TypeOK, Process
<1>2. ASSUME NEW p \in Proc, GivesUp(p) PROVE OnceInv'
  BY <1>2, OnceMoves DEF GivesUp, Becomes, Fresh, TypeOK
<1>3. ASSUME NEW p \in Proc, Acquires(p) PROVE OnceInv'
  BY <1>3, OnceMoves DEF Acquires, Goes, TypeOK, Process
<1>4. ASSUME NEW p \in Proc, Busy(p) PROVE OnceInv'
  BY <1>4, OnceMoves DEF Busy, Goes, TypeOK, Process
<1>5. ASSUME NEW p \in Proc, Listens(p) PROVE OnceInv'
  <2>1. \A q \in Proc : /\ proc'[q].at = IF q = p THEN "made" ELSE proc[q].at
                        /\ proc'[q].once = proc[q].once
    BY <1>5, ListensMoves
  <2> QED
    BY <2>1 DEF OnceInv, Proc
<1>6. ASSUME NEW p \in Proc, Owns(p) PROVE OnceInv'
  BY <1>6, OnceMoves DEF Owns, Becomes, Fresh, TypeOK
<1>7. ASSUME NEW p \in Proc, StartsOwn(p) PROVE OnceInv'
  BY <1>7, OnceMoves DEF StartsOwn, EndsTo, Becomes, Fresh, TypeOK
<1>8. ASSUME NEW p \in Proc, StartFails(p) PROVE OnceInv'
  BY <1>8, OnceMoves DEF StartFails, EndsTo, Fresh, TypeOK
<1>9. ASSUME NEW p \in Proc, NEW q \in Proc, Connects(p, q) PROVE OnceInv'
  BY <1>9, OnceMoves DEF Connects, Fresh, TypeOK
<1>10. ASSUME NEW p \in Proc, WaitFails(p) PROVE OnceInv'
  BY <1>10, OnceMoves DEF WaitFails, Goes, Becomes, Fresh, TypeOK, Process
<1>11. ASSUME NEW p \in Proc, StartsRemote(p) PROVE OnceInv'
  <2>1. CASE proc' = [proc EXCEPT ![p].at = "attached", ![p].intent = TRUE]
    <3>1. p \in Service => proc[p].once
      BY <1>11 DEF StartsRemote, OnceInv, At
    <3> QED
      BY <2>1, <3>1, OnceMoves DEF TypeOK, Process
  <2>2. CASE Becomes(p, AfterFailure(p))
    BY <2>2, OnceMoves DEF AfterFailure, Becomes, Fresh, TypeOK
  <2> QED
    BY <1>11, <2>1, <2>2 DEF StartsRemote
<1>12. ASSUME NEW p \in Proc, NEW q \in Proc, Hears(p, q) PROVE OnceInv'
  <2>1. proc'[p].once = proc[p].once /\ proc[p].at = "attached"
    BY <1>12 DEF Hears, At, TypeOK, Process
  <2>2. p \in Service => proc[p].once
    BY <2>1 DEF OnceInv
  <2> QED
    BY <1>12, <2>1, <2>2, OnceMoves DEF Hears, TypeOK
<1>13. ASSUME NEW p \in Proc, HearsNothing(p) PROVE OnceInv'
  <2>1. proc'[p].at \in {"try", "lost"} /\ \A q \in Proc \ {p} : proc'[q] = proc[q]
    BY <1>13 DEF HearsNothing, TypeOK, Process
  <2> QED
    BY <2>1, OnceMoves
<1>14. ASSUME NEW p \in Proc, p \in Window, NEW q \in Proc, Reconnects(p, q) PROVE OnceInv'
  BY <1>14, OnceMoves, OwnersAssumption DEF Reconnects, TypeOK
<1>15. ASSUME NEW p \in Proc, Lost(p) PROVE OnceInv'
  <2>1. p \notin Service
    BY <1>15, OwnersAssumption DEF Lost
  <2>2. \A q \in Proc \ {p} : proc'[q] = proc[q]
    BY <1>15 DEF Lost, EndsTo, Becomes, TypeOK
  <2> QED
    BY <2>1, <2>2, OnceMoves
<1>16. ASSUME NEW p \in Proc, Retries(p) PROVE OnceInv'
  BY <1>16, OnceMoves, OwnersAssumption DEF Retries, TypeOK
<1>17. ASSUME NEW p \in Proc, EndingStops(p) PROVE OnceInv'
  BY <1>17 DEF OnceInv, EndingStops
<1>18. ASSUME NEW p \in Proc, Closes(p) PROVE OnceInv'
  BY <1>18 DEF OnceInv, Closes
<1>19. ASSUME NEW p \in Proc, ClosingStops(p) PROVE OnceInv'
  BY <1>19 DEF OnceInv, ClosingStops
<1>20. ASSUME NEW p \in Proc, Releases(p) PROVE OnceInv'
  <2>1. \A q \in Proc : /\ proc'[q].at = proc[q].at
                        /\ proc'[q].once = proc[q].once
    BY <1>20 DEF Releases, TypeOK, Process
  <2> QED
    BY <2>1 DEF OnceInv, Proc
<1>21. ASSUME NEW p \in Proc, Exits(p) PROVE OnceInv'
  BY <1>21, OnceMoves DEF Exits, EndsTo, Fresh, TypeOK
<1>22. ASSUME NEW p \in Proc, Ended(p) PROVE OnceInv'
  <2>1. proc[p].then \in {"off", "failed", "stopped"}
    BY DEF TypeOK, Process
  <2> QED
    BY <1>22, <2>1, OnceMoves DEF Ended, Becomes, Fresh, TypeOK
<1>23. ASSUME NEW p \in Proc, Restarts(p) PROVE OnceInv'
  BY <1>23, OnceMoves DEF Restarts, Becomes, Fresh, TypeOK
<1>24. ASSUME NEW p \in Proc, ServiceStarts(p) PROVE OnceInv'
  BY <1>24, OnceMoves DEF ServiceStarts, Becomes, Fresh, TypeOK
<1>25. ASSUME NEW p \in Proc, WindowOpens(p) PROVE OnceInv'
  BY <1>25, OnceMoves DEF WindowOpens, Becomes, Fresh, TypeOK
<1>26. ASSUME NEW p \in Proc, ServiceStops(p) PROVE OnceInv'
  BY <1>26, OnceMoves DEF ServiceStops, EndsTo, Becomes, Fresh, TypeOK
<1>27. ASSUME NEW p \in Proc, WindowCloses(p) PROVE OnceInv'
  BY <1>27, OnceMoves DEF WindowCloses, EndsTo, Becomes, Fresh, TypeOK
<1>28. ASSUME NEW p \in Proc, PressStart(p) PROVE OnceInv'
  <2>1. p \notin Service
    BY <1>28, OwnersAssumption DEF PressStart
  <2>2. \A q \in Proc \ {p} : proc'[q] = proc[q]
    BY <1>28 DEF PressStart, Goes, TypeOK
  <2> QED
    BY <2>1, <2>2, OnceMoves
<1>29. ASSUME NEW p \in Proc, ClientStarts(p) PROVE OnceInv'
  BY <1>29 DEF OnceInv, ClientStarts
<1>30. ASSUME NEW p \in Proc, ServerStop(p) PROVE OnceInv'
  BY <1>30 DEF OnceInv, ServerStop
<1>31. ASSUME NEW p \in Proc, ShutdownController(p) PROVE OnceInv'
  BY <1>31 DEF OnceInv, ShutdownController
<1>32. ASSUME NEW p \in Proc, Killed(p) PROVE OnceInv'
  BY <1>32, OnceMoves DEF Killed, Becomes, Fresh, TypeOK
<1> QED
  BY <1>0, <1>1, <1>2, <1>3, <1>4, <1>5, <1>6, <1>7, <1>8, <1>9, <1>10,
     <1>11, <1>12, <1>13, <1>14, <1>15, <1>16, <1>17, <1>18, <1>19, <1>20,
     <1>21, <1>22, <1>23, <1>24, <1>25, <1>26, <1>27, <1>28, <1>29, <1>30,
     <1>31, <1>32
     DEF Next, Runs, Ends, Operators, Faults

-----------------------------------------------------------------------------
(* The shutdown is final *)

LEMMA FinalMoves ==
  ASSUME FinalInv, NEW p \in Proc, UNCHANGED <<ctl, marker, finished>>,
         \A q \in Proc \ {p} : proc'[q] = proc[q],
         finished => Settled(p)'
  PROVE  FinalInv'
BY DEF FinalInv, Settled, WindsDown, At

\* A controller goes on to its end.
LEMMA FinalEnds ==
  ASSUME FinalInv, NEW q \in Proc, UNCHANGED <<proc, marker, finished>>,
         \A r \in Proc \ {q} : ctl'[r] = ctl[r],
         ctl'[q].at \in {"ended", "closing", "quiet"},
         finished => ~ctl'[q].running
  PROVE  FinalInv'
BY DEF FinalInv, Settled, WindsDown, At

LEMMA FinalStep ==
  TypeOK /\ HoldInv /\ OnceInv /\ FinalInv /\ [Next]_vars => FinalInv'
<1> SUFFICES ASSUME TypeOK, HoldInv, OnceInv, FinalInv, [Next]_vars
             PROVE  FinalInv'
  OBVIOUS
<1>0. CASE UNCHANGED vars
  BY <1>0 DEF FinalInv, Settled, WindsDown, At, vars, fileVars, histVars
<1>1. ASSUME NEW p \in Proc, Reads(p) PROVE FinalInv'
  BY <1>1 DEF FinalInv, Settled, At, histVars, Reads
<1>2. ASSUME NEW p \in Proc, GivesUp(p) PROVE FinalInv'
  BY <1>2, FinalMoves
     DEF GivesUp, Becomes, Fresh, Settled, At, fileVars, histVars, TypeOK
<1>3. ASSUME NEW p \in Proc, Acquires(p) PROVE FinalInv'
  BY <1>3 DEF FinalInv, Settled, At, histVars, Acquires, Tries
<1>4. ASSUME NEW p \in Proc, Busy(p) PROVE FinalInv'
  BY <1>4 DEF FinalInv, Settled, At, histVars, Busy, Tries
<1>5. ASSUME NEW p \in Proc, Listens(p) PROVE FinalInv'
  BY <1>5 DEF FinalInv, Settled, At, histVars, Listens
<1>6. ASSUME NEW p \in Proc, Owns(p) PROVE FinalInv'
  BY <1>6 DEF FinalInv, Settled, At, histVars, Owns
<1>7. ASSUME NEW p \in Proc, StartsOwn(p) PROVE FinalInv'
  BY <1>7 DEF FinalInv, Settled, At, histVars, StartsOwn
<1>8. ASSUME NEW p \in Proc, StartFails(p) PROVE FinalInv'
  BY <1>8 DEF FinalInv, Settled, At, histVars, StartFails
<1>9. ASSUME NEW p \in Proc, NEW q \in Proc, Connects(p, q) PROVE FinalInv'
  BY <1>9 DEF FinalInv, Settled, At, histVars, Connects
<1>10. ASSUME NEW p \in Proc, WaitFails(p) PROVE FinalInv'
  BY <1>10 DEF FinalInv, Settled, At, histVars, WaitFails
<1>11. ASSUME NEW p \in Proc, StartsRemote(p) PROVE FinalInv'
  BY <1>11 DEF FinalInv, Settled, At, histVars, StartsRemote
<1>12. ASSUME NEW p \in Proc, NEW q \in Proc, Hears(p, q) PROVE FinalInv'
  <2>1. /\ proc'[p].at = proc[p].at /\ proc'[p].once = proc[p].once
        /\ proc'[p].then = proc[p].then
    BY <1>12 DEF Hears, TypeOK, Process
  <2>2. finished => Settled(p)'
    BY <2>1 DEF FinalInv, Settled, At
  <2> QED
    BY <1>12, <2>2, FinalMoves DEF Hears, fileVars, histVars, TypeOK
<1>13. ASSUME NEW p \in Proc, HearsNothing(p) PROVE FinalInv'
  <2>1. /\ proc'[p].at = IF p \in Service THEN "try" ELSE "lost"
        /\ proc'[p].once = proc[p].once /\ proc[p].at = "attached"
    BY <1>13 DEF HearsNothing, At, TypeOK, Process
  <2>2. p \in Service => proc[p].once
    BY <2>1 DEF OnceInv
  <2>3. Settled(p)'
    BY <2>1, <2>2 DEF Settled, At
  <2> QED
    BY <1>13, <2>3, FinalMoves DEF HearsNothing, fileVars, histVars, TypeOK
<1>14. ASSUME NEW p \in Proc, p \in Window, NEW q \in Proc, Reconnects(p, q) PROVE FinalInv'
  <2>1. proc'[p].at = "attached"
    BY <1>14 DEF Reconnects, TypeOK, Process
  <2>2. Settled(p)'
    BY <2>1 DEF Settled, At
  <2> QED
    BY <1>14, <2>2, FinalMoves DEF Reconnects, fileVars, histVars, TypeOK
<1>15. ASSUME NEW p \in Proc, Lost(p) PROVE FinalInv'
  <2>1. CASE marker
    BY <1>15, <2>1, FinalMoves
       DEF Lost, MayAttach, EndsTo, Becomes, Fresh, Settled, At, fileVars,
           histVars, TypeOK
  <2>2. CASE ~marker
    BY <1>15, <2>2 DEF Lost, FinalInv, histVars
  <2> QED
    BY <2>1, <2>2
<1>16. ASSUME NEW p \in Proc, Retries(p) PROVE FinalInv'
  BY <1>16 DEF Retries, MayAttach, FinalInv, histVars
<1>17. ASSUME NEW p \in Proc, EndingStops(p) PROVE FinalInv'
  BY <1>17, FinalEnds DEF EndingStops, Pauses, histVars, TypeOK
<1>18. ASSUME NEW p \in Proc, Closes(p) PROVE FinalInv'
  <2>1. finished => ctl[p].at = "ended" /\ ~ctl[p].running
    BY <1>18 DEF Closes, Serving, FinalInv, WindsDown
  <2> QED
    BY <1>18, <2>1, FinalEnds DEF Closes, fileVars, histVars, TypeOK
<1>19. ASSUME NEW p \in Proc, ClosingStops(p) PROVE FinalInv'
  BY <1>19, FinalEnds DEF ClosingStops, Pauses, TypeOK
<1>20. ASSUME NEW p \in Proc, Releases(p) PROVE FinalInv'
  <2>1. \A q \in Proc : /\ proc'[q].at = proc[q].at
                        /\ proc'[q].once = proc[q].once
                        /\ proc'[q].then = proc[q].then
    BY <1>20 DEF Releases, TypeOK, Process
  <2>2. \A q \in Proc : Settled(q) => Settled(q)'
    BY <2>1 DEF Settled, At
  <2>3. \A q \in Proc : WindsDown(q) => WindsDown(q)'
    BY <1>20 DEF Releases, NoController, WindsDown, TypeOK
  <2> QED
    BY <1>20, <2>2, <2>3 DEF Releases, FinalInv, histVars
<1>21. ASSUME NEW p \in Proc, Exits(p) PROVE FinalInv'
  BY <1>21, FinalMoves
     DEF Exits, EndsTo, Fresh, Settled, At, fileVars, histVars, TypeOK
<1>22. ASSUME NEW p \in Proc, Ended(p) PROVE FinalInv'
  <2>1. finished => proc[p].then \in {"off", "stopped"}
    BY <1>22 DEF Ended, FinalInv, Settled, TypeOK, Process
  <2> QED
    BY <1>22, <2>1, FinalMoves
       DEF Ended, Becomes, Fresh, Settled, At, fileVars, histVars, TypeOK
<1>23. ASSUME NEW p \in Proc, Restarts(p) PROVE FinalInv'
  BY <1>23 DEF FinalInv, Settled, At, histVars, Restarts
<1>24. ASSUME NEW p \in Proc, ServiceStarts(p) PROVE FinalInv'
  BY <1>24 DEF FinalInv, ServiceStarts
<1>25. ASSUME NEW p \in Proc, WindowOpens(p) PROVE FinalInv'
  BY <1>25 DEF FinalInv, WindowOpens
<1>26. ASSUME NEW p \in Proc, ServiceStops(p) PROVE FinalInv'
  <2>1. CASE UNCHANGED <<ctl, sidecar>>
    BY <1>26, <2>1, FinalMoves
       DEF ServiceStops, EndsTo, Becomes, Fresh, Settled, At, TypeOK
  <2>2. CASE \E q \in Proc : Reaches(p, q)
    BY <1>26, <2>2 DEF ServiceStops, Reaches, Serving, FinalInv, WindsDown
  <2> QED
    BY <1>26, <2>1, <2>2 DEF ServiceStops
<1>27. ASSUME NEW p \in Proc, WindowCloses(p) PROVE FinalInv'
  BY <1>27, FinalMoves DEF WindowCloses, EndsTo, Becomes, Fresh, Settled, At,
     fileVars, histVars, TypeOK
<1>28. ASSUME NEW p \in Proc, PressStart(p) PROVE FinalInv'
  BY <1>28 DEF FinalInv, PressStart
<1>29. ASSUME NEW p \in Proc, ClientStarts(p) PROVE FinalInv'
  BY <1>29 DEF FinalInv, ClientStarts
<1>30. ASSUME NEW p \in Proc, ServerStop(p) PROVE FinalInv'
  BY <1>30 DEF ServerStop, Serving, FinalInv, WindsDown
<1>31. ASSUME NEW p \in Proc, ShutdownController(p) PROVE FinalInv'
  <2>1. lease = p /\ ctl' = [ctl EXCEPT ![p].at = "ending"]
    BY <1>31 DEF ShutdownController, Serving, HoldInv
  <2>2. \A q \in Proc \ {p} : ctl[q].at = "none" /\ ~ctl[q].running
    BY <2>1 DEF HoldInv
  <2>3. \A q \in Proc : WindsDown(q)'
    BY <2>1, <2>2 DEF WindsDown, TypeOK
  <2>4. finished' => \A q \in Proc : Settled(q)'
    BY <1>31 DEF ShutdownController, Settled, At
  <2> QED
    BY <1>31, <2>3, <2>4 DEF ShutdownController, FinalInv
<1>32. ASSUME NEW p \in Proc, Killed(p) PROVE FinalInv'
  BY <1>32 DEF FinalInv, Killed
<1> QED
  BY <1>0, <1>1, <1>2, <1>3, <1>4, <1>5, <1>6, <1>7, <1>8, <1>9, <1>10,
     <1>11, <1>12, <1>13, <1>14, <1>15, <1>16, <1>17, <1>18, <1>19, <1>20,
     <1>21, <1>22, <1>23, <1>24, <1>25, <1>26, <1>27, <1>28, <1>29, <1>30,
     <1>31, <1>32
     DEF Next, Runs, Ends, Operators, Faults

-----------------------------------------------------------------------------
(* The theorems *)

\* Every process, controller and file is in one of the states the code has for
\* it, however the processes start, take over, are killed and end.
THEOREM TypeCorrect == Spec => []TypeOK
<1> QED
  BY TypeInit, TypeStep, PTL DEF Spec

\* Every reachable state satisfies the inductive invariants: whoever has a
\* controller has the lock, and what a shutdown leaves (run_managed in mcp/mod.rs,
\* gui/src/server.rs).
THEOREM Invariant == Spec => [](TypeOK /\ HoldInv /\ OnceInv /\ FinalInv)
<1>1. Init => FinalInv
  BY DEF Init, FinalInv
<1> QED
  BY <1>1, TypeInit, TypeStep, HoldInit, HoldStep, OnceInit, OnceStep,
     FinalStep, PTL DEF Spec

\* Never two runtimes on one configuration: only the process that has the lock
\* polls, and it gives the lock back, or loses it, when it no longer does.
THEOREM OneRuntimeHolds == Spec => []OneRuntime
<1>1. ASSUME HoldInv PROVE OneRuntime
  <2> DEFINE R == {p \in Proc : ctl[p].running}
  <2>1. R \in SUBSET {lease}
    BY <1>1 DEF HoldInv
  <2>2. IsFiniteSet({lease}) /\ Cardinality({lease}) = 1
    BY FS_Singleton
  <2>3. IsFiniteSet(R) /\ Cardinality(R) <= Cardinality({lease})
    BY <2>1, <2>2, FS_Subset
  <2> QED
    BY <2>2, <2>3 DEF OneRuntime
<1> QED
  BY <1>1, Invariant, PTL

\* shutdown_controller is not undone by the processes that were attached when
\* it was called: none makes a controller, and polling goes on only until the
\* one that was shut down has stopped its runtime.
THEOREM ShutdownFinal == Spec => []ShutdownIsFinal
<1>1. FinalInv => ShutdownIsFinal
  BY DEF FinalInv, Settled, WindsDown, ShutdownIsFinal
<1> QED
  BY <1>1, Invariant, PTL
==============================================================================
