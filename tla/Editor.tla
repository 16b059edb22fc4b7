--------------------------------- MODULE Editor ---------------------------------
(***************************************************************************)
(* The configuration as a document: windows of the configurator that show  *)
(* it, edit it and save it, and the MCP controllers that edit the same     *)
(* files for their clients.  A window works in one thread, frame by frame, *)
(* but between two accesses to the disk in one frame others may write.     *)
(*                                                                         *)
(* A content is the set of the changes somebody has made to it.  A change  *)
(* in Flawed makes it one that does not validate.  Who holds the lock of   *)
(* the file and who polls is the module Owners, what a controller does to  *)
(* its runtime the module Controller.                                      *)
(***************************************************************************)
EXTENDS Naturals, FiniteSets

CONSTANTS
  Window, Path,
  Home,       \* the configuration the windows are started with
  Flawed,     \* changes that make the configuration invalid
  MaxEdits,   \* bound: changes
  MaxEvents,  \* bound: buttons pressed, owners lost, threads that fail
  None

ASSUME EditorAssumption ==
  /\ None \notin Path /\ None \notin Window /\ Home \in Path
  /\ MaxEdits \in Nat /\ MaxEvents \in Nat
  /\ Flawed \subseteq Nat
  /\ \A c \in SUBSET (1 .. MaxEdits) : c # None

VARIABLES
  disk,             \* the files
  win,              \* the windows, see TypeOK
  tool,             \* the edit a controller is making of each file
  edits, events,
  exposed           \* history: changes written in the gap of somebody's save

bounds == <<edits, events>>
vars   == <<disk, win, tool, bounds, exposed>>

Content == SUBSET (1 .. MaxEdits)

\* The state of the embedded server, and the steps of save and load_path.
Server == {"stopped", "starting", "running", "reloading", "stopping"}
Step   == {"idle", "write", "back", "watch", "attach"}

Empty == [path |-> None, doc |-> {}, dirty |-> FALSE, snap |-> None,
          seen |-> None, pending |-> None,
          srv |-> "stopped", of |-> None, queued |-> FALSE,
          at |-> "idle", to |-> None, skipped |-> FALSE]

View ==
  [path : Path \cup {None}, doc : Content, dirty : BOOLEAN,
   snap : Content \cup {None},      \* disk_snapshot
   seen : Content \cup {None}, pending : Content \cup {None},
   srv : Server, of : Path \cup {None},  \* whose controller it has
   queued : BOOLEAN,                \* queued_config
   at : Step, to : Path \cup {None},
   skipped : BOOLEAN]  \* history: the file was taken for seen, and was not

TypeOK ==
  /\ disk \in [Path -> Content]
  /\ win \in [Window -> View]
  /\ tool \in [Path -> Content \cup {None}]
  /\ edits \in 0 .. MaxEdits /\ events \in 0 .. MaxEvents
  /\ exposed \in Content

\* A window that has read c from p, before it attaches.
Loaded(p, c) == [Empty EXCEPT !.path = p, !.doc = c, !.snap = c, !.at = "attach"]

Init ==
  /\ disk = [p \in Path |-> {}]
  /\ win = [w \in Window |-> Loaded(Home, {})]
  /\ tool = [p \in Path |-> None]
  /\ edits = 0 /\ events = 0 /\ exposed = {}

----------------------------------------------------------------------------
Valid(c) == c \cap Flawed = {}
Idle(w)  == win[w].at = "idle"
Busy(w)  == win[w].srv \in {"starting", "reloading", "stopping"}

Changes  == edits < MaxEdits /\ edits' = edits + 1 /\ UNCHANGED events
Counts   == events < MaxEvents /\ events' = events + 1 /\ UNCHANGED edits

\* One more change by a tool or in a form, with the others left as they are.
Edited(c) == c \cup {edits + 1}

\* Others that have compared p and not yet written it, or not read it back.
Between(p, w) ==
  \/ \E v \in Window \ {w} : win[v].at \in {"write", "back"} /\ win[v].to = p
  \/ w # None /\ tool[p] # None

\* w, or a controller, replaces the content of p.
Writes(p, c, w) ==
  /\ disk' = [disk EXCEPT ![p] = c]
  /\ exposed' = IF Between(p, w) THEN exposed \cup (c \ disk[p]) ELSE exposed

\* watch_file: what is on disk counts as seen.
Watching(r, p) ==
  [r EXCEPT !.seen = disk[p], !.pending = None,
            !.skipped = @ \/ disk[p] # r.snap]

\* attach_runtime, in a background thread.
Attaching(r, p) == [Watching(r, p) EXCEPT !.srv = "starting", !.of = p]

----------------------------------------------------------------------------
(***************************************************************************)
(* The controllers' tools                                                  *)
(***************************************************************************)

\* mutate re-reads the file, and finds it as the client expects ...
ToolChecks(p) ==
  /\ tool[p] = None /\ edits < MaxEdits
  /\ tool' = [tool EXCEPT ![p] = disk[p]]
  /\ UNCHANGED <<disk, win, bounds, exposed>>

\* ... and renames the edited copy over it, once it has found it valid.
ToolReplaces(p) ==
  /\ tool[p] # None /\ Valid(Edited(tool[p])) /\ Changes
  /\ Writes(p, Edited(tool[p]), None)
  /\ tool' = [tool EXCEPT ![p] = None]
  /\ UNCHANGED win

ToolRefused(p) ==
  /\ tool[p] # None
  /\ tool' = [tool EXCEPT ![p] = None]
  /\ UNCHANGED <<disk, win, bounds, exposed>>

----------------------------------------------------------------------------
(***************************************************************************)
(* A window and the file it shows                                          *)
(***************************************************************************)

\* A form finds that its fields differ from before.
FormEdited(w) ==
  /\ Idle(w) /\ Changes
  /\ win' = [win EXCEPT ![w].doc = Edited(@), ![w].dirty = TRUE]
  /\ UNCHANGED <<disk, tool, exposed>>

\* Opening is offered when the server neither runs nor is busy; whether the
\* runtime of a controller runs is not told here.
Closable(w) == Idle(w) /\ ~Busy(w)

\* load_path reads the file; the controller it had before is shut down ...
Opens(w, p) ==
  /\ Closable(w) /\ Counts
  /\ win' = [win EXCEPT ![w] =
               [Loaded(p, disk[p]) EXCEPT !.queued = win[w].queued]]
  /\ UNCHANGED <<disk, tool, exposed>>

\* ... which takes its time, before the file is watched.
Attaches(w) ==
  /\ win[w].at = "attach"
  /\ win' = [win EXCEPT ![w] = [Attaching(win[w], win[w].path) EXCEPT !.at = "idle"]]
  /\ UNCHANGED <<disk, tool, bounds, exposed>>

\* A new document, or the window is closed and opened without a file.
Clears(w) ==
  /\ Closable(w) /\ win[w] # Empty /\ Counts
  /\ win' = [win EXCEPT ![w] = Empty]
  /\ UNCHANGED <<disk, tool, exposed>>

\* sync_external leaves unsaved changes alone.
MaySync(r) == ~r.dirty

\* The same content twice.
Settled(r, c) == r.seen # c /\ r.pending = c

\* Mutant of Sighted: a content counts as seen at its first sight.
SightedAsSeen(r, c) == [r EXCEPT !.pending = c, !.seen = c]

\* The first sight of a content, or the one before is back.
Sighted(r, c) == [r EXCEPT !.pending = IF c = r.seen THEN None ELSE c]

\* pump and sync_external of one frame, with what they find in the file.
Sees(w) ==
  /\ Idle(w) /\ win[w].srv = "running" /\ win[w].path # None
  /\ LET r == win[w]
         c == disk[r.path]
     IN /\ c # r.seen \/ r.pending # None
        /\ win' = [win EXCEPT ![w] =
             IF Settled(r, c)
             THEN IF MaySync(r)
                  THEN [r EXCEPT !.seen = c, !.pending = None, !.doc = c,
                                 !.snap = c, !.skipped = FALSE]
                  ELSE [r EXCEPT !.seen = c, !.pending = None]
             ELSE Sighted(r, c)]
  /\ UNCHANGED <<disk, tool, bounds, exposed>>

----------------------------------------------------------------------------
(***************************************************************************)
(* save                                                                    *)
(***************************************************************************)

\* Mutant of Unchanged: the file is not compared.
UnchangedAlways(r, p) == TRUE

\* The file is as it was loaded, unless another one is asked for.
Unchanged(r, p) == r.path = p /\ r.snap # None => disk[p] = r.snap

\* Under the window's own name, or under one that the user chooses.  A document
\* without changes would be written as it is on disk, and is left out.
SaveChecks(w, p) ==
  /\ Idle(w)
  /\ IF win[w].path = p THEN UNCHANGED bounds ELSE Counts
  /\ win[w].dirty \/ win[w].path # p
  /\ Unchanged(win[w], p) /\ Valid(win[w].doc)
  /\ win' = [win EXCEPT ![w].at = "write", ![w].to = p]
  /\ UNCHANGED <<disk, tool, exposed>>

SaveWrites(w) ==
  /\ win[w].at = "write"
  /\ Writes(win[w].to, win[w].doc, w)
  /\ win' = [win EXCEPT ![w].at = "back"]
  /\ UNCHANGED <<tool, bounds>>

\* The snapshot of what was written is read from the disk.
SaveReadsBack(w) ==
  /\ win[w].at = "back"
  /\ win' = [win EXCEPT ![w].at = "watch", ![w].dirty = FALSE,
                        ![w].snap = disk[win[w].to],
                        ![w].skipped = disk[win[w].to] # win[w].doc]
  /\ UNCHANGED <<disk, tool, bounds, exposed>>

\* What the server does about a save to the file it watched before: it reloads
\* if it polls, at once or when it is through with what it is at.
Reloading(r) ==
  CASE r.srv = "running"   -> {r, [r EXCEPT !.srv = "reloading"]}
    [] r.srv = "reloading" -> {[r EXCEPT !.queued = TRUE]}
    [] OTHER               -> {r}

\* The file is watched.  If it is another one the server is attached to it.
SaveWatches(w) ==
  LET r == win[w]
      s == [Watching(r, r.to) EXCEPT !.path = r.to, !.to = None, !.at = "idle"]
  IN /\ r.at = "watch"
     /\ \E told \in (IF r.path # r.to /\ r.srv = "running"
                     THEN {Attaching(s, s.path)} ELSE Reloading(s)) :
          win' = [win EXCEPT ![w] = told]
     /\ UNCHANGED <<disk, tool, bounds, exposed>>

----------------------------------------------------------------------------
(***************************************************************************)
(* The embedded server                                                     *)
(***************************************************************************)

\* The start button, when the document is saved.
PressStart(w) ==
  /\ Closable(w) /\ ~win[w].dirty /\ win[w].path # None /\ Counts
  /\ LET r == Watching(win[w], win[w].path)
     IN win' = [win EXCEPT ![w] =
          [r EXCEPT !.srv = "starting",
                    !.of = IF r.srv = "running" THEN r.of ELSE r.path]]
  /\ UNCHANGED <<disk, tool, exposed>>

PressStop(w) ==
  /\ Idle(w) /\ win[w].srv = "running" /\ Counts
  /\ win' = [win EXCEPT ![w].srv = "stopping"]
  /\ UNCHANGED <<disk, tool, exposed>>

\* pump receives what the background thread has to say; a save that came
\* meanwhile is applied next.
Returns(w) ==
  /\ Idle(w) /\ Busy(w)
  /\ win' = [win EXCEPT ![w].srv = IF win[w].queued THEN "reloading" ELSE "running",
                        ![w].queued = FALSE]
  /\ UNCHANGED <<disk, tool, bounds, exposed>>

StartFails(w) ==
  /\ Idle(w) /\ win[w].srv = "starting" /\ Counts
  /\ win' = [win EXCEPT ![w].srv = "stopped", ![w].of = None]
  /\ UNCHANGED <<disk, tool, exposed>>

\* The owner has gone.
Loses(w) ==
  /\ Idle(w) /\ win[w].srv = "running" /\ Counts
  /\ win' = [win EXCEPT ![w] = Attaching(win[w], win[w].path)]
  /\ UNCHANGED <<disk, tool, exposed>>

\* Every 2 s when there is none.
Retries(w) ==
  /\ Idle(w) /\ win[w].srv = "stopped" /\ win[w].path # None
  /\ win' = [win EXCEPT ![w] = Attaching(win[w], win[w].path)]
  /\ UNCHANGED <<disk, tool, bounds, exposed>>

----------------------------------------------------------------------------
\* One frame after the other.
Frame(w) ==
  \/ Attaches(w) \/ Sees(w) \/ SaveWrites(w) \/ SaveReadsBack(w) \/ SaveWatches(w)
  \/ Returns(w) \/ Retries(w)

User(w) ==
  \/ FormEdited(w) \/ Clears(w) \/ PressStart(w) \/ PressStop(w)
  \/ \E p \in Path : Opens(w, p) \/ SaveChecks(w, p)

Tools == \E p \in Path : ToolChecks(p) \/ ToolReplaces(p) \/ ToolRefused(p)

Next == Tools \/ \E w \in Window : Frame(w) \/ User(w) \/ StartFails(w) \/ Loses(w)

Spec == Init /\ [][Next]_vars

\* Frames are drawn while a window is open.
FairSpec == Spec /\ \A w \in Window : WF_vars(Frame(w))

----------------------------------------------------------------------------
\* The user has chosen to save over another file.
Overwritten(p) ==
  \E w \in Window : win[w].at = "write" /\ win[w].to = p /\ win[w].path # p

\* Nobody's saved change disappears from a file, by whatever windows and tools
\* do to it in turn: only what was written in the moment between the
\* comparison and the end of another save may be lost with it.
NothingLost ==
  [][\A p \in Path : disk[p] \ disk'[p] \subseteq exposed \/ Overwritten(p)]_vars

Follows(r) == r.doc = disk[r.path]

\* A window with nothing unsaved in the end shows the file as it is, whoever has
\* changed it, but for a change that the window took for seen unseen.
EditorFollows ==
  \A w \in Window :
    <>[](win[w].path # None /\ ~win[w].dirty => Follows(win[w]) \/ win[w].skipped)

\* The same without the exception: it does not hold.
EditorFollowsAll ==
  \A w \in Window : <>[](win[w].path # None /\ ~win[w].dirty => Follows(win[w]))

\* The server a window starts and stops is that of the file it shows: it does
\* not hold either.
ShowsItsServer ==
  \A w \in Window : win[w].srv = "running" /\ Idle(w) => win[w].of = win[w].path
=============================================================================
