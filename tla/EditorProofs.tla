----------------------------- MODULE EditorProofs -----------------------------
(***************************************************************************)
(* Proofs about Editor, for every number of windows, files and changes.    *)
(***************************************************************************)
EXTENDS Editor, TLAPS

-----------------------------------------------------------------------------
(* The inductive invariants *)

\* A window r lacks nothing that its file d has but what was exposed (x): the
\* snapshot is in the document, and between the comparison of a save and the
\* snapshot that follows it the file itself is.
Safe(r, d, x) ==
  /\ r.at \in {"write", "back", "watch"} => r.to \in Path
  /\ r.path # None \/ r.at = "watch" => r.snap # None /\ r.snap \ r.doc \subseteq x
  /\ r.at = "back" \/ (r.at = "write" /\ r.path = r.to) =>
       d[r.to] \ r.doc \subseteq x

WindowInv == \A w \in Window : Safe(win[w], disk, exposed)

\* A window whose server runs, or that is about to ask for one, shows a file.
PathInv ==
  \A w \in Window :
    win[w].at = "attach" \/ win[w].srv # "stopped" => win[w].path \in Path

\* The same of a controller that has compared the file and not yet replaced it.
ToolInv ==
  \A p \in Path : tool[p] # None => disk[p] \ tool[p] \subseteq exposed

-----------------------------------------------------------------------------
(* Types *)

LEMMA EmptyType ==
  /\ Empty \in View
  /\ \A p \in Path, c \in Content : Loaded(p, c) \in View
<1>1. Empty \in View
  BY DEF Empty, View, Content, Server, Step
<1>2. ASSUME NEW p \in Path, NEW c \in Content PROVE Loaded(p, c) \in View
  BY <1>1, <1>2 DEF Loaded, View, Step
<1> QED
  BY <1>1, <1>2

\* One field of one window is assigned.
LEMMA FieldType ==
  ASSUME NEW f \in [Window -> View], NEW w \in Window
  PROVE  /\ \A v \in Content : [f EXCEPT ![w].doc = v] \in [Window -> View]
         /\ \A v \in Content : [f EXCEPT ![w].snap = v] \in [Window -> View]
         /\ \A v \in BOOLEAN : [f EXCEPT ![w].dirty = v] \in [Window -> View]
         /\ \A v \in BOOLEAN : [f EXCEPT ![w].queued = v] \in [Window -> View]
         /\ \A v \in BOOLEAN : [f EXCEPT ![w].skipped = v] \in [Window -> View]
         /\ \A v \in Server : [f EXCEPT ![w].srv = v] \in [Window -> View]
         /\ \A v \in Path \cup {None} : [f EXCEPT ![w].of = v] \in [Window -> View]
         /\ \A v \in Path \cup {None} : [f EXCEPT ![w].to = v] \in [Window -> View]
         /\ \A v \in Step : [f EXCEPT ![w].at = v] \in [Window -> View]
<1>1. ASSUME NEW r \in View
      PROVE  /\ \A v \in Content : [r EXCEPT !.doc = v] \in View
             /\ \A v \in Content : [r EXCEPT !.snap = v] \in View
             /\ \A v \in BOOLEAN : [r EXCEPT !.dirty = v] \in View
             /\ \A v \in BOOLEAN : [r EXCEPT !.queued = v] \in View
             /\ \A v \in BOOLEAN : [r EXCEPT !.skipped = v] \in View
             /\ \A v \in Server : [r EXCEPT !.srv = v] \in View
             /\ \A v \in Path \cup {None} : [r EXCEPT !.of = v] \in View
             /\ \A v \in Path \cup {None} : [r EXCEPT !.to = v] \in View
             /\ \A v \in Step : [r EXCEPT !.at = v] \in View
  BY DEF View
<1> QED
  BY <1>1

LEMMA EditedType ==
  ASSUME TypeOK, Changes, NEW c \in Content
  PROVE  /\ Edited(c) \in Content /\ c \subseteq Edited(c)
         /\ edits' \in 0 .. MaxEdits
<1>1. edits \in Nat /\ MaxEdits \in Nat /\ edits < MaxEdits /\ edits' = edits + 1
  BY EditorAssumption DEF TypeOK, Changes
<1>2. edits + 1 \in 1 .. MaxEdits /\ edits' \in 0 .. MaxEdits
  BY <1>1
<1>3. c \cup {edits + 1} \subseteq 1 .. MaxEdits
  BY <1>2 DEF Content
<1> QED
  BY <1>2, <1>3 DEF Edited, Content

LEMMA CountsType ==
  ASSUME TypeOK, Counts
  PROVE  events' \in 0 .. MaxEvents /\ edits' = edits
BY EditorAssumption DEF TypeOK, Counts

\* What a window learns of the file, and the server it asks for, changes
\* nothing of its document.
LEMMA WatchingType ==
  ASSUME TypeOK, NEW r \in View, NEW p \in Path
  PROVE  /\ Watching(r, p) \in View
         /\ Watching(r, p).path = r.path /\ Watching(r, p).doc = r.doc
         /\ Watching(r, p).snap = r.snap /\ Watching(r, p).at = r.at
         /\ Watching(r, p).to = r.to /\ Watching(r, p).srv = r.srv
<1> DEFINE b == r.skipped \/ disk[p] # r.snap
<1>1. Watching(r, p) = [r EXCEPT !.seen = disk[p], !.pending = None, !.skipped = b]
  BY DEF Watching
<1>2. disk[p] \in Content /\ b \in BOOLEAN
  BY DEF TypeOK
<1> HIDE DEF b
<1> QED
  BY <1>1, <1>2 DEF View

LEMMA AttachingType ==
  ASSUME TypeOK, NEW r \in View, NEW p \in Path
  PROVE  /\ Attaching(r, p) \in View
         /\ Attaching(r, p).path = r.path /\ Attaching(r, p).doc = r.doc
         /\ Attaching(r, p).snap = r.snap /\ Attaching(r, p).at = r.at
         /\ Attaching(r, p).to = r.to
<1>1. Attaching(r, p) = [Watching(r, p) EXCEPT !.srv = "starting", !.of = p]
  BY DEF Attaching
<1>2. "starting" \in Server
  BY DEF Server
<1>3. /\ \A s \in View, v \in Server : [s EXCEPT !.srv = v] \in View
      /\ \A s \in View, v \in Path \cup {None} : [s EXCEPT !.of = v] \in View
  BY DEF View
<1>4. Attaching(r, p) = [[Watching(r, p) EXCEPT !.srv = "starting"] EXCEPT !.of = p]
  BY <1>1
<1>5. Attaching(r, p) \in View
  <2> DEFINE s == [Watching(r, p) EXCEPT !.srv = "starting"]
  <2>1. Watching(r, p) \in View
    BY WatchingType
  <2>2. s \in View
    BY <1>2, <1>3, <2>1
  <2>3. Attaching(r, p) = [s EXCEPT !.of = p]
    BY <1>4
  <2> HIDE DEF s
  <2>4. [s EXCEPT !.of = p] \in View
    BY <1>3, <2>2
  <2> QED
    BY <2>3, <2>4
<1> QED
  BY <1>1, <1>5, WatchingType DEF View

LEMMA ReloadingType ==
  ASSUME NEW r \in View, NEW s \in Reloading(r)
  PROVE  /\ s \in View /\ s.path = r.path /\ s.doc = r.doc
         /\ s.snap = r.snap /\ s.at = r.at /\ s.to = r.to
<1>1. \/ s = r \/ s = [r EXCEPT !.srv = "reloading"] \/ s = [r EXCEPT !.queued = TRUE]
  BY DEF Reloading
<1> QED
  BY <1>1 DEF View, Server

\* A window's record after each of its actions: what it is, and what becomes of
\* its document, its snapshot and the save it is at.
LEMMA SavedType ==
  ASSUME TypeOK, WindowInv, NEW w \in Window, SaveWatches(w)
  PROVE  /\ win'[w] \in View /\ win' = [win EXCEPT ![w] = win'[w]]
         /\ win'[w].path = win[w].to /\ win'[w].at = "idle"
         /\ win'[w].doc = win[w].doc /\ win'[w].snap = win[w].snap
<1> DEFINE r == win[w]
           s == [Watching(r, r.to) EXCEPT !.path = r.to, !.to = None, !.at = "idle"]
<1>1. r \in View /\ r.to \in Path
  BY DEF SaveWatches, WindowInv, Safe, TypeOK
<1>2. /\ s \in View /\ s.path = r.to /\ s.at = "idle" /\ s.doc = r.doc
      /\ s.snap = r.snap
  <2>1. \A q \in View : /\ [q EXCEPT !.path = r.to] \in View
                         /\ [q EXCEPT !.to = None] \in View
                         /\ [q EXCEPT !.at = "idle"] \in View
    BY <1>1 DEF View, Step
  <2>2. s = [[[Watching(r, r.to) EXCEPT !.path = r.to] EXCEPT !.to = None]
               EXCEPT !.at = "idle"]
    OBVIOUS
  <2>3. s \in View
    BY <1>1, <2>1, <2>2, WatchingType
  <2> QED
    BY <1>1, <2>3, WatchingType DEF View
<1>3. PICK t \in (IF r.path # r.to /\ r.srv = "running"
                 THEN {Attaching(s, s.path)} ELSE Reloading(s)) :
        win' = [win EXCEPT ![w] = t]
  BY DEF SaveWatches
<1> HIDE DEF s
<1>4. /\ t \in View /\ t.path = r.to /\ t.at = "idle" /\ t.doc = r.doc
      /\ t.snap = r.snap
  <2>1. CASE t = Attaching(s, s.path)
    BY <1>1, <1>2, <2>1, AttachingType
  <2>2. CASE t \in Reloading(s)
    BY <1>2, <2>2, ReloadingType
  <2> QED
    BY <1>3, <2>1, <2>2
<1> QED
  BY <1>3, <1>4 DEF TypeOK

LEMMA StartsType ==
  ASSUME TypeOK, NEW w \in Window, PressStart(w)
  PROVE  /\ win'[w] \in View /\ win' = [win EXCEPT ![w] = win'[w]]
         /\ win'[w].path = win[w].path /\ win'[w].at = win[w].at
         /\ win'[w].doc = win[w].doc /\ win'[w].snap = win[w].snap
         /\ win'[w].to = win[w].to
<1> DEFINE r == Watching(win[w], win[w].path)
           of == IF r.srv = "running" THEN r.of ELSE r.path
<1>1. win[w] \in View /\ win[w].path \in Path
  BY DEF PressStart, TypeOK, View
<1>2. /\ r \in View /\ r.path = win[w].path /\ r.doc = win[w].doc
      /\ r.snap = win[w].snap /\ r.at = win[w].at /\ r.to = win[w].to
  BY <1>1, WatchingType
<1>3. of \in Path \cup {None}
  BY <1>2 DEF View
<1>4. win' = [win EXCEPT ![w] = [r EXCEPT !.srv = "starting", !.of = of]]
  BY DEF PressStart
<1> HIDE DEF r, of
<1>5. "starting" \in Server
  BY DEF Server
<1> QED
  BY <1>2, <1>3, <1>4, <1>5 DEF TypeOK, View

LEMMA WritesType ==
  ASSUME TypeOK, NEW p \in Path, NEW c \in Content, NEW w, Writes(p, c, w)
  PROVE  /\ disk' \in [Path -> Content] /\ exposed' \in Content
         /\ exposed \subseteq exposed'
BY DEF TypeOK, Writes, Content

LEMMA TypeInit == Init => TypeOK
<1>1. {} \in Content
  BY DEF Content
<1> QED
  BY <1>1, EmptyType, EditorAssumption, 0 \in 0 .. MaxEdits, 0 \in 0 .. MaxEvents
     DEF Init, TypeOK

LEMMA TypeStep ==
  TypeOK /\ WindowInv /\ PathInv /\ [Next]_vars => TypeOK'
<1> SUFFICES ASSUME TypeOK, WindowInv, PathInv, [Next]_vars
             PROVE  TypeOK'
  OBVIOUS
<1>0. CASE UNCHANGED vars
  BY <1>0 DEF TypeOK, vars, bounds
<1>1. ASSUME NEW p \in Path, ToolChecks(p) PROVE TypeOK'
  BY <1>1 DEF ToolChecks, TypeOK, bounds
<1>2. ASSUME NEW p \in Path, ToolReplaces(p) PROVE TypeOK'
  <2>1. tool[p] \in Content
    BY <1>2 DEF ToolReplaces, TypeOK
  <2>2. Edited(tool[p]) \in Content /\ edits' \in 0 .. MaxEdits
    BY <1>2, <2>1, EditedType DEF ToolReplaces
  <2> QED
    BY <1>2, <2>2, WritesType DEF ToolReplaces, Changes, TypeOK
<1>3. ASSUME NEW p \in Path, ToolRefused(p) PROVE TypeOK'
  BY <1>3 DEF ToolRefused, TypeOK, bounds
<1>4. ASSUME NEW w \in Window, FormEdited(w) PROVE TypeOK'
  <2>1. win[w].doc \in Content /\ edits' \in 0 .. MaxEdits
    BY <1>4, EditedType, {} \in Content DEF FormEdited, TypeOK, View, Content
  <2>2. Edited(win[w].doc) \in Content
    BY <1>4, <2>1, EditedType DEF FormEdited
  <2>3. win' \in [Window -> View]
    <3> DEFINE t == TRUE
               c == Edited(win[w].doc)
    <3>1. t \in BOOLEAN /\ c \in Content
      BY <2>2
    <3>2. win' = [win EXCEPT ![w].doc = c, ![w].dirty = t]
      BY <1>4 DEF FormEdited
    <3> HIDE DEF t, c
    <3> QED
      BY <3>1, <3>2, FieldType DEF TypeOK
  <2> QED
    BY <1>4, <2>1, <2>3 DEF FormEdited, Changes, TypeOK
<1>5. ASSUME NEW w \in Window, NEW p \in Path, Opens(w, p) PROVE TypeOK'
  <2>1. Loaded(p, disk[p]) \in View /\ win[w].queued \in BOOLEAN
    BY EmptyType DEF TypeOK, View
  <2>2. [Loaded(p, disk[p]) EXCEPT !.queued = win[w].queued] \in View
    BY <2>1 DEF View
  <2> QED
    BY <1>5, <2>2, CountsType DEF Opens, TypeOK
<1>6. ASSUME NEW w \in Window, Attaches(w) PROVE TypeOK'
  <2>1. win[w] \in View /\ win[w].path \in Path
    BY <1>6 DEF Attaches, PathInv, TypeOK
  <2>2. [Attaching(win[w], win[w].path) EXCEPT !.at = "idle"] \in View
    BY <2>1, AttachingType DEF View, Step
  <2> QED
    BY <1>6, <2>2 DEF Attaches, TypeOK, bounds
<1>7. ASSUME NEW w \in Window, Clears(w) PROVE TypeOK'
  BY <1>7, EmptyType, CountsType DEF Clears, TypeOK
<1>8. ASSUME NEW w \in Window, Sees(w) PROVE TypeOK'
  <2>1. win[w] \in View /\ disk[win[w].path] \in Content
    BY <1>8 DEF Sees, TypeOK, View
  <2>2. win' \in [Window -> View]
    BY <1>8, <2>1 DEF Sees, Sighted, TypeOK, View
  <2> QED
    BY <1>8, <2>2 DEF Sees, TypeOK, bounds
<1>9. ASSUME NEW w \in Window, NEW p \in Path, SaveChecks(w, p) PROVE TypeOK'
  <2>1. win' \in [Window -> View]
    BY <1>9, FieldType, "write" \in Step DEF SaveChecks, TypeOK, Step
  <2> QED
    BY <1>9, <2>1, CountsType DEF SaveChecks, TypeOK, bounds
<1>10. ASSUME NEW w \in Window, SaveWrites(w) PROVE TypeOK'
  <2>1. win[w].doc \in Content /\ win[w].to \in Path
    BY <1>10 DEF SaveWrites, WindowInv, Safe, TypeOK, View
  <2>2. win' \in [Window -> View]
    BY <1>10, FieldType, "back" \in Step DEF SaveWrites, TypeOK, Step
  <2> QED
    BY <1>10, <2>1, <2>2, WritesType DEF SaveWrites, TypeOK, bounds
<1>11. ASSUME NEW w \in Window, SaveReadsBack(w) PROVE TypeOK'
  <2> DEFINE b == disk[win[w].to] # win[w].doc
             f == FALSE
  <2>1. disk[win[w].to] \in Content /\ b \in BOOLEAN /\ f \in BOOLEAN
    BY <1>11 DEF SaveReadsBack, WindowInv, Safe, TypeOK
  <2>2. win' = [win EXCEPT ![w].at = "watch", ![w].dirty = f,
                           ![w].snap = disk[win[w].to], ![w].skipped = b]
    BY <1>11 DEF SaveReadsBack
  <2> HIDE DEF b, f
  <2>3. win' \in [Window -> View]
    <3> DEFINE f1 == [win EXCEPT ![w].at = "watch"]
               f2 == [f1 EXCEPT ![w].dirty = f]
               f3 == [f2 EXCEPT ![w].snap = disk[win[w].to]]
    <3>1. f1 \in [Window -> View]
      BY FieldType, "watch" \in Step DEF TypeOK, Step
    <3>2. f2 \in [Window -> View]
      BY <2>1, <3>1, FieldType
    <3>3. f3 \in [Window -> View]
      BY <2>1, <3>2, FieldType
    <3>4. win' = [f3 EXCEPT ![w].skipped = b]
      BY <2>2, Zenon
    <3> HIDE DEF f3
    <3> QED
      BY <2>1, <3>3, <3>4, FieldType
  <2> QED
    BY <1>11, <2>3 DEF SaveReadsBack, TypeOK, bounds
<1>12. ASSUME NEW w \in Window, SaveWatches(w) PROVE TypeOK'
  BY <1>12, SavedType DEF SaveWatches, TypeOK, bounds
<1>13. ASSUME NEW w \in Window, PressStart(w) PROVE TypeOK'
  BY <1>13, StartsType, CountsType DEF PressStart, TypeOK
<1>14. ASSUME NEW w \in Window, PressStop(w) PROVE TypeOK'
  <2>1. win' \in [Window -> View]
    BY <1>14 DEF PressStop, TypeOK, View, Server
  <2> QED
    BY <1>14, <2>1, CountsType DEF PressStop, TypeOK
<1>15. ASSUME NEW w \in Window, Returns(w) PROVE TypeOK'
  <2> DEFINE f == FALSE
             s == IF win[w].queued THEN "reloading" ELSE "running"
  <2>1. f \in BOOLEAN /\ s \in Server
    BY DEF Server
  <2>2. win' = [win EXCEPT ![w].srv = s, ![w].queued = f]
    BY <1>15 DEF Returns
  <2> HIDE DEF f, s
  <2>3. win' \in [Window -> View]
    BY <2>1, <2>2, FieldType DEF TypeOK
  <2> QED
    BY <1>15, <2>3 DEF Returns, TypeOK, bounds
<1>16. ASSUME NEW w \in Window, StartFails(w) PROVE TypeOK'
  <2>1. win' \in [Window -> View]
    BY <1>16, FieldType, "stopped" \in Server DEF StartFails, TypeOK, Server
  <2> QED
    BY <1>16, <2>1, CountsType DEF StartFails, TypeOK
<1>17. ASSUME NEW w \in Window, Loses(w) PROVE TypeOK'
  <2>1. win[w] \in View /\ win[w].path \in Path
    BY <1>17 DEF Loses, Idle, PathInv, TypeOK
  <2> QED
    BY <1>17, <2>1, AttachingType, CountsType DEF Loses, TypeOK
<1>18. ASSUME NEW w \in Window, Retries(w) PROVE TypeOK'
  <2>1. win[w] \in View /\ win[w].path \in Path
    BY <1>18 DEF Retries, TypeOK, View
  <2> QED
    BY <1>18, <2>1, AttachingType DEF Retries, TypeOK, bounds
<1> QED
  BY <1>0, <1>1, <1>2, <1>3, <1>4, <1>5, <1>6, <1>7, <1>8, <1>9, <1>10,
     <1>11, <1>12, <1>13, <1>14, <1>15, <1>16, <1>17, <1>18
     DEF Next, Tools, Frame, User

-----------------------------------------------------------------------------
(* What each action makes of a window *)

\* The fields that the invariants speak of are left as they are.
Keeps(s, r) ==
  /\ s.path = r.path /\ s.doc = r.doc /\ s.snap = r.snap
  /\ s.at = r.at /\ s.to = r.to

LEMMA PressStops ==
  ASSUME TypeOK, NEW w \in Window, PressStop(w) \/ Returns(w) \/ StartFails(w)
  PROVE  /\ Keeps(win'[w], win[w]) /\ \A v \in Window \ {w} : win'[v] = win[v]
         /\ disk' = disk /\ tool' = tool /\ exposed' = exposed
         /\ PressStop(w) \/ Returns(w) => win[w].srv # "stopped"
         /\ StartFails(w) => win'[w].srv = "stopped"
<1>1. CASE PressStop(w)
  BY <1>1 DEF PressStop, TypeOK, Keeps, View, StartFails
<1>2. CASE Returns(w)
  <2>1. win[w].srv # "stopped" /\ win[w].srv # "running"
    BY <1>2 DEF Returns, Busy
  <2>2. /\ Keeps(win'[w], win[w]) /\ \A v \in Window \ {w} : win'[v] = win[v]
        /\ disk' = disk /\ tool' = tool /\ exposed' = exposed
    <3> DEFINE b == FALSE
               n == IF win[w].queued THEN "reloading" ELSE "running"
    <3>1. win' = [win EXCEPT ![w].srv = n, ![w].queued = b]
      BY <1>2 DEF Returns
    <3> HIDE DEF b, n
    <3> QED
      BY <1>2, <3>1 DEF Returns, TypeOK, Keeps, View
  <2>3. StartFails(w) => win'[w].srv = "stopped"
    BY DEF StartFails, TypeOK, View
  <2> QED
    BY <2>1, <2>2, <2>3
<1>3. CASE StartFails(w)
  <2>1. win[w].srv = "starting"
    BY <1>3 DEF StartFails
  <2>2. /\ Keeps(win'[w], win[w]) /\ \A v \in Window \ {w} : win'[v] = win[v]
        /\ disk' = disk /\ tool' = tool /\ exposed' = exposed
        /\ win'[w].srv = "stopped"
    BY <1>3 DEF StartFails, TypeOK, Keeps, View
  <2> QED
    BY <2>1, <2>2
<1> QED
  BY <1>1, <1>2, <1>3

LEMMA Attached ==
  ASSUME TypeOK, PathInv, NEW w \in Window, Attaches(w) \/ Loses(w) \/ Retries(w)
  PROVE  /\ win'[w].path = win[w].path /\ win'[w].doc = win[w].doc
         /\ win'[w].snap = win[w].snap /\ win'[w].at = "idle"
         /\ win[w].path \in Path
         /\ \A v \in Window \ {w} : win'[v] = win[v]
         /\ disk' = disk /\ tool' = tool /\ exposed' = exposed
<1>1. win[w] \in View /\ win[w].path \in Path
  BY DEF Attaches, Loses, Retries, PathInv, TypeOK, View
<1> DEFINE s == Attaching(win[w], win[w].path)
<1>2. /\ s \in View /\ s.path = win[w].path /\ s.doc = win[w].doc
      /\ s.snap = win[w].snap /\ s.at = win[w].at
  BY <1>1, AttachingType
<1>3. \/ win' = [win EXCEPT ![w] = [s EXCEPT !.at = "idle"]]
      \/ win' = [win EXCEPT ![w] = s] /\ win[w].at = "idle"
  BY DEF Attaches, Loses, Retries, Idle
<1>4. disk' = disk /\ tool' = tool /\ exposed' = exposed
  BY DEF Attaches, Loses, Retries
<1> HIDE DEF s
<1>5. CASE win' = [win EXCEPT ![w] = [s EXCEPT !.at = "idle"]]
  BY <1>1, <1>2, <1>4, <1>5 DEF TypeOK, View
<1>6. CASE win' = [win EXCEPT ![w] = s] /\ win[w].at = "idle"
  BY <1>1, <1>2, <1>4, <1>6 DEF TypeOK
<1> QED
  BY <1>3, <1>5, <1>6

\* A frame finds the content of the file: the window shows it, or goes on with
\* the document and the snapshot it has.
LEMMA Seen ==
  ASSUME TypeOK, NEW w \in Window, Sees(w)
  PROVE  /\ win'[w].path = win[w].path /\ win[w].path \in Path
         /\ win'[w].at = "idle" /\ win'[w].to = win[w].to
         /\ \/ win'[w].doc = disk[win[w].path] /\ win'[w].snap = disk[win[w].path]
            \/ win'[w].doc = win[w].doc /\ win'[w].snap = win[w].snap
         /\ \A v \in Window \ {w} : win'[v] = win[v]
         /\ disk' = disk /\ tool' = tool /\ exposed' = exposed
<1> DEFINE r == win[w]
           c == disk[r.path]
           f == FALSE
<1>1. r \in View /\ r.path \in Path /\ r.at = "idle"
  BY DEF Sees, Idle, TypeOK, View
<1>2. \/ win' = [win EXCEPT ![w] = [r EXCEPT !.seen = c, !.pending = None, !.doc = c,
                                            !.snap = c, !.skipped = f]]
      \/ win' = [win EXCEPT ![w] = [r EXCEPT !.seen = c, !.pending = None]]
      \/ win' = [win EXCEPT ![w] = Sighted(r, c)]
  BY DEF Sees
<1> HIDE DEF r, c, f
<1>3. PICK s : /\ win' = [win EXCEPT ![w] = s]
               /\ \/ s = [r EXCEPT !.seen = c, !.pending = None, !.doc = c,
                                   !.snap = c, !.skipped = f]
                  \/ s = [r EXCEPT !.seen = c, !.pending = None]
                  \/ s = Sighted(r, c)
  BY <1>2
<1>4. /\ s.path = r.path /\ s.at = r.at /\ s.to = r.to
      /\ \/ s.doc = c /\ s.snap = c
         \/ s.doc = r.doc /\ s.snap = r.snap
  <2>1. CASE s = [r EXCEPT !.seen = c, !.pending = None, !.doc = c,
                           !.snap = c, !.skipped = f]
    BY <1>1, <2>1 DEF View
  <2>2. CASE s = [r EXCEPT !.seen = c, !.pending = None]
    BY <1>1, <2>2 DEF View
  <2>3. CASE s = Sighted(r, c)
    BY <1>1, <2>3 DEF View, Sighted
  <2> QED
    BY <1>3, <2>1, <2>2, <2>3
<1>5. win'[w] = s /\ \A v \in Window \ {w} : win'[v] = win[v]
  BY <1>3 DEF TypeOK
<1>6. disk' = disk /\ tool' = tool /\ exposed' = exposed
  BY DEF Sees
<1> QED
  BY <1>1, <1>4, <1>5, <1>6 DEF r, c

-----------------------------------------------------------------------------
(* The file of a window *)

LEMMA PathStep ==
  TypeOK /\ WindowInv /\ PathInv /\ [Next]_vars => PathInv'
<1> SUFFICES ASSUME TypeOK, WindowInv, PathInv, [Next]_vars
             PROVE  PathInv'
  OBVIOUS
<1>0. ASSUME win' = win PROVE PathInv'
  BY <1>0 DEF PathInv
<1>1. ASSUME NEW w \in Window, \A v \in Window \ {w} : win'[v] = win[v],
             \/ win'[w].path \in Path
             \/ /\ win'[w].path = win[w].path
                /\ win'[w].at = "attach" => win[w].at = "attach"
                /\ win'[w].srv # "stopped" => win[w].srv # "stopped"
             \/ win'[w].at # "attach" /\ win'[w].srv = "stopped"
      PROVE  PathInv'
  BY <1>1 DEF PathInv
<1>2. ASSUME NEW p \in Path, ToolChecks(p) \/ ToolReplaces(p) \/ ToolRefused(p)
      PROVE  PathInv'
  BY <1>0, <1>2 DEF ToolChecks, ToolReplaces, ToolRefused
<1>3. ASSUME NEW w \in Window, FormEdited(w) PROVE PathInv'
  <2>1. /\ \A v \in Window \ {w} : win'[v] = win[v]
        /\ win'[w].path = win[w].path /\ win'[w].at = win[w].at
        /\ win'[w].srv = win[w].srv
    BY <1>3 DEF FormEdited, TypeOK, View
  <2> QED
    BY <1>1, <2>1
<1>4. ASSUME NEW w \in Window, NEW p \in Path, Opens(w, p) PROVE PathInv'
  <2>1. Loaded(p, disk[p]).path = p
    BY DEF Loaded, Empty
  <2>2. \A v \in Window \ {w} : win'[v] = win[v]
    BY <1>4 DEF Opens, TypeOK
  <2>3. win'[w].path = p
    BY <1>4, <2>1, EmptyType DEF Opens, TypeOK, View
  <2> QED
    BY <1>1, <2>2, <2>3
<1>5. ASSUME NEW w \in Window, Attaches(w) \/ Loses(w) \/ Retries(w) PROVE PathInv'
  BY <1>1, <1>5, Attached
<1>6. ASSUME NEW w \in Window, Clears(w) PROVE PathInv'
  BY <1>1, <1>6 DEF Clears, TypeOK, Empty
<1>7. ASSUME NEW w \in Window, Sees(w) PROVE PathInv'
  BY <1>1, <1>7, Seen
<1>8. ASSUME NEW w \in Window,
             (\E p \in Path : SaveChecks(w, p)) \/ SaveWrites(w)
      PROVE  PathInv'
  <2>1. /\ \A v \in Window \ {w} : win'[v] = win[v]
        /\ win'[w].path = win[w].path /\ win'[w].at # "attach"
        /\ win'[w].srv = win[w].srv
    BY <1>8 DEF SaveChecks, SaveWrites, TypeOK, View
  <2> QED
    BY <1>1, <2>1
<1>9. ASSUME NEW w \in Window, SaveReadsBack(w) PROVE PathInv'
  <2>1. /\ \A v \in Window \ {w} : win'[v] = win[v]
        /\ win'[w].path = win[w].path /\ win'[w].at # "attach"
        /\ win'[w].srv = win[w].srv
    BY <1>9 DEF SaveReadsBack, TypeOK, View
  <2> QED
    BY <1>1, <2>1
<1>10. ASSUME NEW w \in Window, SaveWatches(w) PROVE PathInv'
  <2>1. win'[w].path \in Path /\ \A v \in Window \ {w} : win'[v] = win[v]
    BY <1>10, SavedType DEF SaveWatches, WindowInv, Safe, TypeOK
  <2> QED
    BY <1>1, <2>1
<1>11. ASSUME NEW w \in Window, PressStart(w) PROVE PathInv'
  <2>1. win[w].path \in Path /\ \A v \in Window \ {w} : win'[v] = win[v]
    BY <1>11 DEF PressStart, TypeOK, View
  <2> QED
    BY <1>1, <1>11, <2>1, StartsType
<1>12. ASSUME NEW w \in Window, PressStop(w) \/ Returns(w) \/ StartFails(w)
       PROVE  PathInv'
  <2>1. Keeps(win'[w], win[w]) /\ \A v \in Window \ {w} : win'[v] = win[v]
    BY <1>12, PressStops
  <2>2. win[w].srv # "stopped" \/ win'[w].srv = "stopped"
    BY <1>12, PressStops
  <2> QED
    BY <1>1, <2>1, <2>2 DEF Keeps
<1> QED
  BY <1>0, <1>2, <1>3, <1>4, <1>5, <1>6, <1>7, <1>8, <1>9, <1>10, <1>11, <1>12
     DEF Next, Tools, Frame, User, vars

-----------------------------------------------------------------------------
(* What a write takes from the others *)

\* A content that somebody writes over a file lacks only what is exposed with
\* it, for every window that is between its comparison and its snapshot, and
\* for a controller that is about to replace the file.
LEMMA WritesKeep ==
  ASSUME TypeOK, WindowInv, ToolInv,
         NEW p \in Path, NEW c \in Content, NEW w, Writes(p, c, w)
  PROVE  /\ \A v \in Window : v # w => Safe(win[v], disk', exposed')
         /\ \A q \in Path : tool[q] # None /\ (w # None \/ q # p) =>
              disk'[q] \ tool[q] \subseteq exposed'
<1>1. /\ disk' = [disk EXCEPT ![p] = c] /\ exposed \subseteq exposed'
      /\ Between(p, w) => c \ disk[p] \subseteq exposed'
  BY DEF Writes
<1>2. disk'[p] = c /\ \A q \in Path : q # p => disk'[q] = disk[q]
  BY <1>1 DEF TypeOK
<1>3. ASSUME NEW v \in Window, v # w PROVE Safe(win[v], disk', exposed')
  <2>1. Safe(win[v], disk, exposed)
    BY DEF WindowInv
  <2>2. ASSUME win[v].at \in {"write", "back"}, win[v].to = p,
               disk[p] \ win[v].doc \subseteq exposed
        PROVE  disk'[p] \ win[v].doc \subseteq exposed'
    <3>1. Between(p, w)
      BY <1>3, <2>2 DEF Between
    <3> QED
      BY <1>1, <1>2, <2>2, <3>1
  <2> QED
    BY <1>1, <1>2, <2>1, <2>2 DEF Safe
<1>4. ASSUME NEW q \in Path, tool[q] # None, w # None \/ q # p
      PROVE  disk'[q] \ tool[q] \subseteq exposed'
  <2>1. disk[q] \ tool[q] \subseteq exposed
    BY <1>4 DEF ToolInv
  <2>2. CASE q # p
    BY <1>1, <1>2, <2>1, <2>2
  <2>3. CASE q = p /\ w # None
    <3>1. Between(p, w)
      BY <1>4, <2>3 DEF Between
    <3> QED
      BY <1>1, <1>2, <2>1, <2>3, <3>1
  <2> QED
    BY <1>4, <2>2, <2>3
<1> QED
  BY <1>3, <1>4

\* What a window writes.
LEMMA SaveWritten ==
  ASSUME TypeOK, WindowInv, NEW w \in Window, SaveWrites(w)
  PROVE  /\ Writes(win[w].to, win[w].doc, w) /\ w # None
         /\ win[w].to \in Path /\ win[w].doc \in Content
         /\ win'[w].path = win[w].path /\ win'[w].doc = win[w].doc
         /\ win'[w].snap = win[w].snap /\ win'[w].to = win[w].to
         /\ win'[w].at = "back" /\ \A v \in Window \ {w} : win'[v] = win[v]
         /\ disk' = [disk EXCEPT ![win[w].to] = win[w].doc]
         /\ exposed \subseteq exposed' /\ tool' = tool
<1>1. win[w] \in View /\ win[w].to \in Path
  BY DEF SaveWrites, WindowInv, Safe, TypeOK
<1>2. w # None /\ win[w].doc \in Content
  BY <1>1, EditorAssumption DEF View
<1> QED
  BY <1>1, <1>2 DEF SaveWrites, Writes, TypeOK, View

LEMMA ToolStep ==
  TypeOK /\ WindowInv /\ ToolInv /\ [Next]_vars => ToolInv'
<1> SUFFICES ASSUME TypeOK, WindowInv, ToolInv, [Next]_vars
             PROVE  ToolInv'
  OBVIOUS
<1>0. ASSUME disk' = disk, tool' = tool, exposed' = exposed PROVE ToolInv'
  BY <1>0 DEF ToolInv
<1>1. ASSUME NEW p \in Path, ToolChecks(p) PROVE ToolInv'
  BY <1>1 DEF ToolChecks, ToolInv, TypeOK
<1>2. ASSUME NEW p \in Path, ToolReplaces(p) PROVE ToolInv'
  <2>1. tool[p] \in Content
    BY <1>2 DEF ToolReplaces, TypeOK
  <2>2. Edited(tool[p]) \in Content
    BY <1>2, <2>1, EditedType DEF ToolReplaces
  <2>3. \A q \in Path : tool[q] # None /\ q # p => disk'[q] \ tool[q] \subseteq exposed'
    BY <1>2, <2>2, WritesKeep DEF ToolReplaces
  <2> QED
    BY <1>2, <2>3 DEF ToolReplaces, ToolInv, TypeOK
<1>3. ASSUME NEW p \in Path, ToolRefused(p) PROVE ToolInv'
  BY <1>3 DEF ToolRefused, ToolInv, TypeOK
<1>4. ASSUME NEW w \in Window, SaveWrites(w) PROVE ToolInv'
  BY <1>4, SaveWritten, WritesKeep DEF ToolInv
<1>5. ASSUME NEW w \in Window,
             \/ FormEdited(w) \/ (\E p \in Path : Opens(w, p)) \/ Attaches(w)
             \/ Clears(w) \/ Sees(w) \/ (\E p \in Path : SaveChecks(w, p))
             \/ SaveReadsBack(w) \/ SaveWatches(w) \/ PressStart(w) \/ PressStop(w)
             \/ Returns(w) \/ StartFails(w) \/ Loses(w) \/ Retries(w)
      PROVE  ToolInv'
  <2>1. disk' = disk /\ tool' = tool /\ exposed' = exposed
    BY <1>5
       DEF FormEdited, Opens, Attaches, Clears, Sees, SaveChecks, SaveReadsBack,
         SaveWatches, PressStart, PressStop, Returns, StartFails, Loses, Retries
  <2> QED
    BY <1>0, <2>1
<1> QED
  BY <1>0, <1>1, <1>2, <1>3, <1>4, <1>5 DEF Next, Tools, Frame, User, vars

-----------------------------------------------------------------------------
(* The snapshot of a window and the comparison of its save *)

LEMMA WindowStep ==
  TypeOK /\ WindowInv /\ PathInv /\ ToolInv /\ [Next]_vars => WindowInv'
<1> SUFFICES ASSUME TypeOK, WindowInv, PathInv, ToolInv, [Next]_vars
             PROVE  WindowInv'
  OBVIOUS
<1>0. ASSUME win' = win, disk' = disk, exposed' = exposed PROVE WindowInv'
  BY <1>0 DEF WindowInv
<1>1. ASSUME NEW w \in Window, \A v \in Window \ {w} : win'[v] = win[v],
             disk' = disk, exposed' = exposed, Safe(win'[w], disk, exposed)
      PROVE  WindowInv'
  BY <1>1 DEF WindowInv
<1>2. ASSUME NEW w \in Window PROVE win[w] \in View /\ Safe(win[w], disk, exposed)
  BY DEF WindowInv, TypeOK
<1>3. \A c \in Content : c # None
  BY EditorAssumption DEF Content
<1>4. ASSUME NEW p \in Path, ToolChecks(p) \/ ToolRefused(p) PROVE WindowInv'
  BY <1>0, <1>4 DEF ToolChecks, ToolRefused
<1>5. ASSUME NEW p \in Path, ToolReplaces(p) PROVE WindowInv'
  <2>1. tool[p] \in Content
    BY <1>5 DEF ToolReplaces, TypeOK
  <2>2. Edited(tool[p]) \in Content
    BY <1>5, <2>1, EditedType DEF ToolReplaces
  <2>3. \A v \in Window : v # None => Safe(win[v], disk', exposed')
    BY <1>5, <2>2, WritesKeep DEF ToolReplaces
  <2> QED
    BY <1>5, <2>3, EditorAssumption DEF ToolReplaces, WindowInv
<1>6. ASSUME NEW w \in Window, FormEdited(w) PROVE WindowInv'
  <2>1. /\ \A v \in Window \ {w} : win'[v] = win[v]
        /\ win'[w].doc = Edited(win[w].doc) /\ win'[w].snap = win[w].snap
        /\ win'[w].path = win[w].path /\ win'[w].at = "idle"
    BY <1>6, <1>2 DEF FormEdited, Idle, TypeOK, View
  <2>2. win[w].doc \subseteq win'[w].doc
    BY <2>1 DEF Edited
  <2>3. Safe(win'[w], disk, exposed)
    BY <1>2, <2>1, <2>2 DEF Safe
  <2> QED
    BY <1>1, <1>6, <2>1, <2>3 DEF FormEdited
<1>7. ASSUME NEW w \in Window, NEW p \in Path, Opens(w, p) PROVE WindowInv'
  <2>1. disk[p] \in Content
    BY DEF TypeOK
  <2>2. Loaded(p, disk[p]) \in View
    BY <2>1, EmptyType
  <2>3. /\ Loaded(p, disk[p]).snap = disk[p] /\ Loaded(p, disk[p]).doc = disk[p]
        /\ Loaded(p, disk[p]).at = "attach"
    BY DEF Loaded, Empty
  <2>4. /\ \A v \in Window \ {w} : win'[v] = win[v]
        /\ win'[w].snap = disk[p] /\ win'[w].doc = disk[p] /\ win'[w].at = "attach"
    BY <1>7, <2>2, <2>3 DEF Opens, TypeOK, View
  <2>5. Safe(win'[w], disk, exposed)
    BY <1>3, <2>1, <2>4 DEF Safe
  <2> QED
    BY <1>1, <1>7, <2>4, <2>5 DEF Opens
<1>8. ASSUME NEW w \in Window, Attaches(w) \/ Loses(w) \/ Retries(w) PROVE WindowInv'
  <2>1. win[w].path # None /\ win'[w].at = "idle"
    BY <1>8, Attached, EditorAssumption
  <2>2. Safe(win'[w], disk, exposed)
    BY <1>2, <1>8, <2>1, Attached DEF Safe
  <2> QED
    BY <1>1, <1>8, <2>2, Attached
<1>9. ASSUME NEW w \in Window, Clears(w) PROVE WindowInv'
  <2>1. Safe(Empty, disk, exposed)
    BY DEF Safe, Empty
  <2> QED
    BY <1>1, <1>9, <2>1 DEF Clears, TypeOK
<1>10. ASSUME NEW w \in Window, Sees(w) PROVE WindowInv'
  <2>1. disk[win[w].path] \in Content /\ win[w].path # None
    BY <1>10, Seen, EditorAssumption DEF TypeOK
  <2>2. Safe(win'[w], disk, exposed)
    BY <1>2, <1>3, <1>10, <2>1, Seen DEF Safe
  <2> QED
    BY <1>1, <1>10, <2>2, Seen
<1>11. ASSUME NEW w \in Window, NEW p \in Path, SaveChecks(w, p) PROVE WindowInv'
  <2>1. /\ \A v \in Window \ {w} : win'[v] = win[v]
        /\ win'[w].doc = win[w].doc /\ win'[w].snap = win[w].snap
        /\ win'[w].path = win[w].path /\ win'[w].at = "write" /\ win'[w].to = p
    BY <1>11, <1>2 DEF SaveChecks, TypeOK, View
  <2>2. win[w].path = p => disk[p] \ win[w].doc \subseteq exposed
    BY <1>2, <1>11, EditorAssumption DEF SaveChecks, Unchanged, Safe
  <2>3. Safe(win'[w], disk, exposed)
    BY <1>2, <2>1, <2>2 DEF Safe
  <2> QED
    BY <1>1, <1>11, <2>1, <2>3 DEF SaveChecks
<1>12. ASSUME NEW w \in Window, SaveWrites(w) PROVE WindowInv'
  <2>1. \A v \in Window \ {w} : Safe(win'[v], disk', exposed')
    BY <1>12, SaveWritten, WritesKeep
  <2>2. disk'[win[w].to] = win[w].doc
    BY <1>12, SaveWritten DEF TypeOK
  <2>3. Safe(win'[w], disk', exposed')
    BY <1>2, <1>12, <2>2, SaveWritten DEF Safe
  <2> QED
    BY <2>1, <2>3 DEF WindowInv
<1>13. ASSUME NEW w \in Window, SaveReadsBack(w) PROVE WindowInv'
  <2>1. win[w].to \in Path /\ disk[win[w].to] \ win[w].doc \subseteq exposed
    BY <1>2, <1>13 DEF SaveReadsBack, Safe
  <2>2. disk[win[w].to] # None
    BY <1>3, <2>1 DEF TypeOK
  <2>3. /\ \A v \in Window \ {w} : win'[v] = win[v]
        /\ win'[w].doc = win[w].doc /\ win'[w].snap = disk[win[w].to]
        /\ win'[w].path = win[w].path /\ win'[w].at = "watch"
        /\ win'[w].to = win[w].to
    BY <1>13, <1>2 DEF SaveReadsBack, TypeOK, View
  <2>4. Safe(win'[w], disk, exposed)
    BY <2>1, <2>2, <2>3 DEF Safe
  <2> QED
    BY <1>1, <1>13, <2>3, <2>4 DEF SaveReadsBack
<1>14. ASSUME NEW w \in Window, SaveWatches(w) PROVE WindowInv'
  <2>1. win[w].at = "watch" /\ \A v \in Window \ {w} : win'[v] = win[v]
    BY <1>14, SavedType DEF SaveWatches, TypeOK
  <2>2. Safe(win'[w], disk, exposed)
    BY <1>2, <1>14, <2>1, SavedType DEF Safe
  <2> QED
    BY <1>1, <1>14, <2>1, <2>2 DEF SaveWatches
<1>15. ASSUME NEW w \in Window, Keeps(win'[w], win[w]) PROVE Safe(win'[w], disk, exposed)
  BY <1>2, <1>15 DEF Safe, Keeps
<1>16. ASSUME NEW w \in Window, PressStart(w) PROVE WindowInv'
  <2>1. Keeps(win'[w], win[w]) /\ \A v \in Window \ {w} : win'[v] = win[v]
    BY <1>16, StartsType DEF Keeps, TypeOK
  <2> QED
    BY <1>1, <1>15, <1>16, <2>1 DEF PressStart
<1>17. ASSUME NEW w \in Window, PressStop(w) \/ Returns(w) \/ StartFails(w)
       PROVE  WindowInv'
  BY <1>1, <1>15, <1>17, PressStops
<1> QED
  BY <1>0, <1>4, <1>5, <1>6, <1>7, <1>8, <1>9, <1>10, <1>11, <1>12, <1>13, <1>14,
     <1>16, <1>17 DEF Next, Tools, Frame, User, vars

-----------------------------------------------------------------------------
(* The theorems *)

IInv == TypeOK /\ PathInv /\ WindowInv /\ ToolInv

LEMMA InitInv == Init => IInv
<1> SUFFICES ASSUME Init PROVE IInv
  OBVIOUS
<1>1. \A w \in Window : /\ win[w].path = Home /\ win[w].snap = {} /\ win[w].doc = {}
                        /\ win[w].at = "attach"
  BY DEF Init, Loaded, Empty
<1>2. {} # None
  BY EditorAssumption
<1>3. PathInv
  BY <1>1, EditorAssumption DEF PathInv
<1>4. WindowInv
  BY <1>1, <1>2 DEF WindowInv, Safe
<1>5. ToolInv
  BY DEF ToolInv, Init
<1> QED
  BY <1>3, <1>4, <1>5, TypeInit DEF IInv

LEMMA StepInv == IInv /\ [Next]_vars => IInv'
BY TypeStep, PathStep, ToolStep, WindowStep DEF IInv

\* Every reachable state satisfies the inductive invariant.
THEOREM Invariant == Spec => []IInv
<1> QED
  BY InitInv, StepInv, PTL DEF Spec

\* The variables keep their types.  It takes the invariants of the window's file:
\* what is watched, attached and written is a file (load_path and save in app.rs).
THEOREM TypeCorrect == Spec => []TypeOK
<1>1. IInv => TypeOK
  BY DEF IInv
<1> QED
  BY <1>1, Invariant, PTL

\* One step takes from a file only what is exposed, or it is a save over a file
\* that the user has chosen.
LEMMA StepLosesNothing ==
  IInv /\ [Next]_vars =>
    [\A p \in Path : disk[p] \ disk'[p] \subseteq exposed \/ Overwritten(p)]_vars
<1> SUFFICES ASSUME IInv, Next, NEW p \in Path
             PROVE  disk[p] \ disk'[p] \subseteq exposed \/ Overwritten(p)
  OBVIOUS
<1>1. TypeOK /\ WindowInv /\ ToolInv
  BY DEF IInv
<1>2. CASE disk' = disk
  BY <1>2
<1>3. ASSUME NEW q \in Path, ToolReplaces(q)
      PROVE  disk[p] \ disk'[p] \subseteq exposed
  <2>1. disk' = [disk EXCEPT ![q] = Edited(tool[q])] /\ tool[q] # None
    BY <1>3 DEF ToolReplaces, Writes
  <2>2. disk[q] \ Edited(tool[q]) \subseteq exposed
    BY <1>1, <2>1 DEF ToolInv, Edited
  <2> QED
    BY <1>1, <2>1, <2>2 DEF TypeOK
<1>4. ASSUME NEW w \in Window, SaveWrites(w)
      PROVE  disk[p] \ disk'[p] \subseteq exposed \/ Overwritten(p)
  <2>1. /\ disk' = [disk EXCEPT ![win[w].to] = win[w].doc]
        /\ win[w].at = "write" /\ Safe(win[w], disk, exposed)
    BY <1>1, <1>4 DEF SaveWrites, Writes, WindowInv
  <2>2. CASE win[w].to # p
    BY <1>1, <2>1, <2>2 DEF TypeOK
  <2>3. CASE win[w].to = p /\ win[w].path # p
    BY <2>1, <2>3 DEF Overwritten
  <2>4. CASE win[w].to = p /\ win[w].path = p
    <3>1. disk[p] \ win[w].doc \subseteq exposed
      BY <2>1, <2>4 DEF Safe
    <3>2. disk'[p] = win[w].doc
      BY <1>1, <2>1, <2>4 DEF TypeOK
    <3> QED
      BY <3>1, <3>2
  <2> QED
    BY <2>2, <2>3, <2>4
<1>5. ASSUME NEW q \in Path, ToolChecks(q) \/ ToolRefused(q) PROVE disk' = disk
  BY <1>5 DEF ToolChecks, ToolRefused
<1>6. ASSUME NEW w \in Window,
             \/ FormEdited(w) \/ (\E q \in Path : Opens(w, q)) \/ Attaches(w)
             \/ Clears(w) \/ Sees(w) \/ (\E q \in Path : SaveChecks(w, q))
             \/ SaveReadsBack(w) \/ SaveWatches(w) \/ PressStart(w) \/ PressStop(w)
             \/ Returns(w) \/ StartFails(w) \/ Loses(w) \/ Retries(w)
      PROVE  disk' = disk
  BY <1>6
     DEF FormEdited, Opens, Attaches, Clears, Sees, SaveChecks, SaveReadsBack,
       SaveWatches, PressStart, PressStop, Returns, StartFails, Loses, Retries
<1> QED
  BY <1>2, <1>3, <1>4, <1>5, <1>6 DEF Next, Tools, Frame, User

\* Nobody's saved change disappears from a file, by however many windows and
\* controllers, but in the gap of another save (save in app.rs, mutate in
\* mcp/tools.rs).
THEOREM NothingIsLost == Spec => NothingLost
<1>1. IInv /\ [Next]_vars =>
        [\A p \in Path : disk[p] \ disk'[p] \subseteq exposed \/ Overwritten(p)]_vars
  BY StepLosesNothing
<1> QED
  BY <1>1, Invariant, PTL DEF Spec, NothingLost
==============================================================================
