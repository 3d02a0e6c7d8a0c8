------------------------------- MODULE Editor -------------------------------
(***************************************************************************)
(* The map editor: a document, the entities that are selected in it, its   *)
(* history, and the drag under way (map-editor.store.ts,                   *)
(* map-editor-canvas.component.ts, map-editor.component.ts and             *)
(* map-file.service.ts).                                                   *)
(*                                                                         *)
(* The map has one dimension and the pointer moves on the grid, so that    *)
(* snapping changes nothing.  An obstacle lies from l to r; a spawn point  *)
(* has l = r.  What the grid, the zoom and the assets look like is left    *)
(* out, and so is the tool: an entity is placed in one step.               *)
(***************************************************************************)
EXTENDS Integers, SequencesExt, Ordering

CONSTANTS Ids,            \* bound on the entities of the document and its history
          Width,          \* of the map
          Size, MinSize,  \* of an obstacle of the catalog
          PlayerRadius,         \* PLAYER_RADIUS
          HistoryLimit,   \* HISTORY_LIMIT
          Margin,         \* bound: how far beyond the map an entity may be dragged
          NoDoc

ASSUME EditorAssumption ==
    {Width, Size, MinSize, PlayerRadius, Margin} \subseteq Nat /\ HistoryLimit \in Nat \ {0}

VARIABLES
    doc,          \* the entities: at, and the order of the spawn points
    past, future, \* documents to go back and forward to
    start,        \* transactionStart
    selection,
    drag,         \* interaction
    leftOpen      \* history: a box or a pan has taken the place of the transaction's drag

editorVars == <<doc, past, future, start, selection, drag, leftOpen>>

NoDrag  == [mode |-> "none"]
Empty == [at |-> << >>, spawns |-> << >>]
Pointed == 0 .. Width \* where the pointer can be

EditorInit ==
    /\ doc = Empty /\ past = << >> /\ future = << >> /\ start = NoDoc
    /\ selection = {} /\ drag = NoDrag /\ leftOpen = FALSE

Known(d)     == DOMAIN d.at
Obstacles(d) == Known(d) \ Range(d.spawns)
Dragged == CASE drag.mode = "move" -> DOMAIN drag.origins
             [] drag.mode = "resize" -> {drag.id} [] OTHER -> {}
Fresh ==
    {i \in Ids \ Dragged :
        \A d \in {doc} \cup Range(past) \cup Range(future) \cup ({start} \ {NoDoc}) : i \notin Known(d)}

LastOnes(s) == IF Len(s) > HistoryLimit THEN Tail(s) ELSE s

-----------------------------------------------------------------------------
(* MapEditorStore. *)

\* commit: what changes the document is a step of the history.
Commit(d) ==
    /\ doc' = d
    /\ IF d = doc THEN UNCHANGED <<past, future>>
       ELSE past' = LastOnes(Append(past, doc)) /\ future' = << >>

Placed(d, i, l, r, isSpawn) ==
    [at |-> [j \in Known(d) \cup {i} |-> IF j = i THEN [l |-> l, r |-> r] ELSE d.at[j]],
     spawns |-> IF isSpawn THEN Append(d.spawns, i) ELSE d.spawns]

Removed(d, S) ==
    [at |-> [i \in Known(d) \ S |-> d.at[i]], spawns |-> Kept(d.spawns, Known(d) \ S)]

\* moveEntitiesFrom: entities that are gone stay gone.
MovedFrom(d, origins, by) ==
    [d EXCEPT !.at = [i \in Known(d) |-> IF i \in DOMAIN origins
                                         THEN [l |-> origins[i].l + by, r |-> origins[i].r + by]
                                         ELSE d.at[i]]]

Reshaped(d, i, rect) == IF i \in Known(d) THEN [d EXCEPT !.at[i] = rect] ELSE d

\* addObstacle keeps it on the map.
AddObstacle(x) ==
    \E i \in Fresh :
        LET l == IF x > Width - Size THEN Width - Size ELSE x
        IN  /\ Commit(Placed(doc, i, l, l + Size, FALSE)) /\ selection' = {i}
            /\ UNCHANGED <<start, drag>>

AddSpawn(x) ==
    \E i \in Fresh :
        /\ Commit(Placed(doc, i, x, x, TRUE)) /\ selection' = {i} /\ UNCHANGED <<start, drag>>

BeginTransaction == start' = IF start = NoDoc THEN doc ELSE start

\* Mutant: a transaction that changed nothing returns before it is ended.
FinishTransactionMutant ==
    /\ UNCHANGED doc
    /\ IF start \in {NoDoc, doc} THEN UNCHANGED <<start, past, future>>
       ELSE start' = NoDoc /\ past' = LastOnes(Append(past, start)) /\ future' = << >>
FinishTransaction ==
    /\ start' = NoDoc /\ UNCHANGED doc
    /\ IF start \in {NoDoc, doc} THEN UNCHANGED <<past, future>>
       ELSE past' = LastOnes(Append(past, start)) /\ future' = << >>

DeleteSelection ==
    /\ selection # {} /\ Commit(Removed(doc, selection)) /\ selection' = {}
    /\ UNCHANGED <<start, drag>>

\* The document with the copies f of the selection, in the order of the originals.
Copied(f) ==
    LET points == Kept(doc.spawns, selection)
        original(c) == doc.at[CHOOSE i \in selection : f[i] = c]
    IN  [at |-> [j \in Known(doc) \cup Range(f) |->
                    IF j \in Known(doc) THEN doc.at[j]
                    ELSE [l |-> original(j).l + 1, r |-> original(j).r + 1]],
         spawns |-> doc.spawns \o [n \in DOMAIN points |-> f[points[n]]]]

DuplicateSelection ==
    \E f \in [selection -> Fresh] :
        /\ selection # {} /\ \A i, j \in selection : f[i] = f[j] => i = j
        /\ Commit(Copied(f)) /\ selection' = Range(f)
        /\ UNCHANGED <<start, drag>>

ReorderSpawn(n) ==
    /\ n \in 1 .. Len(doc.spawns) - 1
    /\ Commit([doc EXCEPT !.spawns = [@ EXCEPT ![n] = doc.spawns[n + 1], ![n + 1] = doc.spawns[n]]])
    /\ UNCHANGED <<start, selection, drag>>

\* The history is walked whatever is being dragged.
Undo ==
    /\ past # << >> /\ doc' = Last(past) /\ past' = Front(past)
    /\ future' = SubSeq(<<doc>> \o future, 1, IF Len(future) < HistoryLimit THEN Len(future) + 1 ELSE HistoryLimit)
    /\ selection' = {} /\ UNCHANGED <<start, drag>>

Redo ==
    /\ future # << >> /\ doc' = Head(future) /\ future' = Tail(future)
    /\ past' = LastOnes(Append(past, doc))
    /\ selection' = {} /\ UNCHANGED <<start, drag>>

-----------------------------------------------------------------------------
(* The canvas.  It has one interaction, whatever pointers there are: a second  *)
(* one that comes down begins its own in its place, and each that moves or     *)
(* goes up is taken for that of the last.                                      *)

\* A handle of the one obstacle that is selected.
GrabHandle ==
    \E i \in Obstacles(doc), edge \in {"l", "r"} :
        /\ selection = {i} /\ BeginTransaction
        /\ drag' = [mode |-> "resize", id |-> i, edge |-> edge, original |-> doc.at[i]]
        /\ UNCHANGED <<doc, past, future, selection>>

\* An entity: with Shift it joins or leaves the selection.
GrabEntity ==
    \E i \in Known(doc), x \in Pointed, shift \in BOOLEAN :
        /\ doc.at[i].l <= x /\ x <= doc.at[i].r
        /\ selection' = IF shift THEN (selection \cup {i}) \ (selection \cap {i})
                        ELSE IF i \in selection THEN selection ELSE {i}
        /\ BeginTransaction
        /\ drag' = [mode |-> "move", from |-> x, origins |-> [j \in selection' \cap Known(doc) |-> doc.at[j]]]
        /\ UNCHANGED <<doc, past, future>>

\* The ground: a box, which adds to the selection with Shift.
GrabGround ==
    \E x \in Pointed, shift \in BOOLEAN :
        /\ selection' = IF shift THEN selection ELSE {}
        /\ drag' = [mode |-> "box", from |-> x, to |-> x, additive |-> shift]
        /\ UNCHANGED <<doc, past, future, start>>

\* The view: the space key or the middle button pans it.
GrabView ==
    drag' = [mode |-> "pan"] /\ UNCHANGED <<doc, past, future, start, selection>>

\* resizeObstacle: the other edge stays, and the size does not fall below the least.
Resized(d, x) ==
    IF d.edge = "l" THEN [d.original EXCEPT !.l = IF d.original.r - x < MinSize
                                                  THEN d.original.r - MinSize ELSE x]
    ELSE [d.original EXCEPT !.r = IF x - d.original.l < MinSize THEN d.original.l + MinSize ELSE x]

PointerMoves(x) ==
    /\ \/ drag.mode = "move"   /\ doc' = MovedFrom(doc, drag.origins, x - drag.from) /\ UNCHANGED drag
       \/ drag.mode = "resize" /\ doc' = Reshaped(doc, drag.id, Resized(drag, x)) /\ UNCHANGED drag
       \/ drag.mode = "box"    /\ drag' = [drag EXCEPT !.to = x] /\ UNCHANGED doc
    /\ UNCHANGED <<past, future, start, selection>>

Boxed ==
    {i \in Known(doc) : \/ doc.at[i].r >= drag.from /\ doc.at[i].l <= drag.to
                        \/ doc.at[i].r >= drag.to /\ doc.at[i].l <= drag.from}

DragEnds ==
    /\ drag # NoDrag /\ drag' = NoDrag
    /\ IF drag.mode \in {"move", "resize"} THEN FinishTransaction /\ UNCHANGED selection
       ELSE /\ selection' = IF drag.mode = "pan" THEN selection
                            ELSE IF drag.additive THEN selection \cup Boxed ELSE Boxed
            /\ UNCHANGED <<doc, past, future, start>>

-----------------------------------------------------------------------------
(* The keyboard and the panels. *)

\* Arrows move the selection; the transaction may be the one of a drag.
Arrow(by) ==
    LET moved  == MovedFrom(doc, [i \in selection |-> doc.at[i]], by)
        before == IF start = NoDoc THEN doc ELSE start
    IN  /\ selection # {} /\ doc' = moved /\ start' = NoDoc
        /\ IF before = moved THEN UNCHANGED <<past, future>>
           ELSE past' = LastOnes(Append(past, before)) /\ future' = << >>
        /\ UNCHANGED <<selection, drag>>

Escape == selection' = {} /\ UNCHANGED <<doc, past, future, start, drag>>

\* parse: the document of a file it accepts, whose entities are new.
Parsed ==
    {Empty} \cup {Placed(Empty, i, 0, Size, FALSE) : i \in Fresh}
            \cup {Placed(Empty, i, Width + 1, Width + 1, TRUE) : i \in Fresh}

\* importFile.
Import ==
    /\ \E d \in Parsed : Commit(d)
    /\ selection' = {} /\ UNCHANGED <<start, drag>>

\* validate: the entity an issue points at.
OffMap(d, i)   == d.at[i].l < 0 \/ d.at[i].r > Width
Overlaps(a, b) == a.l < b.r /\ b.l < a.r
Flagged(d) ==
    {i \in Known(d) : OffMap(d, i)}
    \cup {i \in Obstacles(d) : \E j \in Obstacles(d) \ {i} : Overlaps(d.at[i], d.at[j])}
    \cup {i \in Range(d.spawns) : \/ \E j \in Obstacles(d) : /\ d.at[i].l >= d.at[j].l - PlayerRadius
                                                              /\ d.at[i].l <= d.at[j].r + PlayerRadius
                                  \/ \E j \in Range(d.spawns) \ {i} :
                                         d.at[i].l - d.at[j].l \in -3 * PlayerRadius .. 3 * PlayerRadius}

SelectIssue ==
    /\ \E i \in Flagged(doc) : selection' = {i}
    /\ UNCHANGED <<doc, past, future, start, drag>>

\* The transaction stays open under a box or a pan, until it is finished or dragged again.
NotesWhatIsLeft ==
    leftOpen' = (/\ start' # NoDoc /\ drag'.mode \notin {"move", "resize"}
                 /\ leftOpen \/ drag'.mode \in {"box", "pan"})

Within(d) == \A i \in Known(d) : d.at[i].l >= -Margin /\ d.at[i].r <= Width + Margin

EditorNext ==
    /\ \/ \E x \in Pointed : AddObstacle(x) \/ AddSpawn(x) \/ PointerMoves(x)
       \/ GrabHandle \/ GrabEntity \/ GrabGround \/ GrabView \/ DragEnds
       \/ DeleteSelection \/ DuplicateSelection \/ Undo \/ Redo \/ Escape
       \/ \E n \in 1 .. Len(doc.spawns) : ReorderSpawn(n)
       \/ \E by \in {-1, 1} : Arrow(by)
       \/ Import \/ SelectIssue
    /\ NotesWhatIsLeft /\ Within(doc')

EditorSpec == EditorInit /\ [][EditorNext]_editorVars

-----------------------------------------------------------------------------
\* What is selected is in the document: handles, panels and keys act on the selection
\* without asking.
SelectedExist == selection \subseteq Known(doc)

\* A transaction is open only while something is dragged: the next drag would take the
\* document before the last one for its own beginning.  That is what happens when a second
\* pointer begins a box or a pan in the middle of a drag: nothing looks whose pointer goes
\* up, and what was moved is no step of the history before the next drag or arrow ends.
TransactionHasDrag == start # NoDoc => drag.mode \in {"move", "resize"} \/ leftOpen

\* Both, whatever is undone, deleted, imported or moved by keys in the middle of a drag
\* (map-editor.store.ts:56-67, 128-146, 251-267, map-editor-canvas.component.ts:135-254).
EditorConsistent == SelectedExist /\ TransactionHasDrag
=============================================================================
