-------------------------------- MODULE Paint --------------------------------
(***************************************************************************)
(* The colours of a user's tank: what is stored of them at the server and  *)
(* how requests read, repair and change it (tank-customization.service.ts, *)
(* tank-customization.types.ts), and the editor of the lobby with its      *)
(* entry in the browser's history (tank-customization.component.ts and     *)
(* .store.ts).                                                             *)
(*                                                                         *)
(* Requests of one user overlap: each read and write of the database is a *)
(* step.  Only valid colours are sent.                                     *)
(***************************************************************************)
EXTENDS Integers, FiniteSets

CONSTANTS
    PaintedParts, Colors,
    Fallback,            \* the colour drawn from the user's id
    NoPaint, MaxCalls    \* bound: how many requests are made

VARIABLES
    paint,     \* the row at the server, NoPaint before there is one
    call,      \* what each call does
    store,     \* TankCustomizationStore.current
    editor,    \* TankCustomizationComponent
    browser,   \* entries of the editor in the history, and steps back the page asked for
    wanted,    \* history: how the tank looked at first or was last saved to look
    overwrote  \* history: a repair was written over a row that had changed since it was read

paintVars == <<paint, call, store, editor, browser, wanted, overwrote>>

Looks == [PaintedParts -> Colors]
Somes == UNION {[ps -> Colors] : ps \in SUBSET PaintedParts}
Calls == 1 .. MaxCalls

\* A row may have no base colour.
PaintedRows == [base: Colors \cup {"none"}, nested: Somes, flat: Somes]
StoredRows  == {NoPaint} \cup PaintedRows

ASSUME PaintAssumption ==
    Fallback \in Colors /\ "none" \notin Colors /\ NoPaint \notin PaintedRows

Plain(color) == [p \in PaintedParts |-> color]
Nothing      == [p \in {} |-> Fallback]
Over(some, look) == [p \in PaintedParts |-> IF p \in DOMAIN some THEN some[p] ELSE look[p]]

-----------------------------------------------------------------------------
(* What is stored: a base colour, the parts that differ from it, and those of an older
   contract in a place of their own. *)

Base(stored) == IF stored = NoPaint \/ stored.base = "none" THEN Fallback ELSE stored.base

\* resolveTankCustomization.
Look(stored) ==
    IF stored = NoPaint THEN Plain(Fallback) ELSE Over(stored.nested, Over(stored.flat, Plain(Base(stored))))

\* writeSparseColor.
Sparse(look, base) == [p \in {p \in PaintedParts : look[p] # base} |-> look[p]]

\* canonicalizeStoredTankCustomization. Mutant: the older form is removed before it is read.
CanonicalMutant(stored) ==
    [base |-> Base(stored), flat |-> Nothing,
     nested |-> IF stored = NoPaint THEN Nothing ELSE Sparse(Over(stored.nested, Plain(Base(stored))), Base(stored))]
Canonical(stored) ==
    [base |-> Base(stored), nested |-> Sparse(Look(stored), Base(stored)), flat |-> Nothing]

\* mergeTankPaint.
Merged(stored, look) == [Canonical(stored) EXCEPT !.nested = Sparse(look, Base(stored))]

NoCall == [kind |-> "none", step |-> "none", copy |-> NoPaint, look |-> Plain(Fallback)]
NoEditor    == [open |-> FALSE, draft |-> Plain(Fallback), saved |-> Plain(Fallback),
              confirm |-> FALSE, away |-> FALSE, entry |-> FALSE]

PaintInit ==
    /\ paint \in StoredRows /\ wanted = Look(paint) /\ overwrote = FALSE
    /\ call = [r \in Calls |-> NoCall]
    /\ store = Plain(Fallback) /\ editor = NoEditor /\ browser = [entries |-> 0, backs |-> 0]

-----------------------------------------------------------------------------
(* The server. *)

Steps(r, step, stored) == call' = [call EXCEPT ![r] = [@ EXCEPT !.step = step, !.copy = stored]]
AtPage == UNCHANGED <<store, editor, browser>>

\* get: findUnique; save asks it first.
ReadRow(r) ==
    /\ call[r].step = "read"
    /\ IF paint # NoPaint /\ paint = Canonical(paint)
       THEN IF call[r].kind = "get"
            THEN call' = [call EXCEPT ![r] = [@ EXCEPT !.step = "answer", !.look = Look(paint)]]
            ELSE Steps(r, "load", NoPaint)
       ELSE Steps(r, "repair", paint)
    /\ AtPage /\ UNCHANGED <<paint, wanted, overwrote>>

\* get: upsert, with what was read.
RepairRow(r) ==
    LET copy == call[r].copy
    IN  /\ call[r].step = "repair"
        /\ paint' = IF paint = NoPaint THEN Canonical(NoPaint) ELSE Canonical(copy)
        /\ overwrote' = (overwrote \/ paint # copy)
        /\ call' = IF call[r].kind = "get"
                      THEN [call EXCEPT ![r] = [@ EXCEPT !.step = "answer", !.copy = NoPaint, !.look = Look(copy)]]
                      ELSE [call EXCEPT ![r] = [@ EXCEPT !.step = "load", !.copy = NoPaint]]
        /\ AtPage /\ UNCHANGED wanted

\* updatePaint: findUniqueOrThrow, then update.
LoadRow(r) ==
    /\ call[r].step = "load" /\ Steps(r, "merge", paint)
    /\ AtPage /\ UNCHANGED <<paint, wanted, overwrote>>
MergeRow(r) ==
    /\ call[r].step = "merge" /\ paint' = Merged(call[r].copy, call[r].look)
    /\ wanted' = call[r].look /\ Steps(r, "answer", NoPaint)
    /\ AtPage /\ UNCHANGED overwrote

-----------------------------------------------------------------------------
(* The editor. *)

AtServer == UNCHANGED <<paint, wanted, overwrote>>
Sends(kind, look) ==
    /\ \E r \in Calls :
          /\ call[r].kind = "none" /\ \A s \in 1 .. r - 1 : call[s].kind # "none"
          /\ call' = [call EXCEPT ![r] = [kind |-> kind, step |-> "read", copy |-> NoPaint, look |-> look]]
    /\ AtPage /\ AtServer

Dirty == editor.draft # editor.saved
\* The user acts when the steps back the page asked for are done.
UserActs == browser.backs = 0

\* reload, whenever there is a new access token.
Reload == Sends("get", Plain(Fallback))
SavePaint == UserActs /\ editor.open /\ ~editor.confirm /\ Sends("save", editor.draft)

OpenEditor ==
    /\ UserActs /\ ~editor.open
    /\ editor' = [NoEditor EXCEPT !.open = TRUE, !.draft = store, !.saved = store, !.entry = TRUE]
    /\ browser' = [browser EXCEPT !.entries = @ + 1] /\ UNCHANGED <<store, call>> /\ AtServer

\* dismissEditor, with removeModalHistoryEntry or left for another page.
RemoveEntry == browser' = IF editor.entry THEN [browser EXCEPT !.backs = @ + 1] ELSE browser
FinishClose(away) ==
    /\ editor' = NoEditor
    /\ IF away THEN browser' = [entries |-> 0, backs |-> 0] ELSE RemoveEntry

\* closeEditor, onEscape and closeEditorForNavigation.
RequestClose(away) ==
    /\ UserActs /\ editor.open /\ ~editor.confirm
    /\ IF Dirty THEN editor' = [editor EXCEPT !.confirm = TRUE, !.away = away] /\ UNCHANGED browser
       ELSE FinishClose(away)
    /\ UNCHANGED <<store, call>> /\ AtServer

ContinueEditing ==
    /\ UserActs /\ editor.confirm /\ editor' = [editor EXCEPT !.confirm = FALSE, !.away = FALSE]
    /\ UNCHANGED <<store, call, browser>> /\ AtServer
DiscardChanges ==
    /\ UserActs /\ editor.confirm /\ FinishClose(editor.away) /\ UNCHANGED <<store, call>> /\ AtServer

UpdateColor(part, color) ==
    /\ editor.open /\ ~editor.confirm /\ editor' = [editor EXCEPT !.draft[part] = color]
    /\ UNCHANGED <<store, call, browser>> /\ AtServer
Reset ==
    /\ editor.open /\ ~editor.confirm /\ Dirty /\ editor' = [editor EXCEPT !.draft = editor.saved]
    /\ UNCHANGED <<store, call, browser>> /\ AtServer

\* onBrowserBack, of the user: unsaved changes put the entry back.
BrowserBack ==
    /\ UserActs /\ editor.open /\ browser.entries > 0
    /\ IF Dirty THEN editor' = [editor EXCEPT !.confirm = TRUE, !.away = FALSE, !.entry = TRUE] /\ UNCHANGED browser
       ELSE editor' = NoEditor /\ browser' = [browser EXCEPT !.entries = @ - 1]
    /\ UNCHANGED <<store, call>> /\ AtServer
\* The step back the page asked for: the editor is closed by then.
PageBack ==
    /\ browser.backs > 0 /\ browser' = [entries |-> browser.entries - 1, backs |-> browser.backs - 1]
    /\ UNCHANGED <<store, editor, call>> /\ AtServer

\* The answer of a request, or its failure, after which the editor stays as it is.
Answered(r) ==
    /\ store' = call[r].look
    /\ IF call[r].kind = "save" THEN editor' = NoEditor /\ RemoveEntry ELSE UNCHANGED <<editor, browser>>
RequestEnds(r, ok) ==
    /\ call[r].step \notin {"none", "done"} /\ (ok => call[r].step = "answer")
    /\ call' = [call EXCEPT ![r] = [NoCall EXCEPT !.kind = "done", !.step = "done"]]
    /\ IF ok THEN Answered(r) ELSE UNCHANGED <<store, editor, browser>>
    /\ AtServer

PaintNext ==
    \/ \E r \in Calls : ReadRow(r) \/ RepairRow(r) \/ LoadRow(r) \/ MergeRow(r)
    \/ \E r \in Calls, ok \in BOOLEAN : RequestEnds(r, ok)
    \/ Reload \/ SavePaint \/ OpenEditor \/ ContinueEditing \/ DiscardChanges \/ Reset
    \/ \E away \in BOOLEAN : RequestClose(away)
    \/ \E part \in PaintedParts, color \in Colors : UpdateColor(part, color)
    \/ BrowserBack \/ PageBack

PaintSpec == PaintInit /\ [][PaintNext]_paintVars
-----------------------------------------------------------------------------
(* Properties. *)

\* Only a save changes how a tank looks: the repairs that any request may write keep it,
\* whatever form the row had, unless one is written over a row that changed since it was
\* read (tank-customization.service.ts:22-39).
LookIsKept == overwrote \/ Look(paint) = wanted

\* The editor has its one entry in the history as long as it is open, and none is left or
\* taken from another page when it was closed by hand, by going back, after a question or
\* by the answer to a save (tank-customization.component.ts:71-220).
HistoryIsClean ==
    /\ editor.open => browser = [entries |-> 1, backs |-> 0] /\ editor.entry
    /\ ~editor.open => browser.entries = browser.backs

\* The colours of a tank are safe: both of the above.
PaintAgrees == LookIsKept /\ HistoryIsClean
=============================================================================
