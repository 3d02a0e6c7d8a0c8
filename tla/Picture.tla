------------------------------- MODULE Picture -------------------------------
(***************************************************************************)
(* Which moment of the round a client draws (snapshot-interpolator.ts).    *)
(* Snapshots are kept with the time of their arrival, and a frame draws    *)
(* the moment RenderDelay ago, between the last one that is old enough     *)
(* and the next.  Of time it matters how old the snapshots are.            *)
(***************************************************************************)
EXTENDS Integers, Sequences, SequencesExt

CONSTANTS RenderDelay, BufferMax, MaxAge

ASSUME PictureAssumption ==
    /\ RenderDelay \in Nat /\ BufferMax \in Nat \ {0} /\ MaxAge \in Nat
    /\ RenderDelay < MaxAge \* a snapshot old enough can be told from a younger one

VARIABLES
    snapshots, \* their ages, in the order of arrival
    picture    \* history: the age of what was drawn last

pictureVars == <<snapshots, picture>>

NoPicture == MaxAge
PictureInit == snapshots = << >> /\ picture = NoPicture

\* Bound: ages above MaxAge are not told apart.
Aged(age) == IF age < MaxAge THEN age + 1 ELSE age
PictureAges ==
    /\ snapshots' = [i \in DOMAIN snapshots |-> Aged(snapshots[i])] /\ picture' = Aged(picture)

\* push: several snapshots may arrive at once.
PushSnapshot ==
    /\ snapshots' = Append(IF Len(snapshots) = BufferMax THEN Tail(snapshots) ELSE snapshots, 0)
    /\ UNCHANGED picture

\* Mutant: if none is old enough, the last.
PreviousIndexMutant(ages) ==
    LET old == {i \in DOMAIN ages : ages[i] >= RenderDelay}
    IN  IF old = {} THEN Len(ages) ELSE CHOOSE i \in old : \A j \in old : j <= i
\* findPreviousSnapshotIndex.
PreviousIndex(ages) ==
    LET old == {i \in DOMAIN ages : ages[i] >= RenderDelay}
    IN  IF old = {} THEN 1 ELSE CHOOSE i \in old : \A j \in old : j <= i

\* interpolateSnapshots: at most the first of the two, at least the second.
Moment(before, after) ==
    IF before = after THEN after
    ELSE IF RenderDelay > before THEN before ELSE IF RenderDelay < after THEN after ELSE RenderDelay

\* buildRenderState.
Rendered(ages) ==
    LET prev == PreviousIndex(ages)
        next == IF prev < Len(ages) THEN prev + 1 ELSE prev
    IN  IF Len(ages) < 2 \/ prev = next THEN Last(ages) ELSE Moment(ages[prev], ages[next])

DrawFrame == snapshots # << >> /\ picture' = Rendered(snapshots) /\ UNCHANGED snapshots

\* clear: another round is joined.
ClearSnapshots == snapshots' = << >> /\ picture' = NoPicture

PictureNext == PictureAges \/ PushSnapshot \/ DrawFrame \/ ClearSnapshots
PictureSpec == PictureInit /\ [][PictureNext]_pictureVars
-----------------------------------------------------------------------------
(* Property. *)

\* What a frame draws is never older than what the frame before it drew, whether
\* snapshots come regularly, in bursts that overflow the buffer or after a gap
\* (snapshot-interpolator.ts:31-82).
PictureAdvances == [][DrawFrame => picture' <= picture]_pictureVars
=============================================================================
