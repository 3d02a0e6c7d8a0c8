------------------------------ MODULE Geometry ------------------------------
(***************************************************************************)
(* The collisions of collision.service.ts, and the segment test of the     *)
(* laser, on one obstacle and a grid: a shot and a tank start clear of the *)
(* obstacle, move in a straight line, and are put back clear of it.        *)
(* EPSILON is one step of the grid; a push that is not along an axis       *)
(* (Math.sqrt) goes in whole multiples of its direction.                   *)
(***************************************************************************)
EXTENDS Integers

CONSTANTS
    Box,             \* getObstacleBounds: left, right, top, bottom
    ShotRadius, TankRadius,
    Grid,            \* coordinates something may start from
    Strides          \* what a coordinate may change by in a tick

VARIABLES
    body, \* "shot" or "tank"
    was, at, \* where it was before and after its last step
    dir,     \* signs of the shot's direction
    phase    \* "moved", "clear"

geometryVars == <<body, was, at, dir, phase>>

Low(a, b)  == IF a < b THEN a ELSE b
High(a, b) == IF a > b THEN a ELSE b
Sign(a)    == IF a > 0 THEN 1 ELSE IF a < 0 THEN -1 ELSE 0
Radius     == IF body = "shot" THEN ShotRadius ELSE TankRadius

\* The point of the box that is closest to p, and the way from there to p.
Closest(p) == [x |-> High(Box.left, Low(p.x, Box.right)), y |-> High(Box.top, Low(p.y, Box.bottom))]
Away(p)    == [x |-> p.x - Closest(p).x, y |-> p.y - Closest(p).y]
Touches(p, r) == Away(p).x * Away(p).x + Away(p).y * Away(p).y <= r * r

\* The slab test of one axis: the span of the way, as fractions of it, in which the
\* coordinate is between lo and hi; empty if it never is.
Slab(from, step, lo, hi) ==
    LET at1 == [num |-> (lo - from) * Sign(step), den |-> step * Sign(step)]
        at2 == [num |-> (hi - from) * Sign(step), den |-> step * Sign(step)]
    IN  IF step = 0
        THEN IF from < lo \/ from > hi THEN [in |-> [num |-> 1, den |-> 1], out |-> [num |-> 0, den |-> 1]]
                                       ELSE [in |-> [num |-> 0, den |-> 1], out |-> [num |-> 1, den |-> 1]]
        ELSE IF step > 0 THEN [in |-> at1, out |-> at2] ELSE [in |-> at2, out |-> at1]

NoLater(f, g) == f.num * g.den <= g.num * f.den

\* getObstacleHitT: some part of the way is inside the box widened by r.
Crosses(from, to, r) ==
    LET whole == [in |-> [num |-> 0, den |-> 1], out |-> [num |-> 1, den |-> 1]]
        slabs == {whole, Slab(from.x, to.x - from.x, Box.left - r, Box.right + r),
                         Slab(from.y, to.y - from.y, Box.top - r, Box.bottom + r)}
    IN  \A s, t \in slabs : NoLater(s.in, t.out)


\* bulletVsObstacleAlongPath.
HitsAlong(from, to, r) == Touches(to, r) \/ Crosses(from, to, r)

-----------------------------------------------------------------------------
BesideX(p, r) == p.x <= Box.left - r \/ p.x >= Box.right + r
BesideY(p, r) == p.y <= Box.top - r \/ p.y >= Box.bottom + r

\* reflectBulletFromObstacle.
Reflected(from, to, r) ==
    LET wide  == Box.right - Box.left >= Box.bottom - Box.top
        flipX == BesideX(from, r) \/ (~BesideY(from, r) /\ ~wide)
        away  == Away(to)
        outX  == BesideX(from, r) \/ away.x * Sign(away.x) >= away.y * Sign(away.y)
    IN  [dir |-> IF flipX THEN [dir EXCEPT !.x = -@] ELSE [dir EXCEPT !.y = -@],
         at  |-> IF outX
                 THEN [to EXCEPT !.x = IF from.x < Box.left THEN Box.left - r - 1 ELSE Box.right + r + 1]
                 ELSE [to EXCEPT !.y = IF from.y < Box.top THEN Box.top - r - 1 ELSE Box.bottom + r + 1]]

\* Mutant: a tank is put where its centre is clear.
ResolvedMutant(from, to, r) ==
    IF ~Touches(to, r) THEN to
    ELSE IF from.x + r <= Box.left THEN [to EXCEPT !.x = Box.left - 1] ELSE to

\* resolvePlayerVsObstacle.
Resolved(from, to, r) ==
    LET away == Away(to)
        far(k) == away.x * away.x * k * k + away.y * away.y * k * k > r * r
        k    == CHOOSE n \in 1..(r + 1) : far(n) /\ (n = 1 \/ ~far(n - 1))
        gaps == <<to.x - Box.left, Box.right - to.x, to.y - Box.top, Box.bottom - to.y>>
        least(i) == \A j \in 1..4 : gaps[i] <= gaps[j]
    IN  CASE ~Touches(to, r)         -> to
          [] OTHER ->
            IF from.x + r <= Box.left        THEN [to EXCEPT !.x = Box.left - r - 1]
            ELSE IF from.x - r >= Box.right  THEN [to EXCEPT !.x = Box.right + r + 1]
            ELSE IF from.y + r <= Box.top    THEN [to EXCEPT !.y = Box.top - r - 1]
            ELSE IF from.y - r >= Box.bottom THEN [to EXCEPT !.y = Box.bottom + r + 1]
            ELSE IF away.x # 0 \/ away.y # 0
                 THEN [x |-> Closest(to).x + k * away.x, y |-> Closest(to).y + k * away.y]
            ELSE IF least(1) THEN [to EXCEPT !.x = Box.left - r - 1]
            ELSE IF least(2) THEN [to EXCEPT !.x = Box.right + r + 1]
            ELSE IF least(3) THEN [to EXCEPT !.y = Box.top - r - 1]
            ELSE [to EXCEPT !.y = Box.bottom + r + 1]

-----------------------------------------------------------------------------
GeometryInit ==
    /\ body \in {"shot", "tank"} /\ phase = "clear" /\ dir = [x |-> 0, y |-> 0]
    /\ at \in [x : Grid, y : Grid] /\ was = at /\ ~Touches(at, Radius)

Move ==
    /\ phase = "clear" /\ was = at
    /\ \E dx, dy \in Strides :
        /\ at' = [x |-> at.x + dx, y |-> at.y + dy]
        /\ dir' = [x |-> Sign(dx), y |-> Sign(dy)]
    /\ phase' = "moved" /\ UNCHANGED <<body, was>>

\* What a step of the loop does where the obstacle is a mirror, for a shot.
Collide ==
    /\ phase = "moved" /\ phase' = "clear"
    /\ \/ /\ body = "tank" /\ at' = Resolved(was, at, Radius) /\ UNCHANGED dir
       \/ /\ body = "shot" /\ HitsAlong(was, at, Radius)
          /\ at' = Reflected(was, at, Radius).at /\ dir' = Reflected(was, at, Radius).dir
       \/ /\ body = "shot" /\ ~HitsAlong(was, at, Radius) /\ UNCHANGED <<at, dir>>
    /\ UNCHANGED <<body, was>>

GeometryNext == Move \/ Collide
GeometrySpec == GeometryInit /\ [][GeometryNext]_geometryVars
-----------------------------------------------------------------------------
(* Properties. *)

\* Reference: a line meets a rectangle exactly if their extents overlap and the
\* corners are not all on one side of it.
Meets(from, to, r) ==
    LET dx == to.x - from.x  dy == to.y - from.y
        side(x, y) == dx * (y - from.y) - dy * (x - from.x)
        xs == {Box.left - r, Box.right + r}  ys == {Box.top - r, Box.bottom + r}
    IN  /\ High(from.x, to.x) >= Box.left - r /\ Low(from.x, to.x) <= Box.right + r
        /\ High(from.y, to.y) >= Box.top - r  /\ Low(from.y, to.y) <= Box.bottom + r
        /\ ~\A x \in xs, y \in ys : side(x, y) > 0
        /\ ~\A x \in xs, y \in ys : side(x, y) < 0

\* A shot that steps over an obstacle in one tick hits it, and one that passes by
\* does not: the slab test of the code, with its divisions and its two special
\* cases, agrees with a test by sides.
SweepAgrees ==
    phase = "moved" /\ body = "shot" => (HitsAlong(was, at, Radius) <=> Meets(was, at, Radius))

\* However deep a step went, what it moved is clear of the obstacle afterwards, so
\* that the next tick starts from outside again.
LeftClear == phase = "clear" => ~Touches(at, Radius)
=============================================================================
