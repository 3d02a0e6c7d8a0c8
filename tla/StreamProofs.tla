---------------------------- MODULE StreamProofs ----------------------------
(***************************************************************************)
(* The inductive invariant of Stream, for any map, shots and rates of the  *)
(* snapshots (StreamKept), from which ClientAgrees follows; and before it  *)
(* what is proved of loops that go through a list.                         *)
(***************************************************************************)
EXTENDS Stream, FiniteSetsExt, TLAPS, FiniteSetTheorems, WellFoundedInduction

-----------------------------------------------------------------------------
(* The least and the greatest of a set of numbers are in it. *)

LEMMA LeastOf ==
    ASSUME NEW S, S \subseteq Nat, S # {}
    PROVE  Min(S) \in S /\ \A x \in S : Min(S) <= x
<1>. DEFINE below == {p \in Nat \X Nat : p[1] < p[2]}
<1>1. OpToRel(<, Nat) = below
  BY Zenon DEF OpToRel
<1>2. IsWellFoundedOn(below, Nat)
  BY <1>1, NatLessThanWellFounded, Zenon
<1>3. PICK i \in S : \A j \in S : ~(<<j, i>> \in below)
  BY <1>2, WFMin
<1>4. ASSUME NEW j \in S PROVE i <= j
  <2>1. i \in Nat /\ j \in Nat
    OBVIOUS
  <2>2. j < i => <<j, i>> \in below
    BY <2>1
  <2>. QED  BY <1>3, <2>1, <2>2
<1>. QED  BY <1>4 DEF Min

LEMMA GreatestOf ==
    ASSUME NEW S, NEW n \in Nat, S \subseteq 0 .. n, S # {}
    PROVE  Max(S) \in S /\ \A x \in S : Max(S) >= x
<1>. DEFINE T == {n - x : x \in S}
<1>. HIDE DEF T
<1>1. T \subseteq Nat /\ T # {} /\ \A x \in S : n - x \in T
  <2>1. \A x \in S : x \in 0 .. n /\ n - x \in Nat
    OBVIOUS
  <2>. QED  BY <2>1 DEF T
<1>2. Min(T) \in T /\ \A t \in T : Min(T) <= t
  BY <1>1, LeastOf
<1>3. PICK x \in S : Min(T) = n - x
  BY <1>2 DEF T
<1>4. ASSUME NEW y \in S PROVE x >= y
  <2>1. n - x <= n - y /\ x \in 0 .. n /\ y \in 0 .. n
    BY <1>1, <1>2, <1>3
  <2>. QED  BY <2>1
<1>. QED  BY <1>4 DEF Max

-----------------------------------------------------------------------------
(* What is done in turn is done once for each entry: the recursive functions of  *)
(* the model exist, and what every step of theirs keeps, the last one has kept.  *)

LEMMA Climbs ==
    ASSUME NEW S, NEW n \in Nat, 0 \in S, \A i \in 1 .. n : i - 1 \in S => i \in S
    PROVE  \A i \in 0 .. n : i \in S
<1>. DEFINE T == {i \in 0 .. n : i \notin S}
<1>1. SUFFICES ASSUME T # {} PROVE FALSE
  OBVIOUS
<1>2. T \subseteq Nat
  OBVIOUS
<1>. HIDE DEF T
<1>3. Min(T) \in T /\ \A x \in T : Min(T) <= x
  BY <1>1, <1>2, LeastOf
<1>4. PICK m \in 0 .. n : m \notin S /\ \A x \in T : m <= x
  BY <1>3 DEF T
<1>5. m # 0 /\ m - 1 \in 0 .. n /\ m \in 1 .. n /\ ~(m <= m - 1)
  BY <1>4
<1>6. m - 1 \in S
  BY <1>4, <1>5 DEF T
<1>. QED  BY <1>4, <1>5, <1>6

Stepwise(F, n, G) == \A i \in 1 .. n : F[i] \in [G -> G]
InSteps(F, n, g, G, f) == f \in [0 .. n -> G] /\ f[0] = g /\ \A i \in 1 .. n : f[i] = F[i][f[i - 1]]

LEMMA Iterates ==
    ASSUME NEW G, NEW n \in Nat, NEW g \in G, NEW F, Stepwise(F, n, G)
    PROVE  \E f : InSteps(F, n, g, G, f)
<1>. DEFINE Reaches(m) == \E f \in [0 .. m -> G] : f[0] = g /\ \A i \in 1 .. m : f[i] = F[i][f[i - 1]]
            S == {m \in 0 .. n : Reaches(m)}
<1>1. 0 \in S
  <2>. DEFINE f == [i \in 0 .. 0 |-> g]
  <2>1. f \in [0 .. 0 -> G] /\ f[0] = g /\ \A i \in 1 .. 0 : f[i] = F[i][f[i - 1]]
    OBVIOUS
  <2>. HIDE DEF f
  <2>2. Reaches(0)
    BY <2>1
  <2>. QED  BY <2>2
<1>2. ASSUME NEW m \in 1 .. n, m - 1 \in S PROVE m \in S
  <2>1. PICK f \in [0 .. m - 1 -> G] : f[0] = g /\ \A i \in 1 .. m - 1 : f[i] = F[i][f[i - 1]]
    BY <1>2
  <2>. DEFINE e == [i \in 0 .. m |-> IF i = m THEN F[m][f[m - 1]] ELSE f[i]]
  <2>2. F[m] \in [G -> G] /\ f[m - 1] \in G
    <3>1. m - 1 \in 0 .. m - 1
      OBVIOUS
    <3>. QED  BY <2>1, <3>1 DEF Stepwise
  <2>3. \A i \in 0 .. m : i # m => i \in 0 .. m - 1
    OBVIOUS
  <2>4. e \in [0 .. m -> G] /\ e[0] = g
    BY <2>1, <2>2, <2>3
  <2>5. \A i \in 1 .. m : e[i] = F[i][e[i - 1]]
    <3>. SUFFICES ASSUME NEW i \in 1 .. m PROVE e[i] = F[i][e[i - 1]]
      OBVIOUS
    <3>1. i - 1 \in 0 .. m /\ i - 1 # m /\ i \in 0 .. m
      OBVIOUS
    <3>2. e[i - 1] = f[i - 1]
      BY <3>1
    <3>3. CASE i = m
      BY <3>1, <3>2, <3>3
    <3>4. CASE i # m
      <4>1. e[i] = f[i] /\ i \in 1 .. m - 1
        BY <3>1, <3>4
      <4>. QED  BY <2>1, <3>2, <4>1
    <3>. QED  BY <3>3, <3>4
  <2>6. Reaches(m)
    BY <2>4, <2>5
  <2>. QED  BY <2>6
<1>3. n \in S
  <2>. HIDE DEF S
  <2>1. \A i \in 0 .. n : i \in S
    BY <1>1, <1>2, Climbs
  <2>. QED  BY <2>1
<1>. QED  BY <1>3 DEF InSteps

LEMMA Remains ==
    ASSUME NEW G, NEW n \in Nat, NEW t, t[0] \in G, \A i \in 1 .. n : t[i - 1] \in G => t[i] \in G
    PROVE  t[n] \in G
<1>. DEFINE S == {i \in 0 .. n : t[i] \in G}
<1>1. 0 \in S
  OBVIOUS
<1>2. \A i \in 1 .. n : i - 1 \in S => i \in S
  OBVIOUS
<1>. HIDE DEF S
<1>3. n \in S
  <2>1. \A i \in 0 .. n : i \in S
    BY <1>1, <1>2, Climbs
  <2>. QED  BY <2>1
<1>. QED  BY <1>3 DEF S

-----------------------------------------------------------------------------
(* The stream to a client.  What a client holds of the obstacles, and the messages *)
(* on their way to it, lead to the obstacles of the server.                        *)

Healths == UNION {[S -> Nat] : S \in SUBSET DOMAIN Type}
Changes == [type : {"obstacle"}, id : DOMAIN Type, hp : Nat]
States  == [type : {"state"}, shots : SUBSET Shots, impacts : SUBSET Shots,
            powerUps : SUBSET PowerUps, me : BOOLEAN]
Joining == [type : {"joined"}, role : {"player", "watcher"},
            map : [field : Healths, powerUps : SUBSET PowerUps]]
Messages == Changes \cup States \cup Joining
Arenas == [field : Healths, powerUps : SUBSET PowerUps, unspawned : SUBSET PowerUps, pierce : Nat,
           flying : SUBSET Shots, fired : Nat, impacts : SUBSET Shots, events : Seq(Changes)]

\* The obstacles of a client after a message.
Effect(f, m) ==
    IF m.type = "joined" THEN m.map.field
    ELSE IF m.type = "obstacle" THEN WithHealth(f, m.id, m.hp) ELSE f

\* The messages of q make g of f.
Leads(f, q, g) ==
    \E d \in [0 .. Len(q) -> Healths] :
        /\ d[0] = f /\ d[Len(q)] = g
        /\ \A i \in 1 .. Len(q) : d[i] = Effect(d[i - 1], q[i])

LEMMA ShotsAre ==
    /\ Len(Kind) \in Nat /\ Shots = 1 .. Len(Kind) /\ Cardinality(Shots) = Len(Kind)
    /\ \A b \in Shots : Kind[b] \in {"shell", "laser", "grenade"}
<1>1. Len(Kind) \in Nat /\ Shots = 1 .. Len(Kind) /\ \A b \in Shots : Kind[b] \in {"shell", "laser", "grenade"}
  BY StreamAssumption DEF Shots
<1>2. Cardinality(1 .. Len(Kind)) = Len(Kind)
  <2>1. 1 \in Int /\ Len(Kind) \in Int
    BY <1>1
  <2>2. Cardinality(1 .. Len(Kind)) = IF 1 > Len(Kind) THEN 0 ELSE Len(Kind) - 1 + 1
    BY <2>1, FS_Interval
  <2>. QED  BY <1>1, <2>2
<1>. QED  BY <1>1, <1>2

LEMMA FieldIs ==
    ASSUME NEW f \in Healths
    PROVE  DOMAIN f \subseteq DOMAIN Type /\ f \in [DOMAIN f -> Nat]
BY DEF Healths

LEMMA FieldOf ==
    ASSUME NEW S, S \subseteq DOMAIN Type, NEW f \in [S -> Nat]
    PROVE  f \in Healths
BY DEF Healths

\* Health that is told of an obstacle that is gone changes nothing.
LEMMA WithHealthIs ==
    ASSUME NEW f \in Healths, NEW o, NEW hp, o \in DOMAIN f => hp \in Nat
    PROVE  /\ WithHealth(f, o, hp) \in Healths
           /\ DOMAIN f \ {o} \subseteq DOMAIN WithHealth(f, o, hp)
           /\ o \notin DOMAIN f => WithHealth(f, o, hp) = f
<1>. DEFINE S == IF hp = 0 THEN DOMAIN f \ {o} ELSE DOMAIN f
<1>1. DOMAIN f \subseteq DOMAIN Type /\ f \in [DOMAIN f -> Nat]
  BY FieldIs
<1>2. WithHealth(f, o, hp) = [p \in S |-> IF p = o THEN hp ELSE f[p]]
  BY DEF WithHealth
<1>3. S \subseteq DOMAIN f /\ DOMAIN f \ {o} \subseteq S
  OBVIOUS
<1>4. ASSUME NEW p \in S PROVE (IF p = o THEN hp ELSE f[p]) \in Nat
  BY <1>1, <1>3
<1>5. WithHealth(f, o, hp) \in [S -> Nat]
  BY <1>2, <1>4
<1>6. WithHealth(f, o, hp) \in Healths
  <2>1. S \subseteq DOMAIN Type
    BY <1>1, <1>3
  <2>. HIDE DEF S
  <2>. QED  BY <1>5, <2>1, FieldOf
<1>7. DOMAIN f \ {o} \subseteq DOMAIN WithHealth(f, o, hp)
  BY <1>2, <1>3
<1>8. ASSUME o \notin DOMAIN f PROVE WithHealth(f, o, hp) = f
  <2>1. S = DOMAIN f
    BY <1>8
  <2>. HIDE DEF S
  <2>. QED  BY <1>1, <1>2, <1>8, <2>1
<1>. QED  BY <1>6, <1>7, <1>8

LEMMA EffectIs ==
    ASSUME NEW f \in Healths, NEW m \in Messages PROVE Effect(f, m) \in Healths
<1>1. CASE m \in Changes
  <2>1. m.type = "obstacle" /\ m.hp \in Nat
    BY <1>1 DEF Changes
  <2>2. WithHealth(f, m.id, m.hp) \in Healths
    BY <2>1, WithHealthIs
  <2>. QED  BY <2>1, <2>2 DEF Effect
<1>2. CASE m \in States
  <2>1. m.type = "state"
    BY <1>2 DEF States
  <2>. QED  BY <2>1 DEF Effect
<1>3. CASE m \in Joining
  <2>1. m.type = "joined" /\ m.map.field \in Healths
    BY <1>3 DEF Joining
  <2>. QED  BY <2>1 DEF Effect
<1>. QED  BY <1>1, <1>2, <1>3 DEF Messages

LEMMA ChangesAre ==
    ASSUME NEW q \in Seq(Changes)
    PROVE  q \in Seq(Messages) /\ \A i \in 1 .. Len(q) : q[i].type = "obstacle"
<1>1. q \in [1 .. Len(q) -> Changes] /\ Len(q) \in Nat
  OBVIOUS
<1>2. \A i \in 1 .. Len(q) : q[i] \in Messages /\ q[i].type = "obstacle"
  BY <1>1 DEF Messages, Changes
<1>. QED  BY <1>2

LEMMA LeadsNowhere ==
    ASSUME NEW f \in Healths PROVE Leads(f, << >>, f)
<1>. DEFINE d == [i \in 0 .. 0 |-> f]
<1>1. d \in [0 .. 0 -> Healths] /\ d[0] = f /\ Len(<< >>) = 0
  OBVIOUS
<1>2. \A i \in 1 .. 0 : FALSE
  OBVIOUS
<1>. HIDE DEF d
<1>. QED  BY <1>1, <1>2 DEF Leads

LEMMA LeadsOne ==
    ASSUME NEW f \in Healths, NEW m \in Messages PROVE Leads(f, <<m>>, Effect(f, m))
<1>. DEFINE d == [i \in 0 .. 1 |-> IF i = 0 THEN f ELSE Effect(f, m)]
<1>1. Effect(f, m) \in Healths
  BY EffectIs
<1>2. d \in [0 .. 1 -> Healths] /\ d[0] = f /\ d[1] = Effect(f, m)
  BY <1>1
<1>3. Len(<<m>>) = 1 /\ <<m>>[1] = m
  OBVIOUS
<1>4. ASSUME NEW i \in 1 .. 1 PROVE d[i] = Effect(d[i - 1], <<m>>[i])
  <2>1. i = 1 /\ i - 1 = 0
    OBVIOUS
  <2>. HIDE DEF d
  <2>. QED  BY <1>2, <1>3, <2>1
<1>. HIDE DEF d
<1>. QED  BY <1>2, <1>3, <1>4 DEF Leads

LEMMA LeadsOn ==
    ASSUME NEW f, NEW g, NEW h, NEW q \in Seq(Messages), NEW t \in Seq(Messages),
           Leads(f, q, g), Leads(g, t, h)
    PROVE  Leads(f, q \o t, h)
<1>. DEFINE n == Len(q)
            k == Len(t)
            z == q \o t
<1>1. PICK d \in [0 .. n -> Healths] :
          d[0] = f /\ d[n] = g /\ \A i \in 1 .. n : d[i] = Effect(d[i - 1], q[i])
  BY DEF Leads
<1>2. PICK e \in [0 .. k -> Healths] :
          e[0] = g /\ e[k] = h /\ \A i \in 1 .. k : e[i] = Effect(e[i - 1], t[i])
  BY DEF Leads
<1>3. n \in Nat /\ k \in Nat /\ Len(z) = n + k
  OBVIOUS
<1>4. \A i \in 1 .. n + k : z[i] = IF i <= n THEN q[i] ELSE t[i - n]
  OBVIOUS
<1>. HIDE DEF n, k, z
<1>. DEFINE c == [i \in 0 .. n + k |-> IF i <= n THEN d[i] ELSE e[i - n]]
<1>5. c \in [0 .. n + k -> Healths]
  <2>1. ASSUME NEW i \in 0 .. n + k PROVE (IF i <= n THEN d[i] ELSE e[i - n]) \in Healths
    <3>1. (i <= n => i \in 0 .. n) /\ (~(i <= n) => i - n \in 0 .. k)
      BY <1>3
    <3>. QED  BY <1>1, <1>2, <3>1
  <2>. QED  BY <2>1
<1>6. c[0] = f /\ c[n + k] = h
  <2>1. 0 \in 0 .. n + k /\ n + k \in 0 .. n + k /\ 0 <= n /\ (n + k) - n = k /\ (n + k <= n => k = 0 /\ n + k = n)
    BY <1>3
  <2>2. c[0] = d[0] /\ (n + k <= n => c[n + k] = d[n]) /\ (~(n + k <= n) => c[n + k] = e[k])
    BY <2>1
  <2>. HIDE DEF c
  <2>. QED  BY <1>1, <1>2, <2>1, <2>2
<1>7. ASSUME NEW i \in 1 .. n + k PROVE c[i] = Effect(c[i - 1], z[i])
  <2>1. i \in 0 .. n + k /\ i - 1 \in 0 .. n + k
    BY <1>3
  <2>2. CASE i <= n
    <3>1. i \in 1 .. n /\ i - 1 <= n
      BY <1>3, <2>2
    <3>2. c[i] = d[i] /\ c[i - 1] = d[i - 1]
      BY <2>1, <2>2, <3>1
    <3>. QED  BY <1>1, <1>4, <2>2, <3>1, <3>2
  <2>3. CASE ~(i <= n)
    <3>1. i - n \in 1 .. k /\ (i - n) - 1 = (i - 1) - n /\ (i - 1 <= n => i - 1 = n /\ (i - n) - 1 = 0)
      BY <1>3, <2>3
    <3>2. c[i] = e[i - n]
      BY <2>1, <2>3
    <3>3. c[i - 1] = e[(i - n) - 1]
      <4>1. c[i - 1] = IF i - 1 <= n THEN d[i - 1] ELSE e[(i - 1) - n]
        BY <2>1
      <4>. HIDE DEF c
      <4>. QED  BY <1>1, <1>2, <3>1, <4>1
    <3>4. z[i] = t[i - n]
      BY <1>4, <2>3
    <3>. HIDE DEF c
    <3>. QED  BY <1>2, <3>1, <3>2, <3>3, <3>4
  <2>. QED  BY <2>2, <2>3
<1>. HIDE DEF c
<1>. QED  BY <1>3, <1>5, <1>6, <1>7 DEF Leads, z

LEMMA LeadsTail ==
    ASSUME NEW f, NEW g, NEW q \in Seq(Messages), q # << >>, Leads(f, q, g)
    PROVE  Leads(Effect(f, Head(q)), Tail(q), g)
<1>. DEFINE n == Len(q)
<1>1. PICK d \in [0 .. n -> Healths] :
          d[0] = f /\ d[n] = g /\ \A i \in 1 .. n : d[i] = Effect(d[i - 1], q[i])
  BY DEF Leads
<1>2. n \in Nat \ {0} /\ Len(Tail(q)) = n - 1 /\ Head(q) = q[1]
  OBVIOUS
<1>3. \A i \in 1 .. n - 1 : Tail(q)[i] = q[i + 1]
  OBVIOUS
<1>. HIDE DEF n
<1>. DEFINE e == [i \in 0 .. n - 1 |-> d[i + 1]]
<1>4. e \in [0 .. n - 1 -> Healths]
  <2>1. \A i \in 0 .. n - 1 : i + 1 \in 0 .. n
    BY <1>2
  <2>. QED  BY <1>1, <2>1
<1>5. e[0] = Effect(f, Head(q)) /\ e[n - 1] = g
  <2>1. 0 \in 0 .. n - 1 /\ n - 1 \in 0 .. n - 1 /\ (n - 1) + 1 = n /\ 0 + 1 = 1 /\ 1 \in 1 .. n /\ 1 - 1 = 0
    BY <1>2
  <2>2. e[0] = d[1] /\ e[n - 1] = d[n]
    BY <2>1
  <2>. HIDE DEF e
  <2>. QED  BY <1>1, <1>2, <2>1, <2>2
<1>6. ASSUME NEW i \in 1 .. n - 1 PROVE e[i] = Effect(e[i - 1], Tail(q)[i])
  <2>1. i \in 0 .. n - 1 /\ i - 1 \in 0 .. n - 1 /\ i + 1 \in 1 .. n /\ (i + 1) - 1 = i /\ (i - 1) + 1 = i
    BY <1>2
  <2>2. e[i] = d[i + 1] /\ e[i - 1] = d[i]
    BY <2>1
  <2>. HIDE DEF e
  <2>. QED  BY <1>1, <1>3, <2>1, <2>2
<1>. HIDE DEF e
<1>. QED  BY <1>2, <1>4, <1>5, <1>6 DEF Leads

-----------------------------------------------------------------------------
(* What shots do.  A shot flies, ends, and its impact is told: none of it comes    *)
(* back, and what changes of the obstacles is told.                                *)

\* Shots are fired in order, and only shells leave an impact.
Possible(x) ==
    /\ x.fired \in Nat /\ x.fired <= Len(Kind)
    /\ x.flying \subseteq 1 .. x.fired /\ x.impacts \subseteq 1 .. x.fired
    /\ x.flying \cap x.impacts = {}
    /\ \A b \in x.impacts : Kind[b] = "shell"

\* What was fired by the time of x has not come back at that of y.
Later(x, y) ==
    /\ x.fired <= y.fired
    /\ \A b \in 1 .. x.fired :
        /\ b \in y.flying => b \in x.flying
        /\ b \in y.impacts => b \in x.flying \cup x.impacts

\* What a tick may make of an arena, so far.
Reached(x) ==
    {t \in Arenas : Leads(x.field, t.events, t.field) /\ Possible(t) /\ Later(x, t)}

LEMMA LaterIsTransitive ==
    ASSUME NEW x, NEW y, NEW z, x.fired \in Nat, y.fired \in Nat, z.fired \in Nat,
           Later(x, y), Later(y, z)
    PROVE  Later(x, z)
<1>1. x.fired <= z.fired
  BY DEF Later
<1>2. \A b \in 1 .. x.fired : b \in 1 .. y.fired
  BY DEF Later
<1>. QED  BY <1>1, <1>2 DEF Later

LEMMA ToldReaches ==
    ASSUME NEW x, x.field \in Healths, NEW t \in Reached(x), NEW o \in Standing(t), NEW hp \in Nat
    PROVE  Told(t, o, hp) \in Reached(x) /\ Standing(t) \ {o} \subseteq Standing(Told(t, o, hp))
<1>. DEFINE m == [type |-> "obstacle", id |-> o, hp |-> hp]
            u == [t EXCEPT !.field = WithHealth(t.field, o, hp), !.events = Append(t.events, m)]
<1>1. t \in Arenas /\ Leads(x.field, t.events, t.field) /\ Possible(t) /\ Later(x, t)
  BY DEF Reached
<1>2. t.field \in Healths /\ t.events \in Seq(Changes) /\ t.events \in Seq(Messages)
  BY <1>1, ChangesAre DEF Arenas
<1>3. Told(t, o, hp) = u
  BY DEF Told
<1>4. m \in Changes /\ m \in Messages
  <2>1. o \in DOMAIN Type
    BY <1>2, FieldIs DEF Standing
  <2>. QED  BY <2>1 DEF Messages, Changes
<1>5. /\ WithHealth(t.field, o, hp) \in Healths
      /\ DOMAIN t.field \ {o} \subseteq DOMAIN WithHealth(t.field, o, hp)
  BY <1>2, WithHealthIs
<1>6. Append(t.events, m) \in Seq(Changes) /\ Append(t.events, m) = t.events \o <<m>> /\ <<m>> \in Seq(Messages)
  BY <1>2, <1>4
<1>7. u \in Arenas
  BY <1>1, <1>5, <1>6 DEF Arenas
<1>8. /\ u.field = WithHealth(t.field, o, hp) /\ u.events = t.events \o <<m>>
      /\ u.fired = t.fired /\ u.flying = t.flying /\ u.impacts = t.impacts
  BY <1>1, <1>6 DEF Arenas
<1>9. Effect(t.field, m) = WithHealth(t.field, o, hp)
  BY DEF Effect
<1>. HIDE DEF m, u
<1>10. Leads(x.field, u.events, u.field)
  BY <1>1, <1>2, <1>4, <1>6, <1>8, <1>9, LeadsOne, LeadsOn
<1>11. Possible(u) /\ Later(x, u)
  BY <1>1, <1>8 DEF Possible, Later
<1>. QED  BY <1>3, <1>5, <1>7, <1>8, <1>10, <1>11 DEF Reached, Standing

LEMMA DamagedReaches ==
    ASSUME NEW x, x.field \in Healths, NEW t \in Reached(x), NEW o \in Standing(t), NEW damage \in Nat
    PROVE  Damaged(t, o, damage) \in Reached(x) /\ Standing(t) \ {o} \subseteq Standing(Damaged(t, o, damage))
<1>. DEFINE hp == IF t.field[o] > damage THEN t.field[o] - damage ELSE 0
<1>1. t.field \in Healths
  BY DEF Reached, Arenas
<1>2. t.field[o] \in Nat
  BY <1>1, FieldIs DEF Standing
<1>3. hp \in Nat
  BY <1>2
<1>4. Damaged(t, o, damage) = Told(t, o, hp)
  BY DEF Damaged
<1>. HIDE DEF hp
<1>. QED  BY <1>3, <1>4, ToldReaches

\* A beam meets one obstacle.
Enters(b, o) ==
    IF b.stopped THEN b
    ELSE CASE Type[o] = "bush"   -> [b EXCEPT !.arena = BurntBush(@, o)]
           [] Type[o] = "mirror" -> [b EXCEPT !.stopped = TRUE, !.mirror = o]
           [] Type[o] = "steel"  -> IF b.arena.pierce > 0
                                    THEN [b EXCEPT !.arena.pierce = @ - 1]
                                    ELSE [b EXCEPT !.stopped = TRUE]
           [] OTHER -> LET hit == Damaged(b.arena, o, BeamDamage)
                       IN  [b EXCEPT !.arena = hit, !.stopped = o \in Standing(hit)]

Rays(x) == [arena : Reached(x), stopped : BOOLEAN, mirror : DOMAIN Type \cup {Nothing}]

LEMMA EntersReaches ==
    ASSUME NEW x, x.field \in Healths, NEW b \in Rays(x), NEW o \in Standing(b.arena)
    PROVE  Enters(b, o) \in Rays(x) /\ Standing(b.arena) \ {o} \subseteq Standing(Enters(b, o).arena)
<1>1. b.arena \in Reached(x)
  BY DEF Rays
<1>2. o \in DOMAIN Type
  <2>1. b.arena.field \in Healths
    BY <1>1 DEF Reached, Arenas
  <2>. QED  BY <2>1, FieldIs DEF Standing
<1>3. CASE b.stopped
  BY <1>3 DEF Enters
<1>4. CASE ~b.stopped /\ Type[o] = "bush"
  <2>1. BurntBush(b.arena, o) \in Reached(x) /\ Standing(b.arena) \ {o} \subseteq Standing(BurntBush(b.arena, o))
    BY <1>1, ToldReaches DEF BurntBush
  <2>2. Enters(b, o) = [b EXCEPT !.arena = BurntBush(b.arena, o)]
    BY <1>4 DEF Enters
  <2>. QED  BY <2>1, <2>2 DEF Rays
<1>5. CASE ~b.stopped /\ Type[o] = "mirror"
  <2>1. Enters(b, o) = [b EXCEPT !.stopped = TRUE, !.mirror = o]
    BY <1>5 DEF Enters
  <2>. QED  BY <1>2, <2>1 DEF Rays
<1>6. CASE ~b.stopped /\ Type[o] = "steel"
  <2>1. CASE b.arena.pierce > 0
    <3>. DEFINE t == b.arena
                u == [t EXCEPT !.pierce = t.pierce - 1]
    <3>1. t \in Arenas /\ Leads(x.field, t.events, t.field) /\ Possible(t) /\ Later(x, t)
      BY <1>1 DEF Reached
    <3>2. t.pierce \in Nat /\ t.pierce - 1 \in Nat
      BY <2>1, <3>1 DEF Arenas
    <3>3. /\ u \in Arenas /\ u.field = t.field /\ u.events = t.events
          /\ u.fired = t.fired /\ u.flying = t.flying /\ u.impacts = t.impacts
      BY <3>1, <3>2 DEF Arenas
    <3>4. Enters(b, o) = [b EXCEPT !.arena = u]
      BY <1>6, <2>1 DEF Enters
    <3>. HIDE DEF u
    <3>5. u \in Reached(x)
      BY <3>1, <3>3 DEF Reached, Possible, Later
    <3>6. Standing(u) = Standing(t)
      BY <3>3 DEF Standing
    <3>. QED  BY <3>4, <3>5, <3>6 DEF Rays
  <2>2. CASE ~(b.arena.pierce > 0)
    <3>1. Enters(b, o) = [b EXCEPT !.stopped = TRUE]
      BY <1>6, <2>2 DEF Enters
    <3>. QED  BY <3>1 DEF Rays
  <2>. QED  BY <2>1, <2>2
<1>7. CASE ~b.stopped /\ Type[o] \notin {"bush", "mirror", "steel"}
  <2>. DEFINE hit == Damaged(b.arena, o, BeamDamage)
  <2>1. hit \in Reached(x) /\ Standing(b.arena) \ {o} \subseteq Standing(hit)
    BY <1>1, DamagedReaches, StreamAssumption
  <2>2. Enters(b, o) = [b EXCEPT !.arena = hit, !.stopped = o \in Standing(hit)]
    BY <1>7 DEF Enters
  <2>. DEFINE ends == o \in Standing(hit)
  <2>3. ends \in BOOLEAN /\ Enters(b, o) = [b EXCEPT !.arena = hit, !.stopped = ends]
    BY <2>2
  <2>. HIDE DEF hit, ends
  <2>. QED  BY <2>1, <2>3 DEF Rays
<1>. QED  BY <1>3, <1>4, <1>5, <1>6, <1>7

\* The beam goes through what it meets, one obstacle after the other.
LEMMA SegmentIs ==
    ASSUME NEW b, NEW hits, Len(hits) \in 0 .. 2
    PROVE  /\ Len(hits) = 0 => Segment(b, hits) = b
           /\ Len(hits) = 1 => Segment(b, hits) = Enters(b, hits[1])
           /\ Len(hits) = 2 => Segment(b, hits) = Enters(Enters(b, hits[1]), hits[2])
<1>. DEFINE n == Len(hits)
            On(d) == [i \in 0 .. n |-> IF i = 0 THEN b ELSE Enters(d[i - 1], hits[i])]
            t == CHOOSE d : d = On(d)
            e == [i \in 0 .. n |-> IF i = 0 THEN b
                                   ELSE IF i = 1 THEN Enters(b, hits[1])
                                   ELSE Enters(Enters(b, hits[1]), hits[2])]
<1>1. Segment(b, hits) = t[n]
  BY Zenon DEF Segment, InTurn, Enters
<1>. HIDE DEF n
<1>2. n \in 0 .. 2
  BY DEF n
<1>3. e = On(e)
  <2>1. ASSUME NEW i \in 0 .. n PROVE e[i] = IF i = 0 THEN b ELSE Enters(e[i - 1], hits[i])
    <3>1. i = 0 \/ i = 1 \/ i = 2
      BY <1>2
    <3>2. CASE i = 0
      BY <3>2
    <3>3. CASE i = 1
      <4>1. i - 1 = 0 /\ 0 \in 0 .. n /\ i # 0
        BY <1>2, <3>3
      <4>2. e[0] = b /\ e[i] = Enters(b, hits[1])
        BY <3>3, <4>1
      <4>. HIDE DEF e
      <4>. QED  BY <3>3, <4>1, <4>2
    <3>4. CASE i = 2
      <4>1. i - 1 = 1 /\ 1 \in 0 .. n /\ i # 0 /\ i # 1
        BY <1>2, <3>4
      <4>2. e[1] = Enters(b, hits[1]) /\ e[i] = Enters(Enters(b, hits[1]), hits[2])
        BY <3>4, <4>1
      <4>. HIDE DEF e
      <4>. QED  BY <3>4, <4>1, <4>2
    <3>. QED  BY <3>1, <3>2, <3>3, <3>4
  <2>2. e = [i \in 0 .. n |-> e[i]]
    OBVIOUS
  <2>. HIDE DEF e
  <2>. QED  BY <2>1, <2>2
<1>. HIDE DEF e
<1>4. t = On(t)
  BY <1>3
<1>. HIDE DEF t
<1>5. \A i \in 0 .. n : t[i] = IF i = 0 THEN b ELSE Enters(t[i - 1], hits[i])
  BY <1>4
<1>6. t[0] = b
  BY <1>2, <1>5
<1>7. n >= 1 => t[1] = Enters(b, hits[1])
  <2>1. n >= 1 => 1 \in 0 .. n /\ 1 # 0 /\ 1 - 1 = 0
    BY <1>2
  <2>. QED  BY <1>5, <1>6, <2>1
<1>8. n = 2 => t[2] = Enters(t[1], hits[2])
  <2>1. n = 2 => 2 \in 0 .. n /\ 2 # 0 /\ 2 - 1 = 1
    OBVIOUS
  <2>. QED  BY <1>5, <2>1
<1>9. n = 0 => Segment(b, hits) = b
  BY <1>1, <1>6
<1>10. n = 1 => Segment(b, hits) = Enters(b, hits[1])
  BY <1>1, <1>7
<1>11. n = 2 => Segment(b, hits) = Enters(Enters(b, hits[1]), hits[2])
  <2>1. n = 2 => n >= 1
    OBVIOUS
  <2>. QED  BY <1>1, <1>7, <1>8, <2>1
<1>. QED  BY <1>9, <1>10, <1>11 DEF n

LEMMA SegmentReaches ==
    ASSUME NEW x, x.field \in Healths, NEW b \in Rays(x), NEW S, S \subseteq Standing(b.arena),
           NEW hits \in Lines(S)
    PROVE  Segment(b, hits) \in Rays(x)
<1>1. CASE hits = << >>
  <2>1. Len(hits) = 0
    BY <1>1
  <2>. QED  BY <2>1, SegmentIs
<1>2. CASE hits \in {<<o>> : o \in S}
  <2>1. PICK o \in S : hits = <<o>>
    BY <1>2
  <2>2. Len(hits) = 1 /\ hits[1] = o /\ o \in Standing(b.arena)
    BY <2>1
  <2>3. Segment(b, hits) = Enters(b, o)
    BY <2>2, SegmentIs
  <2>. QED  BY <2>2, <2>3, EntersReaches
<1>3. CASE hits \in {<<h[1], h[2]>> : h \in {i \in S \X S : i[1] # i[2]}}
  <2>1. PICK h \in S \X S : h[1] # h[2] /\ hits = <<h[1], h[2]>>
    BY <1>3
  <2>2. /\ Len(hits) = 2 /\ hits[1] = h[1] /\ hits[2] = h[2]
        /\ h[1] \in Standing(b.arena) /\ h[2] \in Standing(b.arena) /\ h[1] # h[2]
    BY <2>1
  <2>3. Segment(b, hits) = Enters(Enters(b, h[1]), h[2])
    BY <2>2, SegmentIs
  <2>4. Enters(b, h[1]) \in Rays(x) /\ h[2] \in Standing(Enters(b, h[1]).arena)
    BY <2>2, EntersReaches
  <2>5. Enters(Enters(b, h[1]), h[2]) \in Rays(x)
    BY <2>4, EntersReaches
  <2>. QED  BY <2>3, <2>5
<1>. QED  BY <1>1, <1>2, <1>3 DEF Lines

LEMMA BeamsReach ==
    ASSUME NEW x, x.field \in Healths, NEW t \in Reached(x), NEW u \in Beams(t)
    PROVE  u \in Reached(x)
<1>. DEFINE Crossed(b) == {o \in Standing(b) : Type[o] # "decoration"}
            beam == [arena |-> t, stopped |-> FALSE, mirror |-> Nothing]
            LeftBy(first) ==
                IF first.mirror = Nothing THEN {first.arena}
                ELSE {Segment([first EXCEPT !.stopped = FALSE], hits).arena :
                         hits \in Lines(Crossed(first.arena) \ {first.mirror})}
<1>1. beam \in Rays(x) /\ beam.arena = t
  BY DEF Rays
<1>2. PICK first \in {Segment(beam, hits) : hits \in Lines(Crossed(t))} : u \in LeftBy(first)
  <2>1. Beams(t) = UNION {LeftBy(first) : first \in {Segment(beam, hits) : hits \in Lines(Crossed(t))}}
    BY Zenon DEF Beams
  <2>. HIDE DEF Crossed, LeftBy, beam
  <2>. QED  BY <2>1
<1>. DEFINE next == [first EXCEPT !.stopped = FALSE]
<1>3. first \in Rays(x)
  <2>1. Crossed(t) \subseteq Standing(beam.arena)
    BY <1>1
  <2>2. PICK hits \in Lines(Crossed(t)) : first = Segment(beam, hits)
    BY <1>2
  <2>. HIDE DEF Crossed, beam
  <2>. QED  BY <1>1, <2>1, <2>2, SegmentReaches
<1>. HIDE DEF beam
<1>4. CASE first.mirror = Nothing
  BY <1>2, <1>3, <1>4 DEF Rays
<1>5. CASE first.mirror # Nothing
  <2>1. PICK more \in Lines(Crossed(first.arena) \ {first.mirror}) : u = Segment(next, more).arena
    BY <1>2, <1>5
  <2>2. next \in Rays(x) /\ next.arena = first.arena
    BY <1>3 DEF Rays
  <2>3. Crossed(first.arena) \ {first.mirror} \subseteq Standing(next.arena)
    BY <2>2
  <2>. HIDE DEF next, Crossed
  <2>4. Segment(next, more) \in Rays(x)
    BY <2>2, <2>3, SegmentReaches
  <2>. QED  BY <2>1, <2>4 DEF Rays
<1>. QED  BY <1>4, <1>5

\* A blast reaches one obstacle.
Blasted(g, o, S) == IF o \in S \cap Standing(g) THEN Damaged(g, o, ShotDamage) ELSE g

LEMMA ExplodedReaches ==
    ASSUME NEW x, x.field \in Healths, NEW a \in Reached(x), NEW S
    PROVE  Exploded(a, S) \in Reached(x)
<1>. DEFINE n == Len(Type)
            s == [i \in 1 .. n |-> n + 1 - i]
            G == Reached(x)
            F == [i \in 1 .. n |-> [g \in G |-> Blasted(g, s[i], S)]]
            On(d) == [i \in 0 .. n |-> IF i = 0 THEN a ELSE Blasted(d[i - 1], s[i], S)]
            t == CHOOSE d : d = On(d)
<1>1. n \in Nat /\ Len(s) = n
  BY StreamAssumption
<1>2. Exploded(a, S) = t[n]
  <2>1. Exploded(a, S) = (CHOOSE d : d = [i \in 0 .. Len(s) |-> IF i = 0 THEN a ELSE Blasted(d[i - 1], s[i], S)])[Len(s)]
    BY Zenon DEF Exploded, InTurn, Blasted
  <2>. HIDE DEF s
  <2>. QED  BY <1>1, <2>1
<1>3. \A i \in 1 .. n : \A g \in G : Blasted(g, s[i], S) \in G
  BY DamagedReaches, StreamAssumption DEF Blasted
<1>. HIDE DEF n, s, G
<1>4. a \in G
  BY DEF G
<1>5. \E d : InSteps(F, n, a, G, d)
  <2>1. Stepwise(F, n, G)
    BY <1>3 DEF Stepwise
  <2>. HIDE DEF F
  <2>. QED  BY <1>1, <1>4, <2>1, Iterates
<1>6. PICK d \in [0 .. n -> G] : d[0] = a /\ \A i \in 1 .. n : d[i] = F[i][d[i - 1]]
  BY <1>5 DEF InSteps
<1>7. d = On(d)
  <2>1. \A i \in 1 .. n : i \in 0 .. n /\ i - 1 \in 0 .. n /\ i # 0
    BY <1>1
  <2>2. \A i \in 1 .. n : d[i] = Blasted(d[i - 1], s[i], S)
    BY <1>6, <2>1
  <2>3. \A i \in 0 .. n : i = 0 \/ i \in 1 .. n
    BY <1>1
  <2>. QED  BY <1>6, <2>1, <2>2, <2>3
<1>. HIDE DEF F
<1>8. t = On(t)
  BY <1>7
<1>. HIDE DEF t
<1>9. t[0] \in G /\ \A i \in 1 .. n : t[i - 1] \in G => t[i] \in G
  <2>1. 0 \in 0 .. n /\ \A i \in 1 .. n : i \in 0 .. n /\ i # 0
    BY <1>1
  <2>2. t[0] = a /\ \A i \in 1 .. n : t[i] = Blasted(t[i - 1], s[i], S)
    BY <1>8, <2>1
  <2>. QED  BY <1>3, <1>4, <2>2
<1>10. t[n] \in G
  BY <1>1, <1>9, Remains
<1>. QED  BY <1>2, <1>10 DEF G

LEMMA OverReaches ==
    ASSUME NEW x, NEW t \in Reached(x), NEW b \in Shots
    PROVE  Over(t, b) \in Reached(x) /\ Standing(Over(t, b)) = Standing(t)
<1>. DEFINE u == [t EXCEPT !.flying = t.flying \ {b}]
<1>1. t \in Arenas /\ Leads(x.field, t.events, t.field) /\ Possible(t) /\ Later(x, t)
  BY DEF Reached
<1>2. /\ u \in Arenas /\ u.field = t.field /\ u.events = t.events
      /\ u.fired = t.fired /\ u.flying = t.flying \ {b} /\ u.impacts = t.impacts
  BY <1>1 DEF Arenas
<1>3. Over(t, b) = u
  BY DEF Over
<1>. HIDE DEF u
<1>. QED  BY <1>1, <1>2, <1>3 DEF Reached, Possible, Later, Standing

LEMMA ImpactReaches ==
    ASSUME NEW x, x.fired \in Nat, NEW t \in Reached(x), NEW b \in t.flying, Kind[b] = "shell"
    PROVE  Impact(t, b) \in Reached(x) /\ Standing(Impact(t, b)) = Standing(t)
<1>. DEFINE u == [t EXCEPT !.flying = t.flying \ {b}, !.impacts = t.impacts \cup {b}]
<1>1. t \in Arenas /\ Leads(x.field, t.events, t.field) /\ Possible(t) /\ Later(x, t)
  BY DEF Reached
<1>2. b \in Shots
  BY <1>1 DEF Arenas
<1>3. /\ u \in Arenas /\ u.field = t.field /\ u.events = t.events
      /\ u.fired = t.fired /\ u.flying = t.flying \ {b} /\ u.impacts = t.impacts \cup {b}
  BY <1>1, <1>2 DEF Arenas
<1>4. Impact(t, b) = u
  BY <1>1 DEF Impact, Over, Arenas
<1>. HIDE DEF u
<1>5. Possible(u)
  BY <1>1, <1>3 DEF Possible
<1>6. Later(x, u)
  BY <1>1, <1>3 DEF Later
<1>. QED  BY <1>1, <1>3, <1>4, <1>5, <1>6 DEF Reached, Standing

LEMMA AfterShotReaches ==
    ASSUME NEW x, x.field \in Healths, x.fired \in Nat, NEW t \in Reached(x), NEW b \in t.flying,
           NEW u \in AfterShot(t, b)
    PROVE  u \in Reached(x)
<1>1. b \in Shots /\ Kind[b] \in {"shell", "laser", "grenade"}
  BY ShotsAre DEF Reached, Arenas
<1>2. CASE u = t
  BY <1>2
<1>3. CASE Kind[b] = "laser" /\ u \in {Over(t, b)} \cup Beams(t)
  BY <1>1, <1>3, OverReaches, BeamsReach
<1>4. CASE Kind[b] = "grenade" /\ u \in {Over(Exploded(t, S), b) : S \in SUBSET (Standing(t) \cap (Breakable \ SoftCover))}
  <2>1. PICK S : u = Over(Exploded(t, S), b)
    BY <1>4
  <2>2. Exploded(t, S) \in Reached(x)
    BY ExplodedReaches
  <2>. QED  BY <1>1, <2>1, <2>2, OverReaches
<1>5. CASE Kind[b] = "shell"
           /\ u \in {Impact(t, b)} \cup
                    {Damaged(Impact(t, b), o, ShotDamage) : o \in Standing(t) \cap (Breakable \ SoftCover)}
  <2>1. Impact(t, b) \in Reached(x) /\ Standing(Impact(t, b)) = Standing(t)
    BY <1>5, ImpactReaches
  <2>2. CASE u = Impact(t, b)
    BY <2>1, <2>2
  <2>3. CASE \E o \in Standing(t) : u = Damaged(Impact(t, b), o, ShotDamage)
    BY <2>1, <2>3, DamagedReaches, StreamAssumption
  <2>. QED  BY <1>5, <2>2, <2>3
<1>. QED  BY <1>1, <1>2, <1>3, <1>4, <1>5 DEF AfterShot

\* One shot, in each of the arenas that those before it may have left.
Moved(S, b) == UNION {IF b \in g.flying THEN AfterShot(g, b) ELSE {g} : g \in S}

LEMMA AfterShotsReach ==
    ASSUME NEW x, x.field \in Healths, x.fired \in Nat, NEW a \in Reached(x), NEW u \in AfterShots(a)
    PROVE  u \in Reached(x)
<1>. DEFINE n == a.fired
            s == Numbered(n)
            G == SUBSET Reached(x)
            F == [i \in 1 .. n |-> [S \in G |-> Moved(S, s[i])]]
            On(d) == [i \in 0 .. n |-> IF i = 0 THEN {a} ELSE Moved(d[i - 1], s[i])]
            t == CHOOSE d : d = On(d)
<1>1. n \in Nat /\ Len(s) = n
  BY DEF Reached, Arenas, Numbered
<1>2. AfterShots(a) = t[n]
  <2>1. AfterShots(a) = (CHOOSE d : d = [i \in 0 .. Len(s) |-> IF i = 0 THEN {a} ELSE Moved(d[i - 1], s[i])])[Len(s)]
    BY Zenon DEF AfterShots, InTurn, Moved
  <2>. HIDE DEF s
  <2>. QED  BY <1>1, <2>1
<1>3. \A i \in 1 .. n : \A S \in G : Moved(S, s[i]) \in G
  <2>. SUFFICES ASSUME NEW i \in 1 .. n, NEW S \in G, NEW g \in S,
                       NEW z \in IF s[i] \in g.flying THEN AfterShot(g, s[i]) ELSE {g}
                PROVE  z \in Reached(x)
    BY DEF Moved
  <2>. QED  BY AfterShotReaches
<1>4. {a} \in G
  OBVIOUS
<1>. HIDE DEF n, s, G
<1>5. \E d : InSteps(F, n, {a}, G, d)
  <2>1. Stepwise(F, n, G)
    BY <1>3 DEF Stepwise
  <2>. HIDE DEF F
  <2>. QED  BY <1>1, <1>4, <2>1, Iterates
<1>6. PICK d \in [0 .. n -> G] : d[0] = {a} /\ \A i \in 1 .. n : d[i] = F[i][d[i - 1]]
  BY <1>5 DEF InSteps
<1>7. d = On(d)
  <2>1. \A i \in 1 .. n : i \in 0 .. n /\ i - 1 \in 0 .. n /\ i # 0
    BY <1>1
  <2>2. \A i \in 1 .. n : d[i] = Moved(d[i - 1], s[i])
    BY <1>6, <2>1
  <2>3. \A i \in 0 .. n : i = 0 \/ i \in 1 .. n
    BY <1>1
  <2>. QED  BY <1>6, <2>1, <2>2, <2>3
<1>. HIDE DEF F
<1>8. t = On(t)
  BY <1>7
<1>. HIDE DEF t
<1>9. t[0] \in G /\ \A i \in 1 .. n : t[i - 1] \in G => t[i] \in G
  <2>1. 0 \in 0 .. n /\ \A i \in 1 .. n : i \in 0 .. n /\ i # 0
    BY <1>1
  <2>2. t[0] = {a} /\ \A i \in 1 .. n : t[i] = Moved(t[i - 1], s[i])
    BY <1>8, <2>1
  <2>. QED  BY <1>3, <1>4, <2>2
<1>10. t[n] \in G
  BY <1>1, <1>9, Remains
<1>. QED  BY <1>2, <1>10 DEF G

-----------------------------------------------------------------------------
(* What a client makes of the snapshots it draws, given what was the case when the *)
(* last one that it has drawn was made.                                            *)

Views == [latest : States \cup {Nothing}, ready : BOOLEAN, seen : SUBSET Shots,
          played : SUBSET Shots, shown : [Shots -> Nat], known : SUBSET Shots]
Pasts == [flying : SUBSET Shots, impacts : SUBSET Shots, fired : Nat, alive : BOOLEAN]

Precedes(x, y) == Later(x, y) /\ (y.alive => x.alive)

\* A snapshot of that moment; a client that plays is told of the impacts.
Shows(s, y, plays) ==
    /\ s.shots = y.flying /\ s.me = (y.alive /\ plays)
    /\ s.me => s.impacts = y.impacts

\* What was drawn of each shot at that moment.
Drawn(v, e, plays) ==
    /\ v.seen = e.flying /\ v.seen \cap v.played = {}
    /\ v.known \subseteq 1 .. e.fired /\ v.played \subseteq 1 .. e.fired
    /\ \A b \in Shots :
        /\ v.shown[b] <= 1
        /\ b \notin 1 .. e.fired \/ b \in e.flying => v.shown[b] = 0
        /\ e.alive /\ plays /\ b \in e.impacts \ v.played => v.shown[b] = 0
        /\ e.alive /\ plays /\ Kind[b] # "laser" /\ b \in v.known \ v.seen => v.shown[b] = 1

Viewed(v, e, plays) ==
    IF v.ready THEN Drawn(v, e, plays)
    ELSE v.seen = {} /\ v.played = {} /\ v.known = {} /\ v.shown = [b \in Shots |-> 0]

LEMMA CheckedIs ==
    ASSUME NEW v \in Views, NEW s \in States
    PROVE  /\ Checked(v, s) \in Views
           /\ Checked(v, s).ready /\ Checked(v, s).seen = s.shots
           /\ Checked(v, s).played = v.played \cup Heard(v, s)
           /\ Checked(v, s).known = v.known \cup s.shots
           /\ Checked(v, s).latest = v.latest
           /\ \A b \in Shots : Checked(v, s).shown[b] =
                v.shown[b] + (IF b \in Heard(v, s) THEN 1 ELSE 0) + (IF b \in Ended(v, s) THEN 1 ELSE 0)
<1>. DEFINE hs == Heard(v, s)
            es == Ended(v, s)
            sh == [b \in Shots |-> v.shown[b] + (IF b \in hs THEN 1 ELSE 0) + (IF b \in es THEN 1 ELSE 0)]
            w == [v EXCEPT !.ready = TRUE, !.seen = s.shots, !.played = v.played \cup hs,
                           !.known = v.known \cup s.shots, !.shown = sh]
<1>1. Checked(v, s) = w
  BY DEF Checked
<1>2. hs \subseteq Shots /\ s.shots \subseteq Shots
  BY DEF Heard, Views, States
<1>. HIDE DEF hs, es
<1>3. sh \in [Shots -> Nat]
  <2>1. \A b \in Shots : v.shown[b] \in Nat
    BY DEF Views
  <2>2. ASSUME NEW b \in Shots
        PROVE  v.shown[b] + (IF b \in hs THEN 1 ELSE 0) + (IF b \in es THEN 1 ELSE 0) \in Nat
    BY <2>1
  <2>. QED  BY <2>2
<1>4. \A b \in Shots : sh[b] = v.shown[b] + (IF b \in hs THEN 1 ELSE 0) + (IF b \in es THEN 1 ELSE 0)
  OBVIOUS
<1>. HIDE DEF sh
<1>5. /\ w \in Views /\ w.ready /\ w.seen = s.shots /\ w.played = v.played \cup hs
      /\ w.known = v.known \cup s.shots /\ w.latest = v.latest /\ w.shown = sh
  BY <1>2, <1>3 DEF Views
<1>. HIDE DEF w
<1>. QED  BY <1>1, <1>4, <1>5 DEF hs, es

LEMMA CheckedKeeps ==
    ASSUME NEW v \in Views, NEW s \in States, NEW e \in Pasts, NEW y \in Pasts, NEW plays \in BOOLEAN,
           Possible(e), Possible(y), Precedes(e, y), Viewed(v, e, plays), Shows(s, y, plays)
    PROVE  Viewed(Checked(v, s), y, plays)
<1>. DEFINE w == Checked(v, s)
            hs == Heard(v, s)
            es == Ended(v, s)
<1>1. /\ w.ready /\ w.seen = s.shots /\ w.played = v.played \cup hs /\ w.known = v.known \cup s.shots
      /\ \A b \in Shots : w.shown[b] = v.shown[b] + (IF b \in hs THEN 1 ELSE 0) + (IF b \in es THEN 1 ELSE 0)
  BY CheckedIs
<1>. SUFFICES Drawn(w, y, plays)
  BY <1>1 DEF Viewed
<1>2. \A b \in hs : v.ready /\ s.me /\ b \in s.impacts /\ b \notin v.played
  BY DEF Heard
<1>3. \A b \in Shots : v.ready /\ s.me /\ b \in s.impacts /\ b \notin v.played => b \in hs
  BY DEF Heard
<1>4. \A b \in es : b \in v.seen /\ b \notin s.shots /\ (Kind[b] = "grenade" \/ (Kind[b] = "shell" /\ b \notin s.impacts))
  BY DEF Ended
<1>5. \A b \in v.seen \ s.shots : Kind[b] = "grenade" \/ (Kind[b] = "shell" /\ b \notin s.impacts) => b \in es
  BY DEF Ended
<1>6. /\ s.shots = y.flying /\ s.me = (y.alive /\ plays) /\ (s.me => s.impacts = y.impacts)
  BY DEF Shows
<1>7. /\ e.fired \in Nat /\ y.fired \in Nat /\ e.fired <= y.fired
      /\ e.flying \subseteq 1 .. e.fired /\ e.impacts \subseteq 1 .. e.fired
      /\ y.flying \subseteq 1 .. y.fired /\ y.impacts \subseteq 1 .. y.fired /\ y.flying \cap y.impacts = {}
      /\ \A b \in y.impacts : Kind[b] = "shell"
      /\ \A b \in 1 .. e.fired : (b \in y.flying => b \in e.flying) /\ (b \in y.impacts => b \in e.flying \cup e.impacts)
      /\ y.alive => e.alive
  BY DEF Possible, Precedes, Later
<1>8. 1 .. e.fired \subseteq 1 .. y.fired
  BY <1>7
<1>9. \A b \in Shots : Kind[b] \in {"shell", "laser", "grenade"}
  BY ShotsAre
<1>10. hs \subseteq y.impacts
  BY <1>2, <1>6
<1>11. CASE ~v.ready
  <2>1. v.seen = {} /\ v.played = {} /\ v.known = {} /\ \A b \in Shots : v.shown[b] = 0
    BY <1>11 DEF Viewed
  <2>2. hs = {} /\ es = {}
    BY <1>2, <1>4, <1>11, <2>1
  <2>3. \A b \in Shots : w.shown[b] = 0
    BY <1>1, <2>1, <2>2
  <2>4. w.seen = y.flying /\ w.played = {} /\ w.known = y.flying
    BY <1>1, <1>6, <2>1, <2>2
  <2>5. Drawn(w, y, plays)
    BY <1>7, <2>3, <2>4 DEF Drawn
  <2>. QED  BY <2>5
<1>12. CASE v.ready
  <2>1. /\ v.seen = e.flying /\ v.seen \cap v.played = {}
        /\ v.known \subseteq 1 .. e.fired /\ v.played \subseteq 1 .. e.fired
    BY <1>12 DEF Viewed, Drawn
  <2>2. \A b \in Shots :
          /\ v.shown[b] \in Nat /\ v.shown[b] <= 1
          /\ b \notin 1 .. e.fired \/ b \in e.flying => v.shown[b] = 0
          /\ e.alive /\ plays /\ b \in e.impacts \ v.played => v.shown[b] = 0
          /\ e.alive /\ plays /\ Kind[b] # "laser" /\ b \in v.known \ v.seen => v.shown[b] = 1
    BY <1>12 DEF Viewed, Drawn, Views
  <2>. HIDE DEF w, hs, es
  <2>3. w.seen = y.flying /\ w.seen \cap w.played = {}
    <3>1. y.flying \cap v.played = {}
      BY <1>7, <2>1
    <3>. QED  BY <1>1, <1>6, <1>7, <1>10, <3>1
  <2>4. w.known \subseteq 1 .. y.fired /\ w.played \subseteq 1 .. y.fired
    BY <1>1, <1>6, <1>7, <1>8, <1>10, <2>1
  <2>. SUFFICES ASSUME NEW b \in Shots
                PROVE  /\ w.shown[b] <= 1
                       /\ b \notin 1 .. y.fired \/ b \in y.flying => w.shown[b] = 0
                       /\ y.alive /\ plays /\ b \in y.impacts \ w.played => w.shown[b] = 0
                       /\ y.alive /\ plays /\ Kind[b] # "laser" /\ b \in w.known \ w.seen => w.shown[b] = 1
    BY <2>3, <2>4 DEF Drawn
  <2>5. b \in hs => v.shown[b] = 0 /\ b \notin es
    <3>. SUFFICES ASSUME b \in hs PROVE v.shown[b] = 0 /\ b \notin es
      OBVIOUS
    <3>1. y.alive /\ plays /\ b \in y.impacts /\ b \in s.impacts /\ b \notin v.played /\ Kind[b] = "shell"
      BY <1>2, <1>6, <1>7
    <3>2. b \notin es
      BY <1>4, <3>1
    <3>3. CASE b \in 1 .. e.fired
      BY <1>7, <2>2, <3>1, <3>2, <3>3
    <3>4. CASE b \notin 1 .. e.fired
      BY <2>2, <3>2, <3>4
    <3>. QED  BY <3>3, <3>4
  <2>6. b \in es => v.shown[b] = 0 /\ b \in e.flying /\ b \notin y.flying
    BY <1>4, <1>6, <2>1, <2>2
  <2>7. w.shown[b] = v.shown[b] + (IF b \in hs THEN 1 ELSE 0) + (IF b \in es THEN 1 ELSE 0)
    BY <1>1
  <2>8. v.shown[b] \in Nat /\ v.shown[b] <= 1
    BY <2>2
  <2>9. w.shown[b] <= 1
    BY <2>5, <2>6, <2>7, <2>8
  <2>10. b \notin hs /\ b \notin es => w.shown[b] = v.shown[b]
    BY <2>7, <2>8
  <2>11. b \in hs \/ b \in es => w.shown[b] = 1
    BY <2>5, <2>6, <2>7
  <2>12. ASSUME b \notin 1 .. y.fired \/ b \in y.flying PROVE w.shown[b] = 0
    <3>1. b \notin hs /\ b \notin es
      BY <1>7, <1>8, <1>10, <2>6, <2>12
    <3>2. b \notin 1 .. e.fired \/ b \in e.flying
      BY <1>7, <1>8, <2>12
    <3>. QED  BY <2>2, <2>10, <3>1, <3>2
  <2>13. ASSUME y.alive, plays, b \in y.impacts \ w.played PROVE w.shown[b] = 0
    <3>1. b \in hs
      BY <1>1, <1>3, <1>6, <1>12, <2>13
    <3>. QED  BY <1>1, <2>13, <3>1
  <2>14. ASSUME y.alive, plays, Kind[b] # "laser", b \in w.known \ w.seen PROVE w.shown[b] = 1
    <3>1. CASE b \in hs \/ b \in es
      BY <2>11, <3>1
    <3>2. CASE b \notin hs /\ b \notin es
      <4>1. b \in v.known /\ b \notin s.shots
        BY <1>1, <2>14
      <4>2. b \notin v.seen
        <5>. SUFFICES ASSUME b \in v.seen PROVE FALSE
          OBVIOUS
        <5>1. Kind[b] = "shell" /\ b \in s.impacts
          BY <1>5, <1>9, <2>14, <3>2, <4>1
        <5>2. b \notin v.played
          BY <2>1
        <5>. QED  BY <1>3, <1>6, <1>12, <2>14, <3>2, <5>1, <5>2
      <4>3. v.shown[b] = 1
        BY <1>7, <2>2, <2>14, <4>1, <4>2
      <4>. QED  BY <2>10, <3>2, <4>3
    <3>. QED  BY <3>1, <3>2
  <2>. QED  BY <2>9, <2>12, <2>13, <2>14
<1>. QED  BY <1>11, <1>12

LEMMA ViewIsRight ==
    ASSUME NEW v \in Views, NEW e \in Pasts, NEW y \in Pasts, NEW plays \in BOOLEAN,
           Possible(e), Possible(y), Precedes(e, y), Viewed(v, e, plays),
           v.latest # Nothing => Shows(v.latest, y, plays), NEW b \in Shots
    PROVE  /\ v.shown[b] <= 1
           /\ y.alive /\ plays /\ Kind[b] # "laser" /\ b \in v.known \ v.seen => v.shown[b] = 1
           /\ v.latest # Nothing /\ b \in v.known => b \notin FireHeard(v, v.latest)
<1>1. CASE ~v.ready
  BY <1>1 DEF Viewed, FireHeard
<1>2. CASE v.ready
  <2>1. Drawn(v, e, plays)
    BY <1>2 DEF Viewed
  <2>2. y.alive => e.alive
    BY DEF Precedes
  <2>3. v.shown[b] <= 1 /\ (y.alive /\ plays /\ Kind[b] # "laser" /\ b \in v.known \ v.seen => v.shown[b] = 1)
    BY <2>1, <2>2 DEF Drawn
  <2>4. ASSUME v.latest # Nothing, b \in v.known PROVE b \notin FireHeard(v, v.latest)
    <3>1. b \in 1 .. e.fired /\ v.seen = e.flying
      BY <2>1, <2>4 DEF Drawn
    <3>2. v.latest.shots = y.flying
      BY <2>4 DEF Shows
    <3>3. b \in y.flying => b \in e.flying
      BY <3>1 DEF Precedes, Later
    <3>. QED  BY <3>1, <3>2, <3>3 DEF FireHeard
  <2>. QED  BY <2>3, <2>4
<1>. QED  BY <1>1, <1>2

-----------------------------------------------------------------------------
(* The messages on their way to a client show moments that follow each other; the  *)
(* client is a player from the message that seats it on.                           *)

NoneJoins(q, i) == \A j \in 1 .. Len(q) : j > i => q[j].type # "joined"

Chain(q, p, now, plays) ==
    /\ \A i \in 0 .. Len(q) : Possible(p[i]) /\ Precedes(p[i], now)
    /\ \A i, j \in 0 .. Len(q) : i < j => Precedes(p[i], p[j])
    /\ \A i \in 1 .. Len(q) : q[i].type = "state" => Shows(q[i], p[i], plays /\ NoneJoins(q, i))

LEMMA PrecedesIsTransitive ==
    ASSUME NEW x, NEW y, NEW z, Possible(x), Possible(y), Possible(z), Precedes(x, y), Precedes(y, z)
    PROVE  Precedes(x, z)
BY LaterIsTransitive DEF Precedes, Possible

LEMMA ItselfPrecedes == ASSUME NEW x, Possible(x) PROVE Precedes(x, x)
BY DEF Precedes, Later, Possible

LEMMA RestIs ==
    ASSUME NEW S, NEW q \in Seq(S), q # << >>
    PROVE  /\ Len(q) \in Nat \ {0} /\ Head(q) = q[1] /\ Head(q) \in S
           /\ Tail(q) \in Seq(S) /\ Len(Tail(q)) = Len(q) - 1
           /\ \A i \in 1 .. Len(q) - 1 : Tail(q)[i] = q[i + 1]
OBVIOUS

LEMMA NoneOfTail ==
    ASSUME NEW q \in Seq(Messages), q # << >>, NEW i \in 0 .. Len(q) - 1
    PROVE  NoneJoins(Tail(q), i) <=> NoneJoins(q, i + 1)
<1>1. /\ Len(q) \in Nat \ {0} /\ Len(Tail(q)) = Len(q) - 1
      /\ \A j \in 1 .. Len(q) - 1 : Tail(q)[j] = q[j + 1]
  BY RestIs
<1>2. ASSUME NoneJoins(q, i + 1) PROVE NoneJoins(Tail(q), i)
  <2>. SUFFICES ASSUME NEW j \in 1 .. Len(q) - 1, j > i PROVE Tail(q)[j].type # "joined"
    BY <1>1 DEF NoneJoins
  <2>1. j + 1 \in 1 .. Len(q) /\ j + 1 > i + 1
    BY <1>1
  <2>. QED  BY <1>1, <1>2, <2>1 DEF NoneJoins
<1>3. ASSUME NoneJoins(Tail(q), i) PROVE NoneJoins(q, i + 1)
  <2>. SUFFICES ASSUME NEW j \in 1 .. Len(q), j > i + 1 PROVE q[j].type # "joined"
    BY DEF NoneJoins
  <2>1. j - 1 \in 1 .. Len(q) - 1 /\ j - 1 > i /\ (j - 1) + 1 = j
    BY <1>1
  <2>2. Tail(q)[j - 1].type # "joined"
    BY <1>1, <1>3, <2>1 DEF NoneJoins
  <2>. QED  BY <1>1, <2>1, <2>2
<1>. QED  BY <1>2, <1>3

LEMMA NoneOfBoth ==
    ASSUME NEW q \in Seq(Messages), NEW t \in Seq(Messages), NEW i \in 0 .. Len(q)
    PROVE  NoneJoins(q \o t, i) <=> NoneJoins(q, i) /\ NoneJoins(t, 0)
<1>. DEFINE n == Len(q)
            k == Len(t)
            z == q \o t
<1>1. n \in Nat /\ k \in Nat /\ Len(z) = n + k
  OBVIOUS
<1>2. \A j \in 1 .. n : z[j] = q[j] /\ j \in 1 .. n + k
  OBVIOUS
<1>3. \A j \in 1 .. k : z[n + j] = t[j] /\ n + j \in 1 .. n + k /\ n + j > i /\ j > 0
  OBVIOUS
<1>4. \A j \in 1 .. n + k : j \in 1 .. n \/ (j - n \in 1 .. k /\ n + (j - n) = j)
  BY <1>1
<1>. HIDE DEF z
<1>5. ASSUME NoneJoins(z, i) PROVE NoneJoins(q, i) /\ NoneJoins(t, 0)
  BY <1>1, <1>2, <1>3, <1>5 DEF NoneJoins
<1>6. ASSUME NoneJoins(q, i), NoneJoins(t, 0) PROVE NoneJoins(z, i)
  <2>. SUFFICES ASSUME NEW j \in 1 .. n + k, j > i PROVE z[j].type # "joined"
    BY <1>1 DEF NoneJoins
  <2>1. CASE j \in 1 .. n
    BY <1>2, <1>6, <2>1 DEF NoneJoins
  <2>2. CASE j - n \in 1 .. k /\ n + (j - n) = j
    <3>1. z[j] = t[j - n] /\ j - n > 0
      BY <1>3, <2>2
    <3>. QED  BY <1>6, <2>2, <3>1 DEF NoneJoins
  <2>. QED  BY <1>4, <2>1, <2>2
<1>. QED  BY <1>5, <1>6 DEF z

LEMMA NoneBeyond ==
    ASSUME NEW q \in Seq(Messages), NEW t \in Seq(Messages), NEW i \in 0 .. Len(t)
    PROVE  NoneJoins(q \o t, Len(q) + i) <=> NoneJoins(t, i)
<1>. DEFINE n == Len(q)
            k == Len(t)
            z == q \o t
<1>1. n \in Nat /\ k \in Nat /\ Len(z) = n + k
  OBVIOUS
<1>2. \A j \in 1 .. k : z[n + j] = t[j] /\ n + j \in 1 .. n + k
  OBVIOUS
<1>. HIDE DEF z, n
<1>3. ASSUME NoneJoins(z, n + i) PROVE NoneJoins(t, i)
  <2>. SUFFICES ASSUME NEW j \in 1 .. k, j > i PROVE t[j].type # "joined"
    BY DEF NoneJoins
  <2>1. n + j > n + i
    BY <1>1
  <2>. QED  BY <1>1, <1>2, <1>3, <2>1 DEF NoneJoins
<1>4. ASSUME NoneJoins(t, i) PROVE NoneJoins(z, n + i)
  <2>. SUFFICES ASSUME NEW j \in 1 .. n + k, j > n + i PROVE z[j].type # "joined"
    BY <1>1 DEF NoneJoins
  <2>1. j - n \in 1 .. k /\ n + (j - n) = j /\ j - n > i
    BY <1>1
  <2>2. z[j] = t[j - n]
    BY <1>2, <2>1
  <2>. QED  BY <1>4, <2>1, <2>2 DEF NoneJoins
<1>. QED  BY <1>3, <1>4 DEF z, n

LEMMA Dequeued ==
    ASSUME NEW q \in Seq(Messages), q # << >>, NEW p \in [0 .. Len(q) -> Pasts], NEW now,
           NEW plays \in BOOLEAN, Chain(q, p, now, plays), NEW z \in {p[0], p[1]}
    PROVE  \E r \in [0 .. Len(Tail(q)) -> Pasts] : r[0] = z /\ Chain(Tail(q), r, now, plays)
<1>. DEFINE n == Len(q) - 1
            r == [i \in 0 .. n |-> IF i = 0 THEN z ELSE p[i + 1]]
<1>1. /\ Len(q) \in Nat \ {0} /\ Len(Tail(q)) = Len(q) - 1
      /\ \A i \in 1 .. Len(q) - 1 : Tail(q)[i] = q[i + 1]
  BY RestIs
<1>2. n \in Nat /\ Len(q) = n + 1 /\ 0 \in 0 .. n + 1 /\ 1 \in 0 .. n + 1
  BY <1>1
<1>. HIDE DEF n
<1>3. PICK m \in {0, 1} : z = p[m]
  OBVIOUS
<1>4. \A i \in 0 .. n : r[i] = IF i = 0 THEN z ELSE p[i + 1]
  OBVIOUS
<1>5. \A i \in 0 .. n : i + 1 \in 0 .. n + 1
  BY <1>2
<1>6. r \in [0 .. n -> Pasts]
  BY <1>2, <1>5
<1>. HIDE DEF r
<1>7. ASSUME NEW i \in 0 .. n PROVE Possible(r[i]) /\ Precedes(r[i], now)
  BY <1>2, <1>3, <1>4, <1>5 DEF Chain
<1>8. ASSUME NEW i \in 0 .. n, NEW j \in 0 .. n, i < j PROVE Precedes(r[i], r[j])
  <2>1. j # 0 /\ j + 1 \in 0 .. n + 1 /\ i + 1 \in 0 .. n + 1 /\ i + 1 < j + 1 /\ m < j + 1 /\ m \in 0 .. n + 1
    BY <1>2, <1>8
  <2>2. r[j] = p[j + 1] /\ r[i] = IF i = 0 THEN p[m] ELSE p[i + 1]
    BY <1>3, <1>4, <2>1
  <2>. QED  BY <1>2, <2>1, <2>2 DEF Chain
<1>9. ASSUME NEW i \in 1 .. n, Tail(q)[i].type = "state"
      PROVE  Shows(Tail(q)[i], r[i], plays /\ NoneJoins(Tail(q), i))
  <2>1. i + 1 \in 1 .. n + 1 /\ i \in 0 .. n /\ i # 0 /\ i \in 1 .. Len(q) - 1 /\ i \in 0 .. Len(q) - 1
    BY <1>2
  <2>2. Tail(q)[i] = q[i + 1] /\ r[i] = p[i + 1]
    BY <1>1, <1>4, <2>1
  <2>3. NoneJoins(Tail(q), i) <=> NoneJoins(q, i + 1)
    BY <2>1, NoneOfTail
  <2>4. Shows(q[i + 1], p[i + 1], plays /\ NoneJoins(q, i + 1))
    BY <1>2, <1>9, <2>1, <2>2 DEF Chain
  <2>5. (plays /\ NoneJoins(Tail(q), i)) = (plays /\ NoneJoins(q, i + 1))
    BY <2>3
  <2>. QED  BY <2>2, <2>4, <2>5
<1>10. r[0] = z
  BY <1>2, <1>4
<1>11. Len(Tail(q)) = n
  BY <1>1, <1>2
<1>. QED  BY <1>6, <1>7, <1>8, <1>9, <1>10, <1>11 DEF Chain

\* The messages t join the queue when it was now, tell of here, and leave then.
Extends(q, t, p, now, here, then, plays, seated) ==
    /\ q \in Seq(Messages) /\ t \in Seq(Messages) /\ p \in [0 .. Len(q) -> Pasts]
    /\ here \in Pasts /\ plays \in BOOLEAN /\ seated \in BOOLEAN
    /\ Chain(q, p, now, seated) /\ Possible(now) /\ Possible(here) /\ Possible(then)
    /\ Precedes(now, here) /\ Precedes(here, then)
    /\ seated <=> plays /\ NoneJoins(t, 0)
    /\ \A i \in 1 .. Len(t) : t[i].type = "state" => Shows(t[i], here, plays /\ NoneJoins(t, i))

LEMMA Enqueued ==
    ASSUME NEW q, NEW t, NEW p, NEW now, NEW here, NEW then, NEW plays, NEW seated,
           Extends(q, t, p, now, here, then, plays, seated)
    PROVE  \E r \in [0 .. Len(q \o t) -> Pasts] : r[0] = p[0] /\ Chain(q \o t, r, then, plays)
<1>a. /\ q \in Seq(Messages) /\ t \in Seq(Messages) /\ p \in [0 .. Len(q) -> Pasts]
      /\ here \in Pasts /\ plays \in BOOLEAN /\ seated \in BOOLEAN
  BY DEF Extends
<1>. USE <1>a
<1>0. /\ Chain(q, p, now, seated) /\ Possible(now) /\ Possible(here) /\ Possible(then)
      /\ Precedes(now, here) /\ Precedes(here, then)
      /\ seated <=> plays /\ NoneJoins(t, 0)
      /\ \A i \in 1 .. Len(t) : t[i].type = "state" => Shows(t[i], here, plays /\ NoneJoins(t, i))
  BY DEF Extends
<1>. DEFINE n == Len(q)
            k == Len(t)
            z == q \o t
            r == [i \in 0 .. n + k |-> IF i <= n THEN p[i] ELSE here]
<1>1. n \in Nat /\ k \in Nat /\ Len(z) = n + k
  OBVIOUS
<1>2. \A i \in 1 .. n : z[i] = q[i]
  OBVIOUS
<1>3. \A i \in 1 .. k : z[n + i] = t[i]
  OBVIOUS
<1>4. \A i \in 0 .. n : NoneJoins(z, i) <=> NoneJoins(q, i) /\ NoneJoins(t, 0)
  BY NoneOfBoth
<1>5. \A i \in 0 .. k : NoneJoins(z, n + i) <=> NoneJoins(t, i)
  BY NoneBeyond
<1>6. /\ \A i \in 0 .. n : Possible(p[i]) /\ Precedes(p[i], now)
      /\ \A i, j \in 0 .. n : i < j => Precedes(p[i], p[j])
      /\ \A i \in 1 .. n : q[i].type = "state" => Shows(q[i], p[i], seated /\ NoneJoins(q, i))
  BY <1>0 DEF Chain
<1>7. Precedes(now, then)
  BY <1>0, PrecedesIsTransitive
<1>. HIDE DEF n, k, z
<1>8. \A i \in 0 .. n + k : (i <= n => i \in 0 .. n) /\ (~(i <= n) => i - n \in 1 .. k /\ n + (i - n) = i)
  BY <1>1
<1>9. r \in [0 .. n + k -> Pasts]
  BY <1>8 DEF n
<1>10. \A i \in 0 .. n + k : r[i] = IF i <= n THEN p[i] ELSE here
  OBVIOUS
<1>. HIDE DEF r
<1>11. ASSUME NEW i \in 0 .. n + k PROVE Possible(r[i]) /\ Precedes(r[i], then)
  <2>1. CASE i <= n
    BY <1>0, <1>6, <1>7, <1>8, <1>10, <2>1, PrecedesIsTransitive
  <2>2. CASE ~(i <= n)
    BY <1>0, <1>10, <2>2
  <2>. QED  BY <2>1, <2>2
<1>12. ASSUME NEW i \in 0 .. n + k, NEW j \in 0 .. n + k, i < j PROVE Precedes(r[i], r[j])
  <2>1. CASE j <= n
    <3>1. i <= n
      BY <1>1, <1>12, <2>1
    <3>. QED  BY <1>6, <1>8, <1>10, <1>12, <2>1, <3>1
  <2>2. CASE ~(j <= n) /\ i <= n
    <3>1. r[j] = here /\ r[i] = p[i] /\ Possible(p[i]) /\ Precedes(p[i], now)
      BY <1>6, <1>8, <1>10, <2>2
    <3>. QED  BY <1>0, <3>1, PrecedesIsTransitive
  <2>3. CASE ~(j <= n) /\ ~(i <= n)
    <3>1. r[j] = here /\ r[i] = here
      BY <1>10, <2>3
    <3>. QED  BY <1>0, <3>1, ItselfPrecedes
  <2>. QED  BY <2>1, <2>2, <2>3
<1>13. ASSUME NEW i \in 1 .. n + k, z[i].type = "state" PROVE Shows(z[i], r[i], plays /\ NoneJoins(z, i))
  <2>1. i \in 0 .. n + k /\ (i <= n => i \in 1 .. n)
    BY <1>1
  <2>2. CASE i <= n
    <3>1. r[i] = p[i] /\ z[i] = q[i] /\ (NoneJoins(z, i) <=> NoneJoins(q, i) /\ NoneJoins(t, 0))
      BY <1>2, <1>4, <1>8, <1>10, <2>1, <2>2
    <3>2. Shows(q[i], p[i], seated /\ NoneJoins(q, i))
      BY <1>6, <1>13, <2>1, <2>2, <3>1
    <3>3. (seated /\ NoneJoins(q, i)) = (plays /\ NoneJoins(z, i))
      BY <1>0, <3>1
    <3>. QED  BY <3>1, <3>2, <3>3
  <2>3. CASE ~(i <= n)
    <3>1. i - n \in 1 .. k /\ i - n \in 0 .. k /\ n + (i - n) = i
      BY <1>1, <1>8, <2>1, <2>3
    <3>2. r[i] = here /\ z[i] = t[i - n] /\ (NoneJoins(z, i) <=> NoneJoins(t, i - n))
      BY <1>3, <1>5, <1>10, <2>1, <2>3, <3>1
    <3>3. Shows(t[i - n], here, plays /\ NoneJoins(t, i - n))
      BY <1>0, <1>13, <3>1, <3>2 DEF k
    <3>4. (plays /\ NoneJoins(t, i - n)) = (plays /\ NoneJoins(z, i))
      BY <3>2
    <3>. QED  BY <3>2, <3>3, <3>4
  <2>. QED  BY <2>2, <2>3
<1>14. r[0] = p[0]
  BY <1>1, <1>10
<1>. QED  BY <1>1, <1>9, <1>11, <1>12, <1>13, <1>14 DEF Chain, z

-----------------------------------------------------------------------------
(* The seat of a client.  Whoever only watches waits for one message that joins at *)
(* the head of the queue; who is seated while messages are under way is a player   *)
(* from the message on that says so.                                               *)

Seats(q, r, c) ==
    /\ r = "none" => q = << >>
    /\ r = "watcher" => ~c.me
    /\ r # "none" /\ NoneJoins(q, 0) => c.joined /\ (c.me <=> r = "player")
    /\ \A i \in 1 .. Len(q) : q[i].type = "joined" =>
        /\ q[i].role = "watcher" => i = 1 /\ ~c.me
        /\ q[i].role = "player" => r = "player" /\ NoneJoins(q, i) /\ (i > 1 => ~c.me)
        /\ NoneJoins(q, i) => q[i].role = r

LEMMA JoinedIs ==
    ASSUME NEW m \in Messages, m.type = "joined"
    PROVE  m \in Joining
BY DEF Messages, Changes, States

LEMMA StateIs ==
    ASSUME NEW m \in Messages, m.type = "state"
    PROVE  m \in States
BY DEF Messages, Changes, Joining

LEMMA ConcatIs ==
    ASSUME NEW S, NEW q \in Seq(S), NEW t \in Seq(S)
    PROVE  /\ Len(q) \in Nat /\ Len(t) \in Nat /\ Len(q \o t) = Len(q) + Len(t)
           /\ \A i \in 1 .. Len(q) : (q \o t)[i] = q[i]
           /\ \A i \in 1 .. Len(t) : (q \o t)[Len(q) + i] = t[i]
OBVIOUS

LEMMA SeatsGrow ==
    ASSUME NEW q \in Seq(Messages), NEW t \in Seq(Messages), NEW r, NEW c,
           r # "none" \/ t = << >>, NoneJoins(t, 0), Seats(q, r, c)
    PROVE  Seats(q \o t, r, c)
<1>. DEFINE n == Len(q)
            z == q \o t
<1>1. CASE t = << >>
  BY <1>1
<1>2. CASE r # "none"
  <2>1. n \in Nat /\ \A i \in 0 .. n : NoneJoins(z, i) <=> NoneJoins(q, i)
    BY NoneOfBoth
  <2>2. \A i \in 1 .. n : z[i] = q[i] /\ i \in 0 .. n
    OBVIOUS
  <2>3. ASSUME NEW i \in 1 .. Len(z), z[i].type = "joined" PROVE i \in 1 .. n
    <3>. SUFFICES ASSUME i \notin 1 .. n PROVE FALSE
      OBVIOUS
    <3>1. i - n \in 1 .. Len(t) /\ z[i] = t[i - n] /\ i - n > 0
      OBVIOUS
    <3>. QED  BY <2>3, <3>1 DEF NoneJoins
  <2>. HIDE DEF z, n
  <2>4. 0 \in 0 .. n
    BY <2>1
  <2>. QED  BY <1>2, <2>1, <2>2, <2>3, <2>4 DEF Seats, n, z
<1>. QED  BY <1>1, <1>2

LEMMA SeatTaken ==
    ASSUME NEW q \in Seq(Messages), NEW t \in Seq(Messages), NEW b, NEW r \in {"player", "watcher"}, NEW c,
           Seats(q, b, c), b \in {"none", "watcher"}, b # r, c.me => r = "player",
           Len(t) = 2, t[1].type = "joined", t[1].role = r, t[2].type = "state"
    PROVE  Seats(q \o t, r, c)
<1>. DEFINE n == Len(q)
            z == q \o t
<1>1. n \in Nat /\ Len(z) = n + 2 /\ z[n + 1] = t[1] /\ z[n + 2] = t[2] /\ \A i \in 1 .. n : z[i] = q[i]
  <2>1. n \in Nat /\ Len(z) = n + Len(t) /\ \A i \in 1 .. n : z[i] = q[i]
    BY ConcatIs
  <2>2. \A i \in 1 .. Len(t) : z[n + i] = t[i]
    BY ConcatIs
  <2>. HIDE DEF z, n
  <2>. QED  BY <2>1, <2>2
<1>2. b = "none" => n = 0
  BY DEF Seats
<1>3. b = "watcher" => ~c.me /\ r = "player"
  BY DEF Seats
<1>4. \A i \in 1 .. n : q[i].type = "joined" /\ q[i].role = "player" => b = "player"
  BY DEF Seats
<1>5. \A i \in 1 .. n : q[i].type = "joined" /\ q[i].role = "watcher" => i = 1 /\ ~c.me
  BY DEF Seats
<1>. HIDE DEF z
<1>6. \A i \in 0 .. n : ~NoneJoins(z, i)
  <2>1. n + 1 \in 1 .. n + 2
    BY <1>1
  <2>2. \A i \in 0 .. n : n + 1 > i
    BY <1>1
  <2>. QED  BY <1>1, <2>1, <2>2 DEF NoneJoins
<1>7. NoneJoins(z, n + 1)
  <2>1. \A j \in 1 .. n + 2 : j > n + 1 => j = n + 2
    BY <1>1
  <2>. QED  BY <1>1, <2>1 DEF NoneJoins
<1>. HIDE DEF n
<1>8. ASSUME NEW i \in 1 .. n + 2, z[i].type = "joined"
      PROVE  /\ z[i].role = "watcher" => i = 1 /\ ~c.me
             /\ z[i].role = "player" => r = "player" /\ NoneJoins(z, i) /\ (i > 1 => ~c.me)
             /\ NoneJoins(z, i) => z[i].role = r
  <2>1. i = n + 1 \/ (i \in 1 .. n /\ i \in 0 .. n)
    <3>1. i # n + 2
      BY <1>1, <1>8
    <3>. QED  BY <1>1, <3>1
  <2>2. CASE i \in 1 .. n /\ i \in 0 .. n
    <3>1. z[i] = q[i]
      BY <1>1, <2>2
    <3>. QED  BY <1>4, <1>5, <1>6, <1>8, <2>2, <3>1
  <2>3. CASE i = n + 1
    <3>1. z[i].role = r /\ NoneJoins(z, i)
      BY <1>1, <1>7, <2>3
    <3>2. r = "watcher" => b = "none" /\ n = 0 /\ ~c.me
      BY <1>2, <1>3
    <3>3. i > 1 => b = "watcher"
      BY <1>1, <1>2, <2>3
    <3>. QED  BY <1>1, <1>3, <2>3, <3>1, <3>2, <3>3
  <2>. QED  BY <2>1, <2>2, <2>3
<1>9. 0 \in 0 .. n
  BY <1>1
<1>. QED  BY <1>1, <1>3, <1>6, <1>8, <1>9 DEF Seats, z

LEMMA SeatReceived ==
    ASSUME NEW q \in Seq(Messages), q # << >>, NEW r \in {"none", "player", "watcher"}, NEW c, NEW d,
           Seats(q, r, c), c.me \in BOOLEAN,
           IF q[1].type = "joined" THEN d.joined /\ (d.me <=> q[1].role = "player")
           ELSE d.joined = c.joined /\ d.me = c.me
    PROVE  Seats(Tail(q), r, d)
<1>. DEFINE n == Len(q) - 1
            z == Tail(q)
<1>1. /\ n \in Nat /\ Len(z) = n /\ Len(q) = n + 1 /\ q[1] \in Messages
      /\ \A i \in 1 .. n : z[i] = q[i + 1]
  BY RestIs
<1>2. \A i \in 0 .. n : NoneJoins(z, i) <=> NoneJoins(q, i + 1)
  BY NoneOfTail
<1>. SUFFICES Seats(z, r, d)
  OBVIOUS
<1>. HIDE DEF n, z
<1>3. \A i \in 1 .. n + 1 : q[i].type = "joined" =>
        /\ q[i].role = "watcher" => i = 1 /\ ~c.me
        /\ q[i].role = "player" => r = "player" /\ NoneJoins(q, i) /\ (i > 1 => ~c.me)
        /\ NoneJoins(q, i) => q[i].role = r
  BY <1>1 DEF Seats
<1>4. r # "none"
  BY DEF Seats
<1>5. r = "watcher" => ~c.me
  BY DEF Seats
<1>6. NoneJoins(q, 0) <=> NoneJoins(q, 1) /\ q[1].type # "joined"
  <2>1. 1 \in 1 .. n + 1 /\ 1 > 0 /\ \A j \in 1 .. n + 1 : j > 0 => j = 1 \/ j > 1
    BY <1>1
  <2>2. \A j \in 1 .. n + 1 : j > 1 => j > 0
    BY <1>1
  <2>. QED  BY <1>1, <2>1, <2>2 DEF NoneJoins
<1>7. 0 \in 0 .. n /\ 0 + 1 = 1 /\ 1 \in 1 .. n + 1
  BY <1>1
<1>8. CASE q[1].type = "joined"
  <2>1. q[1].role \in {"player", "watcher"}
    BY <1>1, <1>8, JoinedIs DEF Joining
  <2>2. q[1].role = "player" => r = "player" /\ NoneJoins(q, 1)
    BY <1>3, <1>7, <1>8
  <2>3. NoneJoins(q, 1) => q[1].role = r
    BY <1>3, <1>7, <1>8
  <2>4. r = "watcher" => ~d.me
    BY <1>8, <2>2
  <2>5. NoneJoins(z, 0) => d.joined /\ (d.me <=> r = "player")
    BY <1>2, <1>7, <1>8, <2>1, <2>3
  <2>6. ASSUME NEW i \in 1 .. n, z[i].type = "joined"
        PROVE  /\ z[i].role = "watcher" => i = 1 /\ ~d.me
               /\ z[i].role = "player" => r = "player" /\ NoneJoins(z, i) /\ (i > 1 => ~d.me)
               /\ NoneJoins(z, i) => z[i].role = r
    <3>1. i + 1 \in 1 .. n + 1 /\ i + 1 > 1 /\ i + 1 # 1 /\ i \in 0 .. n
      BY <1>1
    <3>2. z[i] = q[i + 1] /\ (NoneJoins(z, i) <=> NoneJoins(q, i + 1))
      BY <1>1, <1>2, <3>1
    <3>3. ~NoneJoins(q, 1)
      BY <1>1, <2>6, <3>1, <3>2 DEF NoneJoins
    <3>4. ~d.me
      BY <1>8, <2>2, <3>3
    <3>. QED  BY <1>3, <2>6, <3>1, <3>2, <3>4
  <2>. QED  BY <1>1, <1>4, <2>4, <2>5, <2>6 DEF Seats
<1>9. CASE q[1].type # "joined"
  <2>1. d.joined = c.joined /\ d.me = c.me
    BY <1>9
  <2>2. NoneJoins(z, 0) => d.joined /\ (d.me <=> r = "player")
    BY <1>2, <1>4, <1>6, <1>7, <1>9, <2>1 DEF Seats
  <2>3. ASSUME NEW i \in 1 .. n, z[i].type = "joined"
        PROVE  /\ z[i].role = "watcher" => i = 1 /\ ~d.me
               /\ z[i].role = "player" => r = "player" /\ NoneJoins(z, i) /\ (i > 1 => ~d.me)
               /\ NoneJoins(z, i) => z[i].role = r
    <3>1. i + 1 \in 1 .. n + 1 /\ i + 1 > 1 /\ i + 1 # 1 /\ i \in 0 .. n
      BY <1>1
    <3>2. z[i] = q[i + 1] /\ (NoneJoins(z, i) <=> NoneJoins(q, i + 1))
      BY <1>1, <1>2, <3>1
    <3>. QED  BY <1>3, <2>1, <2>3, <3>1, <3>2
  <2>. QED  BY <1>1, <1>4, <1>5, <2>1, <2>2, <2>3 DEF Seats
<1>. QED  BY <1>8, <1>9

-----------------------------------------------------------------------------
(* The invariant of the stream.                                                    *)

Clients == [map : [field : Healths, powerUps : SUBSET PowerUps], joined : BOOLEAN, me : BOOLEAN,
            view : Views]
ThisMoment == [flying |-> arena.flying, impacts |-> arena.impacts, fired |-> arena.fired, alive |-> alive]

StreamTypes ==
    /\ arena \in Arenas /\ arena.events = << >> /\ Possible(arena)
    /\ pending \subseteq Shots /\ ticks \in Nat /\ alive \in BOOLEAN
    /\ role \in {"none", "player", "watcher"} /\ queue \in Seq(Messages) /\ client \in Clients

\* What is under way tells a client that is connected what it does not know yet.
Tells == role # "none" => Leads(client.map.field, queue, arena.field)

\* Moments for what was drawn, what is to be drawn next and what is under way.
Chronicle(e, p) ==
    /\ Chain(queue, p, ThisMoment, role = "player")
    /\ Possible(e) /\ Precedes(e, p[0]) /\ Viewed(client.view, e, client.me)
    /\ client.view.latest # Nothing => Shows(client.view.latest, p[0], client.me)

Chronicled == \E e \in Pasts : \E p \in [0 .. Len(queue) -> Pasts] : Chronicle(e, p)

StreamKept == StreamTypes /\ Seats(queue, role, client) /\ Tells /\ Chronicled

LEMMA ThisMomentIs ==
    ASSUME StreamTypes
    PROVE  ThisMoment \in Pasts /\ Possible(ThisMoment)
BY DEF StreamTypes, ThisMoment, Pasts, Arenas, Possible

LEMMA ArenaIsReached ==
    ASSUME StreamTypes
    PROVE  arena \in Reached(arena) /\ arena.field \in Healths /\ arena.fired \in Nat
<1>1. arena \in Arenas /\ arena.events = << >> /\ Possible(arena)
  BY DEF StreamTypes
<1>2. arena.field \in Healths /\ arena.fired \in Nat
  BY <1>1 DEF Arenas
<1>3. Leads(arena.field, << >>, arena.field)
  BY <1>2, LeadsNowhere
<1>4. Later(arena, arena)
  BY <1>2 DEF Later
<1>. QED  BY <1>1, <1>2, <1>3, <1>4 DEF Reached

LEMMA StreamBegins == StreamInit => StreamKept
<1>. SUFFICES ASSUME StreamInit PROVE StreamKept
  OBVIOUS
<1>1. Hp \in Healths /\ DOMAIN Type = 1 .. Len(Type)
  BY StreamAssumption DEF Healths
<1>2. arena \in Arenas /\ arena.events = << >>
  <2>1. << >> \in Seq(Changes) /\ Pierces \in Nat /\ 0 \in Nat
    BY StreamAssumption
  <2>2. /\ arena = [field |-> Hp, powerUps |-> {}, unspawned |-> PowerUps, pierce |-> Pierces,
                    flying |-> {}, fired |-> 0, impacts |-> {}, events |-> << >>]
    BY DEF StreamInit
  <2>. QED  BY <1>1, <2>1, <2>2 DEF Arenas
<1>3. /\ arena.flying = {} /\ arena.impacts = {} /\ arena.fired = 0
      /\ pending = {} /\ ticks = 0 /\ alive = TRUE /\ role = "none" /\ queue = << >>
      /\ client = [map |-> NoMap, joined |-> FALSE, me |-> FALSE, view |-> NewView]
  BY DEF StreamInit
<1>4. Possible(arena)
  BY <1>3, ShotsAre DEF Possible
<1>5. NewView \in Views
  <2>1. [b \in Shots |-> 0] \in [Shots -> Nat]
    OBVIOUS
  <2>. QED  BY <2>1 DEF NewView, Views
<1>6. << >> \in Healths
  <2>. DEFINE f == [o \in {} |-> 0]
  <2>1. f \in [{} -> Nat] /\ {} \subseteq DOMAIN Type
    OBVIOUS
  <2>2. f \in Healths
    BY <2>1, FieldOf
  <2>3. << >> = f
    OBVIOUS
  <2>. QED  BY <2>2, <2>3
<1>7. client \in Clients
  BY <1>3, <1>5, <1>6 DEF Clients, NoMap
<1>8. StreamTypes
  BY <1>2, <1>3, <1>4, <1>7 DEF StreamTypes
<1>9. Len(queue) = 0 /\ role # "player" /\ role # "watcher"
  BY <1>3
<1>10. Seats(queue, role, client)
  BY <1>3, <1>9 DEF Seats
<1>11. Tells
  BY <1>3 DEF Tells
<1>12. Chronicled
  <2>. DEFINE p == [i \in 0 .. 0 |-> ThisMoment]
  <2>1. ThisMoment \in Pasts /\ Possible(ThisMoment)
    BY <1>8, ThisMomentIs
  <2>2. Precedes(ThisMoment, ThisMoment)
    BY <2>1, ItselfPrecedes
  <2>3. p \in [0 .. Len(queue) -> Pasts] /\ (\A i \in 0 .. 0 : p[i] = ThisMoment) /\ p[0] = ThisMoment
    BY <1>9, <2>1
  <2>. HIDE DEF p
  <2>4. Chain(queue, p, ThisMoment, role = "player")
    <3>1. \A i, j \in 0 .. 0 : ~(i < j)
      OBVIOUS
    <3>2. 1 .. 0 = {}
      OBVIOUS
    <3>. QED  BY <1>9, <2>1, <2>2, <2>3, <3>1, <3>2 DEF Chain
  <2>5. client.view.latest = Nothing /\ Viewed(client.view, ThisMoment, client.me)
    BY <1>3 DEF NewView, Viewed
  <2>6. Chronicle(ThisMoment, p)
    BY <2>1, <2>2, <2>3, <2>4, <2>5 DEF Chronicle
  <2>. QED  BY <2>1, <2>3, <2>6 DEF Chronicled
<1>. QED  BY <1>8, <1>10, <1>11, <1>12 DEF StreamKept

LEMMA StreamIsRight == ASSUME StreamKept PROVE ClientAgrees
<1>1. ObstaclesAgree
  <2>. SUFFICES ASSUME role # "none", queue = << >> PROVE client.map.field = arena.field
    BY DEF ObstaclesAgree
  <2>1. Leads(client.map.field, << >>, arena.field)
    BY DEF StreamKept, Tells
  <2>2. Len(<< >>) = 0
    OBVIOUS
  <2>. QED  BY <2>1, <2>2 DEF Leads
<1>2. EffectsOnce
  <2>1. PICK e \in Pasts, p \in [0 .. Len(queue) -> Pasts] : Chronicle(e, p)
    BY DEF StreamKept, Chronicled
  <2>2. client.view \in Views /\ client.me \in BOOLEAN /\ queue \in Seq(Messages)
    BY DEF StreamKept, StreamTypes, Clients
  <2>3. 0 \in 0 .. Len(queue)
    BY <2>2
  <2>4. /\ p[0] \in Pasts /\ Possible(p[0]) /\ Precedes(p[0], ThisMoment)
        /\ Possible(e) /\ Precedes(e, p[0]) /\ Viewed(client.view, e, client.me)
        /\ client.view.latest # Nothing => Shows(client.view.latest, p[0], client.me)
    BY <2>1, <2>3 DEF Chronicle, Chain
  <2>5. alive => p[0].alive
    BY <2>4 DEF Precedes, ThisMoment
  <2>6. ASSUME NEW b \in Shots
        PROVE  /\ client.view.shown[b] <= 1
               /\ p[0].alive /\ client.me /\ Kind[b] # "laser" /\ b \in client.view.known \ client.view.seen
                     => client.view.shown[b] = 1
               /\ client.view.latest # Nothing /\ b \in client.view.known
                     => b \notin FireHeard(client.view, client.view.latest)
    BY <2>2, <2>4, ViewIsRight
  <2>. QED  BY <2>5, <2>6 DEF EffectsOnce
<1>. QED  BY <1>1, <1>2 DEF ClientAgrees

-----------------------------------------------------------------------------
(* Each step keeps it.                                                             *)

LEMMA TickReaches ==
    ASSUME StreamTypes, NEW s \in Spawned(arena), NEW u \in PickedUp(s), NEW f \in Fires(u), NEW a \in AfterShots(f)
    PROVE  a \in Reached(arena)
<1>1. arena \in Reached(arena) /\ arena.field \in Healths /\ arena.fired \in Nat
  BY ArenaIsReached
<1>2. ASSUME NEW t \in Reached(arena), NEW S \in SUBSET PowerUps, NEW T \in SUBSET PowerUps
      PROVE  [t EXCEPT !.powerUps = S, !.unspawned = T] \in Reached(arena)
  <2>. DEFINE z == [t EXCEPT !.powerUps = S, !.unspawned = T]
  <2>1. t \in Arenas /\ Leads(arena.field, t.events, t.field) /\ Possible(t) /\ Later(arena, t)
    BY DEF Reached
  <2>2. /\ z \in Arenas /\ z.field = t.field /\ z.events = t.events
        /\ z.fired = t.fired /\ z.flying = t.flying /\ z.impacts = t.impacts
    BY <2>1 DEF Arenas
  <2>. SUFFICES z \in Reached(arena)
    OBVIOUS
  <2>. HIDE DEF z
  <2>. QED  BY <2>1, <2>2 DEF Reached, Possible, Later
<1>3. s \in Reached(arena)
  <2>1. CASE s = arena
    BY <1>1, <2>1
  <2>2. CASE \E v \in arena.unspawned :
               s = [arena EXCEPT !.powerUps = @ \cup {v}, !.unspawned = @ \ {v}]
    <3>1. PICK v \in arena.unspawned : s = [arena EXCEPT !.powerUps = @ \cup {v}, !.unspawned = @ \ {v}]
      BY <2>2
    <3>2. arena.powerUps \in SUBSET PowerUps /\ arena.unspawned \in SUBSET PowerUps
      BY <1>1 DEF Reached, Arenas
    <3>3. arena.powerUps \cup {v} \in SUBSET PowerUps /\ arena.unspawned \ {v} \in SUBSET PowerUps
      BY <3>2
    <3>4. s = [arena EXCEPT !.powerUps = arena.powerUps \cup {v}, !.unspawned = arena.unspawned \ {v}]
      BY <1>1, <3>1 DEF Reached, Arenas
    <3>. QED  BY <1>1, <1>2, <3>3, <3>4
  <2>. QED  BY <2>1, <2>2 DEF Spawned
<1>4. u \in Reached(arena)
  <2>1. CASE u = s
    BY <1>3, <2>1
  <2>2. CASE \E v \in s.powerUps : u = [s EXCEPT !.powerUps = @ \ {v}]
    <3>1. PICK v \in s.powerUps : u = [s EXCEPT !.powerUps = @ \ {v}]
      BY <2>2
    <3>2. s \in Arenas /\ s.powerUps \ {v} \in SUBSET PowerUps /\ s.unspawned \in SUBSET PowerUps
      BY <1>3 DEF Reached, Arenas
    <3>3. u = [s EXCEPT !.powerUps = s.powerUps \ {v}, !.unspawned = s.unspawned]
      BY <3>1, <3>2 DEF Arenas
    <3>. QED  BY <1>2, <1>3, <3>2, <3>3
  <2>. QED  BY <2>1, <2>2 DEF PickedUp
<1>5. f \in Reached(arena)
  <2>1. CASE f = u
    BY <1>4, <2>1
  <2>2. CASE u.fired # Cardinality(Shots)
             /\ f = [u EXCEPT !.flying = @ \cup {u.fired + 1}, !.fired = @ + 1]
    <3>. DEFINE n == u.fired + 1
                z == [u EXCEPT !.flying = u.flying \cup {n}, !.fired = n]
    <3>1. u \in Arenas /\ Leads(arena.field, u.events, u.field) /\ Possible(u) /\ Later(arena, u)
      BY <1>4 DEF Reached
    <3>2. u.fired \in Nat /\ u.fired <= Len(Kind) /\ u.fired # Len(Kind) /\ Shots = 1 .. Len(Kind) /\ Len(Kind) \in Nat
      BY <2>2, <3>1, ShotsAre DEF Possible
    <3>3. n \in Nat /\ n <= Len(Kind) /\ n \in Shots /\ u.fired <= n
          /\ 1 .. n = 1 .. u.fired \cup {n} /\ n \notin 1 .. u.fired
      BY <3>2
    <3>4. f = z
      BY <2>2, <3>1 DEF Arenas
    <3>. HIDE DEF n
    <3>5. /\ z \in Arenas /\ z.field = u.field /\ z.events = u.events
          /\ z.fired = n /\ z.flying = u.flying \cup {n} /\ z.impacts = u.impacts
      BY <3>1, <3>3 DEF Arenas
    <3>. HIDE DEF z
    <3>6. Possible(z)
      BY <3>1, <3>3, <3>5 DEF Possible
    <3>7. arena.fired <= u.fired /\ arena.fired <= n /\ n \notin 1 .. arena.fired
      BY <1>1, <3>1, <3>2, <3>3 DEF Later
    <3>8. Later(arena, z)
      BY <3>1, <3>5, <3>7 DEF Later
    <3>. QED  BY <3>1, <3>4, <3>5, <3>6, <3>8 DEF Reached
  <2>. QED  BY <2>1, <2>2 DEF Fires
<1>. QED  BY <1>1, <1>5, AfterShotsReach

LEMMA ConcatIsAssociative ==
    ASSUME NEW q \in Seq(Messages), NEW t \in Seq(Messages), NEW z \in Seq(Messages)
    PROVE  q \o << >> = q /\ q \o (t \o z) = (q \o t) \o z
OBVIOUS

LEMMA SnapshotIs ==
    ASSUME NEW a \in Arenas, NEW events, events \subseteq Shots, alive' \in BOOLEAN
    PROVE  /\ Snapshot(a, events) \in States
           /\ Snapshot(a, events).type = "state"
           /\ Snapshot(a, events).shots = a.flying /\ Snapshot(a, events).impacts = events
           /\ Snapshot(a, events).me = (alive' /\ role = "player")
<1>1. (alive' /\ role = "player") \in BOOLEAN
  OBVIOUS
<1>. QED  BY <1>1 DEF Snapshot, States, Arenas

LEMMA StreamTickKeeps == ASSUME StreamKept, StreamTick PROVE StreamKept'
<1>0. StreamTypes /\ Seats(queue, role, client) /\ Tells /\ Chronicled
  BY DEF StreamKept
<1>. DEFINE Made(a) ==
                LET events == pending \cup (a.impacts \ arena.impacts)
                IN  /\ arena' = [a EXCEPT !.events = << >>,
                                          !.impacts = IF Due(PlayersEvery) THEN {} ELSE @]
                    /\ pending' = IF Due(WatchersEvery) THEN {} ELSE events
                    /\ queue' = IF role = "none" THEN queue
                                ELSE queue \o a.events \o Broadcast(a, events)
<1>a. PICK s \in Spawned(arena) : \E u \in PickedUp(s) : \E f \in Fires(u) : \E a \in AfterShots(f) : Made(a)
  BY Zenon DEF StreamTick
<1>. HIDE DEF Made
<1>b. PICK u \in PickedUp(s) : \E f \in Fires(u) : \E a \in AfterShots(f) : Made(a)
  BY <1>a
<1>c. PICK f \in Fires(u) : \E a \in AfterShots(f) : Made(a)
  BY <1>b
<1>1. PICK a \in AfterShots(f) : Made(a)
  BY <1>c
<1>. USE DEF Made
<1>. DEFINE events == pending \cup (a.impacts \ arena.impacts)
            said == Broadcast(a, events)
            t == IF role = "none" THEN << >> ELSE a.events \o said
            rest == IF Due(PlayersEvery) THEN {} ELSE a.impacts
            here == [flying |-> a.flying, impacts |-> a.impacts, fired |-> a.fired, alive |-> alive']
<1>2. a \in Arenas /\ Leads(arena.field, a.events, a.field) /\ Possible(a) /\ Later(arena, a)
  BY <1>0, <1>1, TickReaches DEF Reached
<1>3. /\ alive' \in BOOLEAN /\ (alive' => alive) /\ role' = role /\ client' = client /\ ticks' \in Nat
  <2>1. alive' \in {alive, FALSE} /\ role' = role /\ client' = client /\ ticks' = ticks + 1
    BY Zenon DEF StreamTick
  <2>2. alive \in BOOLEAN /\ ticks \in Nat
    BY <1>0 DEF StreamTypes
  <2>3. alive' \in BOOLEAN /\ (alive' => alive)
    <3>1. CASE alive' = alive
      BY <2>2, <3>1, Zenon
    <3>2. CASE alive' = FALSE
      BY <3>2
    <3>. QED  BY <2>1, <3>1, <3>2, Zenon
  <2>4. ticks' \in Nat
    BY <2>1, <2>2
  <2>. QED  BY <2>1, <2>3, <2>4, Zenon
<1>4. a.events \in Seq(Messages) /\ (\A i \in 1 .. Len(a.events) : a.events[i].type = "obstacle") /\ a.field \in Healths
  BY <1>2, ChangesAre DEF Arenas
<1>5. events \subseteq Shots
  BY <1>0, <1>2 DEF Arenas, StreamTypes
<1>6. rest \subseteq a.impacts
  OBVIOUS
<1>7. arena' = [a EXCEPT !.events = << >>, !.impacts = rest]
  BY <1>1, <1>2 DEF Arenas
<1>8. said = << >> \/ \E m \in States : said = <<m>> /\ Shows(m, here, role = "player")
  <2>1. CASE role = "player" /\ Due(PlayersEvery)
    <3>1. said = <<Snapshot(a, a.impacts)>>
      BY <2>1 DEF Broadcast
    <3>2. a.impacts \subseteq Shots
      BY <1>2 DEF Arenas
    <3>3. /\ Snapshot(a, a.impacts) \in States
          /\ Snapshot(a, a.impacts).shots = a.flying /\ Snapshot(a, a.impacts).impacts = a.impacts
          /\ Snapshot(a, a.impacts).me = (alive' /\ role = "player")
      BY <1>2, <1>3, <3>2, SnapshotIs
    <3>. QED  BY <3>1, <3>3 DEF Shows
  <2>2. CASE role = "watcher" /\ Due(WatchersEvery)
    <3>1. said = <<Snapshot(a, events)>>
      BY <2>2 DEF Broadcast
    <3>2. /\ Snapshot(a, events) \in States
          /\ Snapshot(a, events).shots = a.flying
          /\ Snapshot(a, events).me = (alive' /\ role = "player")
      BY <1>2, <1>3, <1>5, SnapshotIs
    <3>. QED  BY <2>2, <3>1, <3>2 DEF Shows
  <2>3. CASE ~(role = "player" /\ Due(PlayersEvery)) /\ ~(role = "watcher" /\ Due(WatchersEvery))
    BY <2>3 DEF Broadcast
  <2>. QED  BY <2>1, <2>2, <2>3
<1>9. here \in Pasts /\ Possible(here)
  BY <1>2, <1>3 DEF Pasts, Arenas, Possible
<1>10. here.alive = alive' /\ here.fired = a.fired /\ here.flying = a.flying /\ here.impacts = a.impacts
  OBVIOUS
<1>. HIDE DEF events, rest, here
<1>11. /\ arena' \in Arenas /\ arena'.events = << >> /\ arena'.field = a.field
       /\ arena'.fired = a.fired /\ arena'.flying = a.flying /\ arena'.impacts = rest
  <2>1. << >> \in Seq(Changes) /\ rest \in SUBSET Shots
    BY <1>2, <1>6 DEF Arenas
  <2>. QED  BY <1>2, <1>7, <2>1 DEF Arenas
<1>12. Possible(arena')
  BY <1>2, <1>6, <1>11 DEF Possible
<1>13. said \in Seq(Messages) /\ Leads(a.field, said, a.field)
  <2>1. CASE said = << >>
    BY <1>4, <2>1, LeadsNowhere
  <2>2. CASE \E m \in States : said = <<m>>
    <3>1. PICK m \in States : said = <<m>>
      BY <2>2
    <3>2. m \in Messages /\ m.type = "state"
      BY DEF Messages, States
    <3>3. Effect(a.field, m) = a.field
      BY <3>2 DEF Effect
    <3>. HIDE DEF said
    <3>4. said \in Seq(Messages)
      BY <3>1, <3>2
    <3>. QED  BY <1>4, <3>1, <3>2, <3>3, <3>4, LeadsOne
  <2>. QED  BY <1>8, <2>1, <2>2
<1>14. said = << >> \/ (Len(said) = 1 /\ said[1].type = "state" /\ Shows(said[1], here, role = "player"))
  <2>1. ASSUME NEW m \in States, said = <<m>>, Shows(m, here, role = "player")
        PROVE  Len(said) = 1 /\ said[1].type = "state" /\ Shows(said[1], here, role = "player")
    <3>. HIDE DEF said
    <3>1. m.type = "state" /\ said[1] = m /\ Len(said) = 1
      BY <2>1 DEF States
    <3>. QED  BY <2>1, <3>1
  <2>. HIDE DEF said
  <2>. QED  BY <1>8, <2>1
<1>. HIDE DEF said
<1>15. t \in Seq(Messages)
  BY <1>4, <1>13
<1>16. queue' = queue \o t /\ queue \in Seq(Messages)
  <2>1. queue \in Seq(Messages)
    BY <1>0 DEF StreamTypes
  <2>2. queue' = IF role = "none" THEN queue ELSE queue \o a.events \o said
    BY <1>1 DEF said, events
  <2>3. queue \o << >> = queue /\ queue \o (a.events \o said) = queue \o a.events \o said
    BY <1>4, <1>13, <2>1, ConcatIsAssociative
  <2>. QED  BY <2>1, <2>2, <2>3
<1>17. role # "none" => Leads(arena.field, t, a.field)
  BY <1>2, <1>4, <1>13, LeadsOn
<1>18. \A i \in 1 .. Len(t) :
         /\ t[i].type # "joined"
         /\ t[i].type = "state" => Shows(t[i], here, role = "player")
  <2>1. CASE role = "none"
    BY <2>1
  <2>2. CASE role # "none"
    <3>1. /\ Len(a.events) \in Nat /\ Len(said) \in Nat /\ Len(t) = Len(a.events) + Len(said)
          /\ \A i \in 1 .. Len(a.events) : t[i] = a.events[i]
          /\ \A i \in 1 .. Len(said) : t[Len(a.events) + i] = said[i]
      BY <1>4, <1>13, <2>2, ConcatIs
    <3>. HIDE DEF t
    <3>. SUFFICES ASSUME NEW i \in 1 .. Len(t)
                  PROVE  /\ t[i].type # "joined"
                         /\ t[i].type = "state" => Shows(t[i], here, role = "player")
      OBVIOUS
    <3>2. CASE i \in 1 .. Len(a.events)
      BY <1>4, <3>1, <3>2
    <3>3. CASE i \notin 1 .. Len(a.events)
      <4>1. i - Len(a.events) \in 1 .. Len(said) /\ Len(a.events) + (i - Len(a.events)) = i
        BY <3>1, <3>3
      <4>2. said # << >>
        BY <4>1
      <4>3. Len(said) = 1 /\ said[1].type = "state" /\ Shows(said[1], here, role = "player")
        BY <1>14, <4>2
      <4>4. i - Len(a.events) = 1 /\ t[i] = said[i - Len(a.events)]
        BY <3>1, <4>1, <4>3
      <4>. QED  BY <4>3, <4>4
    <3>. QED  BY <3>2, <3>3
  <2>. QED  BY <2>1, <2>2
<1>19. NoneJoins(t, 0) /\ \A i \in 1 .. Len(t) : NoneJoins(t, i)
  BY <1>18 DEF NoneJoins
<1>20. role = "none" => t = << >>
  OBVIOUS
<1>. HIDE DEF t
<1>21. StreamTypes'
  <2>1. pending' \subseteq Shots
    BY <1>1, <1>5 DEF events
  <2>2. queue' \in Seq(Messages)
    BY <1>15, <1>16
  <2>. QED  BY <1>0, <1>3, <1>11, <1>12, <2>1, <2>2 DEF StreamTypes
<1>22. Seats(queue', role', client')
  BY <1>0, <1>3, <1>15, <1>16, <1>19, <1>20, SeatsGrow
<1>23. Tells'
  BY <1>0, <1>3, <1>11, <1>15, <1>16, <1>17, LeadsOn DEF Tells
<1>24. Chronicled'
  <2>1. PICK e \in Pasts, p \in [0 .. Len(queue) -> Pasts] : Chronicle(e, p)
    BY <1>0 DEF Chronicled
  <2>. DEFINE plays == role = "player"
  <2>2. ThisMoment \in Pasts /\ Possible(ThisMoment) /\ Possible(ThisMoment')
    <3>1. /\ ThisMoment'.fired = arena'.fired /\ ThisMoment'.flying = arena'.flying
          /\ ThisMoment'.impacts = arena'.impacts
      BY DEF ThisMoment
    <3>2. Possible(ThisMoment')
      BY <1>12, <3>1 DEF Possible
    <3>. QED  BY <1>0, <3>2, ThisMomentIs
  <2>3. Precedes(ThisMoment, here)
    BY <1>2, <1>3, <1>10 DEF Precedes, Later, ThisMoment
  <2>4. Precedes(here, ThisMoment')
    <3>1. ThisMoment'.fired = a.fired /\ ThisMoment'.flying = a.flying /\ ThisMoment'.impacts = rest /\ ThisMoment'.alive = alive'
      BY <1>11 DEF ThisMoment
    <3>2. a.fired \in Nat
      BY <1>2 DEF Arenas
    <3>. QED  BY <1>6, <1>10, <3>1, <3>2 DEF Precedes, Later
  <2>5. Chain(queue, p, ThisMoment, plays)
    BY <2>1 DEF Chronicle
  <2>6. plays \in BOOLEAN /\ (plays <=> plays /\ NoneJoins(t, 0))
    BY <1>19
  <2>7. \A i \in 1 .. Len(t) : t[i].type = "state" => Shows(t[i], here, plays /\ NoneJoins(t, i))
    <3>. SUFFICES ASSUME NEW i \in 1 .. Len(t), t[i].type = "state"
                  PROVE  Shows(t[i], here, plays /\ NoneJoins(t, i))
      OBVIOUS
    <3>1. (plays /\ NoneJoins(t, i)) = plays
      BY <1>19
    <3>. QED  BY <1>18, <3>1
  <2>. HIDE DEF plays
  <2>8. PICK r \in [0 .. Len(queue \o t) -> Pasts] : r[0] = p[0] /\ Chain(queue \o t, r, ThisMoment', plays)
    <3>1. Extends(queue, t, p, ThisMoment, here, ThisMoment', plays, plays)
      BY <1>9, <1>15, <1>16, <2>1, <2>2, <2>3, <2>4, <2>5, <2>6, <2>7 DEF Extends
    <3>. QED  BY <3>1, Enqueued
  <2>9. Chain(queue', r, ThisMoment', role' = "player")
    <3>1. (role' = "player") = plays
      BY <1>3 DEF plays
    <3>. QED  BY <1>16, <2>8, <3>1
  <2>10. /\ Possible(e) /\ Precedes(e, r[0]) /\ Viewed(client'.view, e, client'.me)
         /\ client'.view.latest # Nothing => Shows(client'.view.latest, r[0], client'.me)
    BY <1>3, <2>1, <2>8 DEF Chronicle
  <2>11. r \in [0 .. Len(queue') -> Pasts]
    BY <1>16, <2>8
  <2>. QED  BY <2>9, <2>10, <2>11 DEF Chronicled, Chronicle
<1>. QED  BY <1>21, <1>22, <1>23, <1>24 DEF StreamKept

LEMMA PairIs ==
    ASSUME NEW a \in Messages, NEW b \in Messages
    PROVE  /\ <<a>> \in Seq(Messages) /\ <<b>> \in Seq(Messages) /\ <<a, b>> \in Seq(Messages)
           /\ <<a, b>> = <<a>> \o <<b>>
<1>1. <<a>> \in Seq(Messages) /\ <<b>> \in Seq(Messages) /\ <<a, b>> \in Seq(Messages)
  OBVIOUS
<1>2. /\ Len(<<a>>) = 1 /\ Len(<<b>>) = 1 /\ <<a>>[1] = a /\ <<b>>[1] = b
      /\ Len(<<a, b>>) = 2 /\ <<a, b>>[1] = a /\ <<a, b>>[2] = b
  OBVIOUS
<1>. DEFINE q == <<a>> \o <<b>>
            t == <<a, b>>
<1>3. q \in Seq(Messages) /\ Len(q) = 2 /\ q[1] = a /\ q[2] = b
  <2>1. /\ Len(q) = Len(<<a>>) + Len(<<b>>)
        /\ \A i \in 1 .. Len(<<a>>) : q[i] = <<a>>[i]
        /\ \A i \in 1 .. Len(<<b>>) : q[Len(<<a>>) + i] = <<b>>[i]
    BY <1>1, ConcatIs
  <2>2. q \in Seq(Messages)
    BY <1>1
  <2>. HIDE DEF q
  <2>3. 1 \in 1 .. Len(<<a>>) /\ 1 \in 1 .. Len(<<b>>) /\ Len(<<a>>) + 1 = 2 /\ Len(<<a>>) + Len(<<b>>) = 2
    BY <1>2
  <2>4. Len(q) = 2
    BY <2>1, <2>3
  <2>5. q[1] = a
    BY <1>2, <2>1, <2>3
  <2>6. q[Len(<<a>>) + 1] = <<b>>[1]
    BY <2>1, <2>3
  <2>7. q[2] = b
    BY <1>2, <2>3, <2>6
  <2>. QED  BY <2>2, <2>4, <2>5, <2>7
<1>. HIDE DEF q, t
<1>4. t = q
  <2>1. t \in [1 .. 2 -> Messages] /\ q \in [1 .. 2 -> Messages]
    BY <1>1, <1>2, <1>3 DEF t
  <2>2. \A i \in 1 .. 2 : i = 1 \/ i = 2
    OBVIOUS
  <2>3. t[1] = a /\ t[2] = b
    BY <1>2 DEF t
  <2>. QED  BY <1>3, <2>1, <2>2, <2>3
<1>. QED  BY <1>1, <1>4 DEF q, t

LEMMA JoinKeeps == ASSUME StreamKept, NEW r \in {"player", "watcher"}, JoinStream(r) PROVE StreamKept'
<1>0. StreamTypes /\ Seats(queue, role, client) /\ Tells /\ Chronicled
  BY DEF StreamKept
<1>. DEFINE j == [type |-> "joined", role |-> r, map |-> [field |-> arena.field, powerUps |-> arena.powerUps]]
            m == [type |-> "state", shots |-> arena.flying, impacts |-> arena.impacts,
                  powerUps |-> arena.powerUps, me |-> alive /\ r = "player"]
            t == <<j, m>>
            plays == r = "player"
            seated == role = "player"
<1>1. /\ role # r /\ role # "player" /\ (client.me => r = "player") /\ role' = r /\ queue' = queue \o t
      /\ arena' = arena /\ pending' = pending /\ ticks' = ticks /\ alive' = alive /\ client' = client
  BY Zenon DEF JoinStream
<1>2. arena \in Arenas /\ Possible(arena) /\ alive \in BOOLEAN /\ queue \in Seq(Messages) /\ client \in Clients
  BY <1>0 DEF StreamTypes
<1>3. arena.field \in Healths
  BY <1>2 DEF Arenas
<1>4. j \in Messages /\ m \in Messages
  <2>1. (alive /\ r = "player") \in BOOLEAN
    OBVIOUS
  <2>2. m \in States
    BY <1>2, <2>1 DEF States, Arenas
  <2>3. j \in Joining
    BY <1>2 DEF Joining, Arenas
  <2>. QED  BY <2>2, <2>3 DEF Messages
<1>5. /\ j.type = "joined" /\ j.role = r /\ j.map.field = arena.field
      /\ m.type = "state" /\ Shows(m, ThisMoment, plays)
  BY DEF Shows, ThisMoment
<1>. HIDE DEF j, m
<1>6. t \in Seq(Messages) /\ Len(t) = 2 /\ t[1] = j /\ t[2] = m /\ t = <<j>> \o <<m>>
      /\ <<j>> \in Seq(Messages) /\ <<m>> \in Seq(Messages)
  <2>1. <<j>> \in Seq(Messages) /\ <<m>> \in Seq(Messages) /\ t \in Seq(Messages)
    BY <1>4, PairIs
  <2>2. Len(t) = 2 /\ t[1] = j /\ t[2] = m
    OBVIOUS
  <2>3. t = <<j>> \o <<m>>
    BY <1>4, PairIs
  <2>. QED  BY <2>1, <2>2, <2>3
<1>. HIDE DEF t
<1>7. role \in {"none", "watcher"}
  BY <1>0, <1>1 DEF StreamTypes
<1>8. Seats(queue', role', client')
  <2>1. t[1].type = "joined" /\ t[1].role = r /\ t[2].type = "state"
    BY <1>5, <1>6
  <2>2. Seats(queue \o t, r, client)
    BY <1>0, <1>1, <1>2, <1>6, <1>7, <2>1, SeatTaken
  <2>. QED  BY <1>1, <2>2
<1>9. StreamTypes'
  <2>1. queue' \in Seq(Messages)
    BY <1>1, <1>2, <1>6
  <2>. QED  BY <1>0, <1>1, <2>1 DEF StreamTypes
<1>10. Leads(client.map.field, queue', arena.field)
  <2>1. client.map.field \in Healths
    BY <1>2 DEF Clients
  <2>2. PICK f \in Healths : Leads(client.map.field, queue, f)
    <3>1. CASE role = "none"
      <4>1. queue = << >>
        BY <1>0, <3>1 DEF Seats
      <4>2. Leads(client.map.field, queue, client.map.field)
        BY <2>1, <4>1, LeadsNowhere
      <4>. QED  BY <2>1, <4>2
    <3>2. CASE role = "watcher"
      <4>1. Leads(client.map.field, queue, arena.field)
        BY <1>0, <3>2 DEF Tells
      <4>. QED  BY <1>3, <4>1
    <3>. QED  BY <1>7, <3>1, <3>2
  <2>3. Leads(f, <<j>>, arena.field)
    <3>1. Effect(f, j) = arena.field
      BY <1>5 DEF Effect
    <3>2. Leads(f, <<j>>, Effect(f, j))
      BY <1>4, LeadsOne
    <3>. QED  BY <3>1, <3>2
  <2>4. Leads(arena.field, <<m>>, arena.field)
    <3>1. Effect(arena.field, m) = arena.field
      BY <1>5 DEF Effect
    <3>2. Leads(arena.field, <<m>>, Effect(arena.field, m))
      BY <1>3, <1>4, LeadsOne
    <3>. QED  BY <3>1, <3>2
  <2>5. Leads(f, t, arena.field)
    BY <1>6, <2>3, <2>4, LeadsOn
  <2>6. Leads(client.map.field, queue \o t, arena.field)
    BY <1>2, <1>6, <2>2, <2>5, LeadsOn
  <2>. QED  BY <1>1, <2>6
<1>11. Tells'
  BY <1>1, <1>10 DEF Tells
<1>12. Chronicled'
  <2>1. PICK e \in Pasts, p \in [0 .. Len(queue) -> Pasts] : Chronicle(e, p)
    BY <1>0 DEF Chronicled
  <2>2. ThisMoment \in Pasts /\ Possible(ThisMoment) /\ Precedes(ThisMoment, ThisMoment) /\ ThisMoment' = ThisMoment
    BY <1>0, <1>1, ThisMomentIs, ItselfPrecedes DEF ThisMoment
  <2>3. Chain(queue, p, ThisMoment, seated)
    BY <2>1 DEF Chronicle
  <2>4. ~NoneJoins(t, 0) /\ NoneJoins(t, 2)
    <3>1. 1 \in 1 .. Len(t) /\ 1 > 0 /\ \A i \in 1 .. Len(t) : ~(i > 2)
      BY <1>6
    <3>. QED  BY <1>5, <1>6, <3>1 DEF NoneJoins
  <2>5. plays \in BOOLEAN /\ seated \in BOOLEAN /\ ~seated
    BY <1>1
  <2>6. ASSUME NEW i \in 1 .. Len(t), t[i].type = "state" PROVE Shows(t[i], ThisMoment, plays /\ NoneJoins(t, i))
    <3>1. i = 2
      BY <1>5, <1>6, <2>6
    <3>2. (plays /\ NoneJoins(t, i)) = plays
      BY <2>4, <3>1
    <3>. QED  BY <1>5, <1>6, <3>1, <3>2
  <2>7. (role' = "player") = plays
    BY <1>1
  <2>. HIDE DEF plays, seated
  <2>8. Extends(queue, t, p, ThisMoment, ThisMoment, ThisMoment, plays, seated)
    BY <1>2, <1>6, <2>1, <2>2, <2>3, <2>4, <2>5, <2>6 DEF Extends
  <2>9. PICK z \in [0 .. Len(queue \o t) -> Pasts] : z[0] = p[0] /\ Chain(queue \o t, z, ThisMoment, plays)
    BY <2>8, Enqueued
  <2>10. Chain(queue', z, ThisMoment', role' = "player")
    BY <1>1, <2>2, <2>7, <2>9
  <2>11. /\ Possible(e) /\ Precedes(e, z[0]) /\ Viewed(client'.view, e, client'.me)
         /\ client'.view.latest # Nothing => Shows(client'.view.latest, z[0], client'.me)
    BY <1>1, <2>1, <2>9 DEF Chronicle
  <2>12. z \in [0 .. Len(queue') -> Pasts]
    BY <1>1, <2>9
  <2>. QED  BY <2>10, <2>11, <2>12 DEF Chronicled, Chronicle
<1>. QED  BY <1>8, <1>9, <1>11, <1>12 DEF StreamKept

LEMMA LossKeeps == ASSUME StreamKept, ConnectionLost PROVE StreamKept'
<1>0. StreamTypes /\ Seats(queue, role, client) /\ Tells /\ Chronicled
  BY DEF StreamKept
<1>1. /\ role' = "none" /\ queue' = << >>
      /\ arena' = arena /\ pending' = pending /\ ticks' = ticks /\ alive' = alive /\ client' = client
  BY Zenon DEF ConnectionLost
<1>2. StreamTypes'
  <2>1. << >> \in Seq(Messages)
    OBVIOUS
  <2>. QED  BY <1>0, <1>1, <2>1 DEF StreamTypes
<1>3. Seats(queue', role', client')
  <2>1. Len(<< >>) = 0
    OBVIOUS
  <2>. QED  BY <1>1, <2>1 DEF Seats
<1>4. Tells'
  BY <1>1 DEF Tells
<1>5. Chronicled'
  <2>1. PICK e \in Pasts, p \in [0 .. Len(queue) -> Pasts] : Chronicle(e, p)
    BY <1>0 DEF Chronicled
  <2>2. 0 \in 0 .. Len(queue) /\ Len(<< >>) = 0
    BY <1>0 DEF StreamTypes
  <2>3. p[0] \in Pasts /\ Possible(p[0]) /\ Precedes(p[0], ThisMoment)
    BY <2>1, <2>2 DEF Chronicle, Chain
  <2>. DEFINE z == [i \in 0 .. 0 |-> p[0]]
  <2>4. z \in [0 .. Len(queue') -> Pasts] /\ z[0] = p[0]
    BY <1>1, <2>2, <2>3
  <2>. HIDE DEF z
  <2>5. ThisMoment' = ThisMoment
    BY <1>1 DEF ThisMoment
  <2>6. Chain(queue', z, ThisMoment', role' = "player")
    <3>1. \A i \in 0 .. 0 : i = 0
      OBVIOUS
    <3>2. \A i, k \in 0 .. 0 : ~(i < k)
      OBVIOUS
    <3>3. 1 .. 0 = {}
      OBVIOUS
    <3>. QED  BY <1>1, <2>2, <2>3, <2>4, <2>5, <3>1, <3>2, <3>3 DEF Chain
  <2>7. /\ Possible(e) /\ Precedes(e, z[0]) /\ Viewed(client'.view, e, client'.me)
        /\ client'.view.latest # Nothing => Shows(client'.view.latest, z[0], client'.me)
    BY <1>1, <2>1, <2>4 DEF Chronicle
  <2>. QED  BY <2>4, <2>6, <2>7 DEF Chronicled, Chronicle
<1>. QED  BY <1>2, <1>3, <1>4, <1>5 DEF StreamKept


LEMMA StreamFrameKeeps == ASSUME StreamKept, Frame PROVE StreamKept'
<1>0. StreamTypes /\ Seats(queue, role, client) /\ Tells /\ Chronicled
  BY DEF StreamKept
<1>. DEFINE v == client.view
            w == Checked(v, v.latest)
<1>1. /\ v.latest # Nothing /\ client' = [client EXCEPT !.view = w]
      /\ arena' = arena /\ pending' = pending /\ ticks' = ticks /\ alive' = alive
      /\ role' = role /\ queue' = queue
  <2>1. client \in Clients
    BY <1>0 DEF StreamTypes
  <2>2. client' = [client EXCEPT !.view = Checked(@, @.latest)]
    BY DEF Frame
  <2>. QED  BY <2>1, <2>2 DEF Frame, Clients
<1>2. client \in Clients /\ v \in Views /\ v.latest \in States
  BY <1>0, <1>1 DEF StreamTypes, Clients, Views
<1>3. w \in Views /\ w.latest = v.latest
  BY <1>2, CheckedIs
<1>4. /\ client' \in Clients /\ client'.view = w /\ client'.map = client.map
      /\ client'.joined = client.joined /\ client'.me = client.me
  <2>. HIDE DEF w
  <2>. QED  BY <1>1, <1>2, <1>3 DEF Clients
<1>5. StreamTypes'
  BY <1>0, <1>1, <1>4 DEF StreamTypes
<1>6. Seats(queue', role', client')
  BY <1>0, <1>1, <1>4 DEF Seats
<1>7. Tells'
  BY <1>0, <1>1, <1>4 DEF Tells
<1>8. Chronicled'
  <2>1. PICK e \in Pasts, p \in [0 .. Len(queue) -> Pasts] : Chronicle(e, p)
    BY <1>0 DEF Chronicled
  <2>2. 0 \in 0 .. Len(queue)
    BY <1>0 DEF StreamTypes
  <2>3. /\ p[0] \in Pasts /\ Possible(p[0]) /\ Possible(e) /\ Precedes(e, p[0])
        /\ Viewed(v, e, client.me) /\ Shows(v.latest, p[0], client.me)
    BY <1>1, <2>1, <2>2 DEF Chronicle, Chain
  <2>4. client.me \in BOOLEAN
    BY <1>2 DEF Clients
  <2>5. Viewed(w, p[0], client.me)
    BY <1>2, <2>3, <2>4, CheckedKeeps
  <2>6. Precedes(p[0], p[0])
    BY <2>3, ItselfPrecedes
  <2>7. Chain(queue', p, ThisMoment', role' = "player")
    <3>1. ThisMoment' = ThisMoment
      BY <1>1 DEF ThisMoment
    <3>. QED  BY <1>1, <2>1, <3>1 DEF Chronicle
  <2>8. p \in [0 .. Len(queue') -> Pasts]
    BY <1>1, <2>1
  <2>. QED  BY <1>3, <1>4, <2>3, <2>5, <2>6, <2>7, <2>8 DEF Chronicled, Chronicle
<1>. QED  BY <1>5, <1>6, <1>7, <1>8 DEF StreamKept

\* A snapshot at the head of the queue was made for a client that plays exactly
\* when the client has its seat by the time it arrives.
LEMMA SeatedForIt ==
    ASSUME NEW q \in Seq(Messages), q # << >>, q[1].type # "joined",
           NEW r \in {"player", "watcher"}, NEW c, Seats(q, r, c), c.me \in BOOLEAN
    PROVE  (r = "player" /\ NoneJoins(q, 1)) = c.me
<1>1. Len(q) \in Nat \ {0}
  BY RestIs
<1>2. CASE NoneJoins(q, 1)
  <2>1. NoneJoins(q, 0)
    <3>1. \A j \in 1 .. Len(q) : j > 0 => j = 1 \/ j > 1
      BY <1>1
    <3>. QED  BY <1>2, <3>1 DEF NoneJoins
  <2>2. c.me <=> r = "player"
    BY <2>1 DEF Seats
  <2>. QED  BY <1>2, <2>2
<1>3. CASE ~NoneJoins(q, 1)
  <2>1. PICK j \in 1 .. Len(q) : j > 1 /\ q[j].type = "joined"
    BY <1>3 DEF NoneJoins
  <2>2. j # 1 /\ q[j] \in Messages
    BY <2>1
  <2>3. q[j].role \in {"player", "watcher"}
    BY <2>1, <2>2, JoinedIs DEF Joining
  <2>4. ~c.me
    BY <2>1, <2>2, <2>3 DEF Seats
  <2>. QED  BY <1>3, <2>4
<1>. QED  BY <1>2, <1>3

LEMMA ReceiveKeeps == ASSUME StreamKept, Receive PROVE StreamKept'
<1>0. StreamTypes /\ Seats(queue, role, client) /\ Tells /\ Chronicled
  BY DEF StreamKept
<1>. DEFINE m == Head(queue)
            f == client.map.field
<1>1. /\ queue # << >> /\ queue' = Tail(queue) /\ (OnJoined \/ OnState \/ OnObstacle)
      /\ arena' = arena /\ pending' = pending /\ ticks' = ticks /\ alive' = alive /\ role' = role
  BY Zenon DEF Receive
<1>2. queue \in Seq(Messages) /\ client \in Clients /\ role \in {"none", "player", "watcher"}
  BY <1>0 DEF StreamTypes
<1>3. /\ Len(queue) \in Nat \ {0} /\ m = queue[1] /\ m \in Messages /\ queue[1] \in Messages
      /\ Tail(queue) \in Seq(Messages) /\ Len(Tail(queue)) = Len(queue) - 1
  BY <1>1, <1>2, RestIs
<1>4. role \in {"player", "watcher"}
  BY <1>0, <1>1, <1>2 DEF Seats
<1>5. f \in Healths /\ client.view \in Views /\ client.me \in BOOLEAN
  BY <1>2 DEF Clients
<1>6. Received = m
  BY DEF Received
<1>7. PICK e \in Pasts, p \in [0 .. Len(queue) -> Pasts] : Chronicle(e, p)
  BY <1>0 DEF Chronicled
<1>. HIDE DEF m
<1>8. /\ Chain(queue, p, ThisMoment, role = "player")
      /\ Possible(e) /\ Precedes(e, p[0]) /\ Viewed(client.view, e, client.me)
      /\ client.view.latest # Nothing => Shows(client.view.latest, p[0], client.me)
  BY <1>7 DEF Chronicle
<1>9. /\ 0 \in 0 .. Len(queue) /\ 1 \in 0 .. Len(queue) /\ 1 \in 1 .. Len(queue) /\ 0 < 1
  BY <1>3
<1>10. /\ Possible(p[0]) /\ Possible(p[1]) /\ Precedes(p[0], p[1]) /\ p[0] \in Pasts /\ p[1] \in Pasts
       /\ m.type = "state" => Shows(m, p[1], role = "player" /\ NoneJoins(queue, 1))
  BY <1>3, <1>7, <1>8, <1>9 DEF Chain
<1>11. Precedes(e, p[1]) /\ Precedes(p[1], p[1])
  BY <1>8, <1>10, PrecedesIsTransitive, ItselfPrecedes
<1>. DEFINE Seated == IF m.type = "joined" THEN client'.joined /\ (client'.me <=> m.role = "player")
                      ELSE client'.joined = client.joined /\ client'.me = client.me
            Drawable(z, past) ==
                /\ z \in {p[0], p[1]} /\ past \in Pasts
                /\ Possible(past) /\ Precedes(past, z) /\ Viewed(client'.view, past, client'.me)
                /\ client'.view.latest # Nothing => Shows(client'.view.latest, z, client'.me)
<1>12. ASSUME client' \in Clients, client'.map.field = Effect(f, m), Seated,
              NEW z, NEW past, Drawable(z, past)
       PROVE  StreamKept'
  <2>1. StreamTypes'
    BY <1>0, <1>1, <1>3, <1>12 DEF StreamTypes
  <2>2. Seats(queue', role', client')
    <3>1. Seats(Tail(queue), role, client')
      BY <1>0, <1>1, <1>2, <1>3, <1>5, <1>12, SeatReceived
    <3>. QED  BY <1>1, <3>1
  <2>3. Tells'
    <3>1. Leads(f, queue, arena.field)
      BY <1>0, <1>4 DEF Tells
    <3>2. Leads(Effect(f, m), Tail(queue), arena.field)
      BY <1>1, <1>2, <3>1, LeadsTail DEF m
    <3>. QED  BY <1>1, <1>12, <3>2 DEF Tells
  <2>4. Chronicled'
    <3>1. (role = "player") \in BOOLEAN
      OBVIOUS
    <3>2. PICK r \in [0 .. Len(Tail(queue)) -> Pasts] : r[0] = z /\ Chain(Tail(queue), r, ThisMoment, role = "player")
      BY <1>1, <1>2, <1>7, <1>8, <1>12, <3>1, Dequeued
    <3>3. ThisMoment' = ThisMoment
      BY <1>1 DEF ThisMoment
    <3>4. r \in [0 .. Len(queue') -> Pasts] /\ Chain(queue', r, ThisMoment', role' = "player") /\ r[0] = z
      BY <1>1, <3>2, <3>3
    <3>5. Chronicle(past, r)'
      BY <1>12, <3>4 DEF Chronicle
    <3>. QED  BY <1>12, <3>4, <3>5 DEF Chronicled
  <2>. QED  BY <2>1, <2>2, <2>3, <2>4 DEF StreamKept
<1>13. CASE OnJoined
  <2>1. m.type = "joined" /\ m \in Joining
    BY <1>3, <1>6, <1>13, JoinedIs DEF OnJoined
  <2>2. ~(m.role = "watcher" /\ client.me)
    BY <1>0, <1>3, <1>9, <2>1 DEF Seats
  <2>3. client' = [map |-> m.map, joined |-> TRUE, me |-> m.role = "player", view |-> NewView]
    BY <1>6, <1>13, <2>2 DEF OnJoined
  <2>4. NewView \in Views /\ ~NewView.ready /\ NewView.latest = Nothing /\ Viewed(NewView, p[1], m.role = "player")
    <3>1. [b \in Shots |-> 0] \in [Shots -> Nat]
      OBVIOUS
    <3>. QED  BY <3>1 DEF NewView, Views, Viewed
  <2>5. (m.role = "player") \in BOOLEAN /\ m.map \in [field : Healths, powerUps : SUBSET PowerUps]
    BY <2>1 DEF Joining
  <2>6. client' \in Clients
    BY <2>3, <2>4, <2>5 DEF Clients
  <2>7. client'.map.field = Effect(f, m)
    BY <2>1, <2>3 DEF Effect
  <2>8. Seated
    BY <2>1, <2>3
  <2>9. Drawable(p[1], p[1])
    BY <1>10, <1>11, <2>3, <2>4
  <2>. HIDE DEF Seated, Drawable
  <2>. QED  BY <1>12, <2>6, <2>7, <2>8, <2>9
<1>14. CASE OnState
  <2>1. m.type = "state" /\ m \in States
    BY <1>3, <1>6, <1>14, StateIs DEF OnState
  <2>2. Effect(f, m) = f
    BY <2>1 DEF Effect
  <2>3. CASE ~client.joined
    <3>1. client' = client
      BY <1>14, <2>3 DEF OnState
    <3>2. Seated
      BY <2>1, <3>1
    <3>3. Drawable(p[0], e)
      BY <1>8, <3>1
    <3>. HIDE DEF Seated, Drawable
    <3>. QED  BY <1>2, <1>12, <2>2, <3>1, <3>2, <3>3
  <2>4. CASE client.joined
    <3>1. client' = [client EXCEPT !.map.powerUps = m.powerUps, !.view.latest = m]
      BY <1>6, <1>14, <2>4 DEF OnState
    <3>2. m.powerUps \in SUBSET PowerUps
      BY <2>1 DEF States
    <3>3. /\ client' \in Clients /\ client'.map.field = f
          /\ client'.joined = client.joined /\ client'.me = client.me
          /\ client'.view.latest = m /\ client'.view.ready = client.view.ready
          /\ client'.view.seen = client.view.seen /\ client'.view.played = client.view.played
          /\ client'.view.known = client.view.known /\ client'.view.shown = client.view.shown
      BY <1>2, <2>1, <3>1, <3>2 DEF Clients, Views
    <3>4. Shows(m, p[1], client.me)
      <4>1. (role = "player" /\ NoneJoins(queue, 1)) = client.me
        BY <1>0, <1>1, <1>2, <1>3, <1>4, <1>5, <2>1, SeatedForIt
      <4>. QED  BY <1>10, <2>1, <4>1
    <3>5. Viewed(client'.view, e, client'.me)
      BY <1>8, <3>3 DEF Viewed, Drawn
    <3>6. Seated
      BY <2>1, <3>3
    <3>7. Drawable(p[1], e)
      BY <1>8, <1>11, <3>3, <3>4, <3>5
    <3>. HIDE DEF Seated, Drawable
    <3>. QED  BY <1>12, <2>2, <3>3, <3>6, <3>7
  <2>. QED  BY <2>3, <2>4
<1>15. CASE OnObstacle
  <2>1. m.type = "obstacle" /\ m \in Changes
    BY <1>3, <1>6, <1>15 DEF OnObstacle, Messages, States, Joining
  <2>2. m.hp \in Nat /\ Effect(f, m) = WithHealth(f, m.id, m.hp)
    BY <2>1 DEF Changes, Effect
  <2>3. WithHealth(f, m.id, m.hp) \in Healths /\ (m.id \notin DOMAIN f => WithHealth(f, m.id, m.hp) = f)
    BY <1>5, <2>2, WithHealthIs
  <2>4. /\ client' \in Clients /\ client'.map.field = Effect(f, m) /\ client'.view = client.view
        /\ client'.joined = client.joined /\ client'.me = client.me
    <3>1. CASE m.id \notin DOMAIN f
      <4>1. client' = client
        BY <1>6, <1>15, <3>1 DEF OnObstacle
      <4>. QED  BY <1>2, <2>2, <2>3, <3>1, <4>1
    <3>2. CASE m.id \in DOMAIN f
      <4>. DEFINE g == WithHealth(f, m.id, m.hp)
      <4>1. client' = [client EXCEPT !.map.field = g]
        BY <1>2, <1>6, <1>15, <3>2 DEF OnObstacle, Clients
      <4>. HIDE DEF g
      <4>2. g \in Healths /\ Effect(f, m) = g
        BY <2>2, <2>3 DEF g
      <4>. QED  BY <1>2, <4>1, <4>2 DEF Clients
    <3>. QED  BY <3>1, <3>2
  <2>5. Seated
    BY <2>1, <2>4
  <2>6. Drawable(p[0], e)
    BY <1>8, <2>4
  <2>. HIDE DEF Seated, Drawable
  <2>. QED  BY <1>12, <2>4, <2>5, <2>6
<1>. QED  BY <1>1, <1>13, <1>14, <1>15

LEMMA StreamKeeps == ASSUME StreamKept, [StreamNext]_streamVars PROVE StreamKept'
<1>1. CASE StreamTick
  BY <1>1, StreamTickKeeps
<1>2. CASE ConnectionLost
  BY <1>2, LossKeeps
<1>3. CASE Receive
  BY <1>3, ReceiveKeeps
<1>4. CASE Frame
  BY <1>4, StreamFrameKeeps
<1>5. CASE \E r \in {"player", "watcher"} : JoinStream(r)
  BY <1>5, JoinKeeps
<1>6. CASE UNCHANGED streamVars
  <2>1. /\ arena' = arena /\ pending' = pending /\ ticks' = ticks /\ alive' = alive
        /\ role' = role /\ queue' = queue /\ client' = client
    BY <1>6 DEF streamVars
  <2>. QED  BY <2>1 DEF StreamKept, StreamTypes, Tells, Chronicled, Chronicle, ThisMoment
<1>. QED  BY <1>1, <1>2, <1>3, <1>4, <1>5, <1>6 DEF StreamNext
=============================================================================
