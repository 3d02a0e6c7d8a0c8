--------------------------- MODULE ServicesProofs ---------------------------
(***************************************************************************)
(* What is proved of the services around the games: users with the         *)
(* identities they sign in with, their tutorial and their lists of         *)
(* matches, the map editor and the colours of the tanks, the samples of    *)
(* telemetry, sockets with those who watch, the statistics of an           *)
(* administrator, and the lobby.  The parts share no variable, so each     *)
(* invariant is about one of them.                                         *)
(***************************************************************************)
EXTENDS MCServices, TLAPS, FiniteSetTheorems, SequenceTheorems, WellFoundedInduction

-----------------------------------------------------------------------------
(* Accounts.  A request knows an identity; one that renews a wallet read its   *)
(* account, and accounts stay.                                                 *)

KnownRequest(r) ==
    /\ r.kind \in {"login", "link"} => r.id \in Identities /\ {"kind", "id", "step"} \subseteq DOMAIN r
    /\ r.kind = "login" /\ r.step = "renew" => r.id \in DOMAIN db.account

AccountsAgree ==
    /\ DOMAIN db = {"users", "account", "wallet", "name"}
    /\ \A c \in DOMAIN challenge : challenge[c] \in Addresses
    /\ DOMAIN request = Requests /\ \A q \in Requests : KnownRequest(request[q])
    /\ EveryUserSignsIn

\* What a transaction may do to the rows.
RowsGrow(d, e) ==
    /\ DOMAIN e = {"users", "account", "wallet", "name"}
    /\ \A i \in DOMAIN d.account : i \in DOMAIN e.account /\ e.account[i] = d.account[i]
    /\ \A u \in e.users \ d.users : \E i \in Identities : i \in DOMAIN e.account /\ e.account[i] = u
    /\ \A u \in DOMAIN e.wallet :
          (u \in DOMAIN d.wallet /\ e.wallet[u] = d.wallet[u]) \/ e.wallet[u] \in DOMAIN e.account

LEMMA RowsKeep ==
    ASSUME AccountsAgree, RowsGrow(db, db')
    PROVE  EveryUserSignsIn'
<1>1. ASSUME NEW u \in db'.users PROVE IdentitiesOf(u, Identities)' # {}
  <2>1. CASE u \in db.users
    <3>1. PICK i \in Identities : i \in DOMAIN db.account /\ db.account[i] = u
      BY <2>1 DEF AccountsAgree, EveryUserSignsIn, IdentitiesOf
    <3>. QED  BY <3>1 DEF RowsGrow, IdentitiesOf
  <2>2. CASE u \notin db.users
    BY <1>1, <2>2 DEF RowsGrow, IdentitiesOf
  <2>. QED  BY <2>1, <2>2
<1>2. ASSUME NEW u \in DOMAIN db'.wallet PROVE db'.wallet[u] \in DOMAIN db'.account
  BY <1>2 DEF RowsGrow, AccountsAgree, EveryUserSignsIn
<1>. QED  BY <1>1, <1>2 DEF EveryUserSignsIn

LEMMA CreatedGrows ==
    ASSUME AccountsAgree, NEW u, NEW id \in Identities
    PROVE  RowsGrow(db, Created(u, id))
<1>1. CASE Taken(id)
  BY <1>1 DEF Created, RowsGrow, AccountsAgree, EveryUserSignsIn
<1>2. CASE ~Taken(id)
  <2>1. Created(u, id) = [db EXCEPT !.users = db.users \cup {u}, !.account = With(db.account, id, u),
                                    !.wallet = IF id \in Addresses THEN With(db.wallet, u, id) ELSE db.wallet]
    BY <1>2 DEF Created
  <2>2. /\ DOMAIN Created(u, id) = {"users", "account", "wallet", "name"}
        /\ Created(u, id).users = db.users \cup {u} /\ Created(u, id).account = With(db.account, id, u)
        /\ Created(u, id).wallet = IF id \in Addresses THEN With(db.wallet, u, id) ELSE db.wallet
    BY <2>1 DEF AccountsAgree
  <2>3. id \notin DOMAIN db.account
    BY <1>2 DEF Taken
  <2>. QED  BY <2>2, <2>3 DEF RowsGrow, With, AccountsAgree, EveryUserSignsIn
<1>. QED  BY <1>1, <1>2

LEMMA WalletGrows ==
    ASSUME AccountsAgree, NEW u, NEW a \in Identities, NEW linked \in BOOLEAN,
           linked \/ a \in DOMAIN db.account,
           NEW d, d = WalletOf(db, u, a),
           NEW e, e = IF linked /\ a \notin DOMAIN d.account
                      THEN [d EXCEPT !.account = With(d.account, a, u)] ELSE d
    PROVE  RowsGrow(db, e)
<1>1. /\ DOMAIN d = {"users", "account", "wallet", "name"} /\ d.account = db.account /\ d.users = db.users
      /\ \A x \in DOMAIN d.wallet : (x \in DOMAIN db.wallet /\ d.wallet[x] = db.wallet[x]) \/ d.wallet[x] = a
  <2>1. CASE u \in DOMAIN db.wallet
    BY <2>1 DEF WalletOf, AccountsAgree
  <2>2. CASE u \notin DOMAIN db.wallet
    <3>1. d = [db EXCEPT !.wallet = With(db.wallet, u, a)]
      BY <2>2 DEF WalletOf
    <3>. QED  BY <3>1 DEF AccountsAgree, With
  <2>. QED  BY <2>1, <2>2
<1>2. CASE linked /\ a \notin DOMAIN d.account
  <2>1. e = [d EXCEPT !.account = With(d.account, a, u)]
    BY <1>2
  <2>2. DOMAIN e = DOMAIN d /\ e.account = With(db.account, a, u) /\ e.users = db.users /\ e.wallet = d.wallet
    BY <1>1, <2>1
  <2>. QED  BY <1>1, <1>2, <2>2 DEF RowsGrow, With
<1>3. CASE ~(linked /\ a \notin DOMAIN d.account)
  BY <1>1, <1>3 DEF RowsGrow
<1>. QED  BY <1>2, <1>3

LEMMA LinkedGrows ==
    ASSUME AccountsAgree, NEW u, NEW id \in Identities
    PROVE  RowsGrow(db, Linked(u, id))
<1>0. RowsGrow(db, db)
  BY DEF RowsGrow, AccountsAgree, EveryUserSignsIn
<1>1. CASE id \in Subjects
  <2>1. Linked(u, id) = IF id \in DOMAIN db.account THEN db
                        ELSE [db EXCEPT !.account = With(db.account, id, u)]
    BY <1>1 DEF Linked
  <2>2. CASE id \in DOMAIN db.account
    BY <1>0, <2>1, <2>2
  <2>3. CASE id \notin DOMAIN db.account
    <3>1. /\ DOMAIN Linked(u, id) = {"users", "account", "wallet", "name"}
          /\ Linked(u, id).account = With(db.account, id, u)
          /\ Linked(u, id).users = db.users /\ Linked(u, id).wallet = db.wallet
      BY <2>1, <2>3 DEF AccountsAgree
    <3>. QED  BY <2>3, <3>1 DEF RowsGrow, With, AccountsAgree, EveryUserSignsIn
  <2>. QED  BY <2>2, <2>3
<1>2. CASE id \notin Subjects /\ WalletRefused(u, id)
  BY <1>0, <1>2 DEF Linked
<1>3. CASE id \notin Subjects /\ ~WalletRefused(u, id)
  <2>. DEFINE d == WalletOf(db, u, id)
              e == IF id \in DOMAIN d.account THEN d ELSE [d EXCEPT !.account = With(d.account, id, u)]
  <2>1. Linked(u, id) = e
    BY <1>3 DEF Linked
  <2>2. e = IF TRUE /\ id \notin DOMAIN d.account
            THEN [d EXCEPT !.account = With(d.account, id, u)] ELSE d
    OBVIOUS
  <2>. HIDE DEF e
  <2>3. RowsGrow(db, e)
    BY <2>2, WalletGrows
  <2>. QED  BY <2>1, <2>3
<1>. QED  BY <1>1, <1>2, <1>3

\* Every statement of a request keeps the rows, or lets them grow.
LEMMA AccountsInductive == AccountsAgree /\ [AccountNext]_accountVars => AccountsAgree'
<1>. SUFFICES ASSUME AccountsAgree, [AccountNext]_accountVars PROVE AccountsAgree'
  OBVIOUS
<1>0. RowsGrow(db, db)
  BY DEF RowsGrow, AccountsAgree, EveryUserSignsIn
<1>1. ASSUME RowsGrow(db, db'), \A c \in DOMAIN challenge' : challenge'[c] \in Addresses,
             NEW q \in Requests, NEW r, request' = [request EXCEPT ![q] = r], KnownRequest(r)'
      PROVE  AccountsAgree'
  <2>1. EveryUserSignsIn' /\ DOMAIN db' = {"users", "account", "wallet", "name"}
    BY <1>1, RowsKeep DEF RowsGrow
  <2>2. DOMAIN request' = Requests
    BY <1>1 DEF AccountsAgree
  <2>3. ASSUME NEW o \in Requests PROVE KnownRequest(request[o])'
    <3>1. CASE o = q
      BY <1>1, <3>1 DEF AccountsAgree
    <3>2. CASE o # q
      <4>1. request'[o] = request[o] /\ KnownRequest(request[o])
        BY <1>1, <3>2 DEF AccountsAgree
      <4>. QED  BY <1>1, <4>1 DEF KnownRequest, RowsGrow
    <3>. QED  BY <3>1, <3>2
  <2>. QED  BY <1>1, <2>1, <2>2, <2>3 DEF AccountsAgree
<1>2. ASSUME NEW q \in Requests, UNCHANGED <<db, challenge>>, NEW r, Begins(q, r), KnownRequest(r)'
      PROVE  AccountsAgree'
  BY <1>0, <1>1, <1>2 DEF Begins, AccountsAgree
<1>3. KnownRequest(NoRequest)'
  BY DEF KnownRequest, NoRequest
<1>4. ASSUME NEW q \in Requests, RowsGrow(db, db'), challenge' = challenge, Ends(q)
      PROVE  AccountsAgree'
  BY <1>1, <1>3, <1>4 DEF Ends, AccountsAgree
<1>5. ASSUME NEW c \in Challenges, NEW a \in Addresses, Challenge(c, a) PROVE AccountsAgree'
  BY <1>5 DEF Challenge, With, AccountsAgree, KnownRequest, EveryUserSignsIn, IdentitiesOf
<1>6. ASSUME NEW q \in Requests, NEW id \in Subjects, GoogleLogin(q, id) PROVE AccountsAgree'
  BY <1>2, <1>6 DEF GoogleLogin, KnownRequest, Identities
<1>7. ASSUME NEW q \in Requests, NEW id \in Subjects, NEW u, GoogleLink(q, u, id) PROVE AccountsAgree'
  BY <1>2, <1>7 DEF GoogleLink, KnownRequest, Identities
<1>8. ASSUME NEW q \in Requests, NEW c, NEW r, VerifyChallenge(q, c, r), KnownRequest(r)'
      PROVE  AccountsAgree'
  <2>1. \A x \in DOMAIN challenge' : challenge'[x] \in Addresses
    BY <1>8 DEF VerifyChallenge, AccountsAgree
  <2>. QED  BY <1>0, <1>1, <1>8, <2>1 DEF VerifyChallenge, Begins
<1>9. ASSUME NEW q \in Requests, NEW c, PhantomLogin(q, c) PROVE AccountsAgree'
  <2>1. PICK a \in Identities : a = challenge[c]
    BY <1>9 DEF PhantomLogin, AccountsAgree, Identities
  <2>2. KnownRequest([kind |-> "login", id |-> a, step |-> "find"])'
    BY <2>1 DEF KnownRequest
  <2>. QED  BY <1>8, <1>9, <2>1, <2>2 DEF PhantomLogin
<1>10. ASSUME NEW q \in Requests, NEW c, NEW u, PhantomLink(q, c, u) PROVE AccountsAgree'
  <2>1. PICK a \in Identities : a = challenge[c]
    BY <1>10 DEF PhantomLink, AccountsAgree, Identities
  <2>2. KnownRequest([kind |-> "link", user |-> u, id |-> a, step |-> 1])'
    BY <2>1 DEF KnownRequest
  <2>. QED  BY <1>8, <1>10, <2>1, <2>2 DEF PhantomLink
<1>goes. ASSUME NEW q \in Requests, NEW s, Goes(q, s), UNCHANGED <<db, challenge>>,
             request[q].id \in Identities, {"kind", "id", "step"} \subseteq DOMAIN request[q],
             \/ request[q].kind = "link"
             \/ request[q].kind = "login" /\ (s = "renew" => request[q].id \in DOMAIN db.account)
      PROVE  AccountsAgree'
  <2>. DEFINE r == [request[q] EXCEPT !.step = s]
  <2>1. r.id = request[q].id /\ r.kind = request[q].kind /\ r.step = s /\ DOMAIN r = DOMAIN request[q]
    BY <1>goes
  <2>2. request' = [request EXCEPT ![q] = r]
    BY <1>goes DEF Goes
  <2>3. PICK x : x = r
    OBVIOUS
  <2>. HIDE DEF r
  <2>4. KnownRequest(x)'
    BY <1>goes, <2>1, <2>3 DEF KnownRequest
  <2>. QED  BY <1>0, <1>1, <1>goes, <2>2, <2>3, <2>4 DEF AccountsAgree
<1>11. ASSUME NEW q \in Requests, FindAccount(q) PROVE AccountsAgree'
  <2>1. request[q].kind = "login" /\ request[q].id \in Identities /\ {"kind", "id", "step"} \subseteq DOMAIN request[q]
    BY <1>11 DEF FindAccount, AccountsAgree, KnownRequest
  <2>2. CASE Ends(q)
    BY <1>0, <1>4, <1>11, <2>2 DEF FindAccount
  <2>3. ASSUME NEW s, Goes(q, s), s = "create" \/ (s = "renew" /\ request[q].id \in DOMAIN db.account)
        PROVE  AccountsAgree'
    BY <1>11, <2>1, <2>3, <1>goes DEF FindAccount
  <2>. QED  BY <1>11, <2>2, <2>3 DEF FindAccount
<1>12. ASSUME NEW q \in Requests, CreateUser(q) PROVE AccountsAgree'
  <2>1. request[q].id \in Identities
    BY <1>12 DEF CreateUser, AccountsAgree, KnownRequest
  <2>2. RowsGrow(db, db')
    BY <1>12, <2>1, CreatedGrows DEF CreateUser
  <2>. QED  BY <1>4, <1>12, <2>2 DEF CreateUser
<1>13. ASSUME NEW q \in Requests, RenewWallet(q) PROVE AccountsAgree'
  <2>. DEFINE u == db.account[request[q].id]
              d == WalletOf(db, u, request[q].id)
  <2>1. request[q].id \in Identities /\ request[q].id \in DOMAIN db.account
    BY <1>13 DEF RenewWallet, AccountsAgree, KnownRequest
  <2>2. d = IF FALSE /\ request[q].id \notin DOMAIN d.account
            THEN [d EXCEPT !.account = With(d.account, request[q].id, u)] ELSE d
    OBVIOUS
  <2>3. RowsGrow(db, d)
    BY <2>1, <2>2, WalletGrows
  <2>4. RowsGrow(db, db')
    BY <1>0, <1>13, <2>3 DEF RenewWallet
  <2>. QED  BY <1>4, <1>13, <2>4 DEF RenewWallet
<1>14. ASSUME NEW q \in Requests, Link(q) PROVE AccountsAgree'
  <2>1. request[q].kind = "link" /\ request[q].id \in Identities /\ {"kind", "id", "step"} \subseteq DOMAIN request[q]
    BY <1>14 DEF Link, AccountsAgree, KnownRequest
  <2>2. CASE db' = Linked(request[q].user, request[q].id) /\ Ends(q)
    <3>1. RowsGrow(db, db')
      BY <2>1, <2>2, LinkedGrows
    <3>. QED  BY <1>4, <1>14, <2>2, <3>1 DEF Link
  <2>3. CASE UNCHANGED db /\ Ends(q)
    BY <1>0, <1>4, <1>14, <2>3 DEF Link
  <2>4. CASE UNCHANGED db /\ Goes(q, request[q].step + 1)
    BY <1>14, <2>1, <2>4, <1>goes DEF Link
  <2>. QED  BY <1>14, <2>2, <2>3, <2>4 DEF Link
<1>15. ASSUME NEW q \in Requests, NEW u, NEW n, Rename(q, u, n) PROVE AccountsAgree'
  BY <1>2, <1>15 DEF Rename, KnownRequest
<1>16. ASSUME NEW q \in Requests, SetUsername(q) PROVE AccountsAgree'
  <2>1. RowsGrow(db, db')
    BY <1>0, <1>16 DEF SetUsername, RowsGrow, AccountsAgree, EveryUserSignsIn
  <2>. QED  BY <1>4, <1>16, <2>1 DEF SetUsername
<1>17. ASSUME NEW q \in Requests, RequestFails(q) PROVE AccountsAgree'
  BY <1>0, <1>4, <1>17 DEF RequestFails
<1>18. CASE UNCHANGED accountVars
  BY <1>18 DEF accountVars, AccountsAgree, KnownRequest, EveryUserSignsIn, IdentitiesOf
<1>. QED
  BY <1>5, <1>6, <1>7, <1>9, <1>10, <1>11, <1>12, <1>13, <1>14, <1>15, <1>16, <1>17, <1>18 DEF AccountNext

LEMMA AccountsBegin == AccountInit => AccountsAgree
BY DEF AccountInit, AccountsAgree, KnownRequest, NoRequest, EveryUserSignsIn

-----------------------------------------------------------------------------
(* Ordering.  Every element of a finite set has a place of its own.  *)

\* R is a total order of S.
Orders(R, S) ==
    /\ \A x \in S : <<x, x>> \notin R
    /\ \A x, y \in S : x = y \/ <<x, y>> \in R \/ <<y, x>> \in R
    /\ \A x, y, z \in S : <<x, y>> \in R /\ <<y, z>> \in R => <<x, z>> \in R

LEMMA RanksDiffer ==
    ASSUME NEW S, IsFiniteSet(S), NEW R, Orders(R, S), NEW x \in S, NEW y \in S, <<x, y>> \in R
    PROVE  Cardinality(Before(S, R, x)) < Cardinality(Before(S, R, y))
<1>. DEFINE X == Before(S, R, x)
            Y == Before(S, R, y)
<1>1. X \in SUBSET Y /\ x \in Y /\ x \notin X /\ Y \in SUBSET S
  BY DEF Before, Orders
<1>. HIDE DEF X, Y
<1>2. IsFiniteSet(Y)
  BY <1>1, FS_Subset
<1>3. Cardinality(X) <= Cardinality(Y) /\ (Cardinality(X) = Cardinality(Y) => X = Y) /\ IsFiniteSet(X)
  BY <1>1, <1>2, FS_Subset
<1>4. Cardinality(X) \in Nat /\ Cardinality(Y) \in Nat
  BY <1>2, <1>3, FS_CardinalityType
<1>5. Cardinality(X) < Cardinality(Y)
  BY <1>1, <1>3, <1>4
<1>. QED  BY <1>5 DEF X, Y

LEMMA RankBound ==
    ASSUME NEW S, IsFiniteSet(S), NEW R, Orders(R, S), NEW x \in S
    PROVE  Cardinality(Before(S, R, x)) \in 0 .. Cardinality(S) - 1
<1>. DEFINE X == Before(S, R, x)
<1>1. X \in SUBSET S /\ x \in S /\ x \notin X
  BY DEF Before, Orders
<1>. HIDE DEF X
<1>2. IsFiniteSet(X) /\ Cardinality(X) <= Cardinality(S) /\ (Cardinality(X) = Cardinality(S) => X = S)
  BY <1>1, FS_Subset
<1>3. Cardinality(X) \in Nat /\ Cardinality(S) \in Nat
  BY <1>2, FS_CardinalityType
<1>4. Cardinality(X) \in 0 .. Cardinality(S) - 1
  BY <1>1, <1>2, <1>3
<1>. QED  BY <1>4 DEF X

\* The order is kept, and nothing is left out or repeated.
LEMMA OrderedProperties ==
    ASSUME NEW S, IsFiniteSet(S), NEW R, Orders(R, S)
    PROVE  /\ InOrderOf(S, R) \in Seq(S) /\ Len(InOrderOf(S, R)) = Cardinality(S)
           /\ Cardinality(S) \in Nat /\ DOMAIN InOrderOf(S, R) = 1 .. Cardinality(S)
           /\ \A i, j \in DOMAIN InOrderOf(S, R) : i < j =>
                 <<InOrderOf(S, R)[i], InOrderOf(S, R)[j]>> \in R
           /\ \A x \in S : \E i \in DOMAIN InOrderOf(S, R) : InOrderOf(S, R)[i] = x
<1>. DEFINE n == Cardinality(S)
            rank == [x \in S |-> Cardinality(Before(S, R, x))]
            s == InOrderOf(S, R)
<1>1. n \in Nat
  BY FS_CardinalityType
<1>2. rank \in [S -> 0 .. n - 1]
  BY RankBound
<1>3. \A x, y \in S : <<x, y>> \in R => rank[x] < rank[y]
  BY RanksDiffer
<1>4. \A x \in S : rank[x] = Cardinality(Before(S, R, x))
  OBVIOUS
<1>. HIDE DEF rank
<1>5. ASSUME NEW x \in S, NEW y \in S, rank[x] <= rank[y] PROVE x = y \/ <<x, y>> \in R
  <2>1. rank[x] \in Int /\ rank[y] \in Int
    BY <1>1, <1>2
  <2>2. <<y, x>> \in R => rank[y] < rank[x]
    BY <1>3
  <2>3. <<y, x>> \notin R
    BY <1>5, <2>1, <2>2
  <2>. QED  BY <2>3 DEF Orders
<1>6. \A x, y \in S : rank[x] = rank[y] => x = y
  <2>. SUFFICES ASSUME NEW x \in S, NEW y \in S, rank[x] = rank[y], x # y PROVE FALSE
    OBVIOUS
  <2>1. rank[x] \in Int /\ rank[y] \in Int /\ rank[x] <= rank[y] /\ rank[y] <= rank[x]
    BY <1>1, <1>2
  <2>2. <<x, y>> \in R
    BY <1>5, <2>1
  <2>. QED  BY <1>3, <2>1, <2>2
<1>7. rank \in Surjection(S, 0 .. n - 1)
  <2>1. rank \in Injection(S, 0 .. n - 1)
    BY <1>2, <1>6 DEF Injection, IsInjective
  <2>2. IsFiniteSet(0 .. n - 1) /\ Cardinality(0 .. n - 1) = n
    BY <1>1, FS_Interval
  <2>. QED  BY <2>1, <2>2, FS_Injection
<1>8. \A i \in 1 .. n : s[i] \in S /\ rank[s[i]] = i - 1
  <2>. SUFFICES ASSUME NEW i \in 1 .. n PROVE s[i] \in S /\ rank[s[i]] = i - 1
    OBVIOUS
  <2>1. i - 1 \in 0 .. n - 1
    BY <1>1
  <2>2. \E x \in S : rank[x] = i - 1
    BY <1>7, <2>1 DEF Surjection
  <2>3. \E x \in S : Cardinality(Before(S, R, x)) = i - 1
    BY <1>4, <2>2
  <2>4. s[i] = CHOOSE x \in S : Cardinality(Before(S, R, x)) = i - 1
    BY DEF InOrderOf
  <2>. QED  BY <1>4, <2>3, <2>4
<1>9. DOMAIN s = 1 .. n
  BY DEF InOrderOf
<1>10. s \in [1 .. n -> S]
  <2>1. s = [i \in 1 .. n |-> s[i]]
    BY DEF InOrderOf
  <2>. QED  BY <1>8, <2>1
<1>. HIDE DEF s
<1>11. s \in Seq(S) /\ Len(s) = n
  BY <1>1, <1>10
<1>12. ASSUME NEW i \in 1 .. n, NEW j \in 1 .. n, i < j PROVE <<s[i], s[j]>> \in R
  <2>1. i \in Int /\ j \in Int /\ i # j /\ s[i] \in S /\ s[j] \in S
        /\ rank[s[i]] = i - 1 /\ rank[s[j]] = j - 1
    BY <1>1, <1>8, <1>12
  <2>2. rank[s[i]] <= rank[s[j]] /\ s[i] # s[j]
    BY <1>12, <2>1
  <2>. QED  BY <1>5, <2>1, <2>2
<1>13. ASSUME NEW x \in S PROVE \E i \in 1 .. n : s[i] = x
  <2>1. rank[x] + 1 \in 1 .. n
    BY <1>1, <1>2
  <2>2. rank[s[rank[x] + 1]] = rank[x] /\ s[rank[x] + 1] \in S
    BY <1>1, <1>2, <1>8, <2>1
  <2>3. s[rank[x] + 1] = x
    BY <1>1, <1>2, <1>6, <2>2
  <2>. QED  BY <2>1, <2>3
<1>. HIDE DEF n
<1>14. \A i, j \in 1 .. n : i < j => <<s[i], s[j]>> \in R
  BY <1>12
<1>. QED  BY <1>1, <1>9, <1>11, <1>13, <1>14 DEF s, n

LEMMA KeptProperties ==
    ASSUME NEW T, NEW s \in Seq(T), NEW S
    PROVE  Kept(s, S) \in Seq(T \cap S)
<1>. DEFINE I == {n \in DOMAIN s : s[n] \in S}
            R == {p \in I \X I : p[1] < p[2]}
            places == Ascending(I)
<1>1. I \subseteq Nat /\ IsFiniteSet(I) /\ DOMAIN s \subseteq Nat /\ \A n \in I : s[n] \in T \cap S
  <2>1. DOMAIN s = 1 .. Len(s) /\ Len(s) \in Nat
    BY LenProperties
  <2>2. IsFiniteSet(1 .. Len(s))
    BY <2>1, FS_Interval
  <2>3. IsFiniteSet(I)
    BY <2>1, <2>2, FS_Subset
  <2>. QED  BY <2>1, <2>3, ElementOfSeq
<1>. HIDE DEF I
<1>2. Orders(R, I)
  BY <1>1 DEF Orders
<1>3. places = InOrderOf(I, R)
  BY DEF Ascending
<1>. HIDE DEF R
<1>4. places \in Seq(I) /\ DOMAIN places = 1 .. Cardinality(I) /\ Cardinality(I) \in Nat
  BY <1>1, <1>2, <1>3, OrderedProperties
<1>5. \A n \in 1 .. Cardinality(I) : s[places[n]] \in T \cap S
  BY <1>1, <1>4, ElementOfSeq, LenProperties
<1>. HIDE DEF places
<1>6. [n \in 1 .. Cardinality(I) |-> s[places[n]]] \in Seq(T \cap S)
  BY <1>4, <1>5, IsASeq
<1>7. Kept(s, S) = [n \in DOMAIN places |-> s[places[n]]]
  BY DEF Kept, places, I
<1>. QED  BY <1>4, <1>6, <1>7

-----------------------------------------------------------------------------
(* The map editor. *)

Rect   == [l: Int, r: Int]
Places == UNION {[S -> Rect] : S \in SUBSET Ids}
Docs   == {d \in [at: Places, spawns: Seq(Ids)] : Range(d.spawns) \subseteq Known(d)}
Drags  == {NoDrag} \cup [mode: {"move"}, from: Int, origins: Places]
                   \cup [mode: {"resize"}, id: Ids, edge: {"l", "r"}, original: Rect]
                   \cup [mode: {"box"}, from: Int, to: Int, additive: BOOLEAN] \cup [mode: {"pan"}]

EditorTypes ==
    /\ doc \in Docs /\ past \in Seq(Docs) /\ future \in Seq(Docs) /\ start \in Docs \cup {NoDoc}
    /\ drag \in Drags /\ leftOpen \in BOOLEAN

EditorKept == EditorTypes /\ EditorConsistent

LEMMA DocParts ==
    ASSUME NEW d \in Docs
    PROVE  /\ d = [at |-> d.at, spawns |-> d.spawns] /\ d.at \in [Known(d) -> Rect]
           /\ Known(d) \subseteq Ids /\ d.spawns \in Seq(Ids) /\ Range(d.spawns) \subseteq Known(d)
<1>1. d \in [at: Places, spawns: Seq(Ids)] /\ Range(d.spawns) \subseteq Known(d)
  BY DEF Docs
<1>2. PICK S \in SUBSET Ids : d.at \in [S -> Rect]
  BY <1>1 DEF Places
<1>. QED  BY <1>1, <1>2 DEF Known

LEMMA DocOf ==
    ASSUME NEW S \in SUBSET Ids, NEW at \in [S -> Rect], NEW spawns \in Seq(Ids), Range(spawns) \subseteq S
    PROVE  [at |-> at, spawns |-> spawns] \in Docs /\ Known([at |-> at, spawns |-> spawns]) = S
BY DEF Docs, Places, Known

LEMMA EmptyIsDoc == Empty \in Docs /\ Known(Empty) = {}
<1>1. << >> \in [{} -> Rect] /\ << >> \in Seq(Ids) /\ Range(<< >>) = {}
  BY DEF Range
<1>. QED  BY <1>1, DocOf DEF Empty

LEMMA PlacedIsDoc ==
    ASSUME NEW d \in Docs, NEW i \in Ids, NEW l \in Int, NEW r \in Int, NEW isSpawn \in BOOLEAN
    PROVE  Placed(d, i, l, r, isSpawn) \in Docs /\ Known(Placed(d, i, l, r, isSpawn)) = Known(d) \cup {i}
<1>. DEFINE S  == Known(d) \cup {i}
            at == [j \in S |-> IF j = i THEN [l |-> l, r |-> r] ELSE d.at[j]]
            spawns == IF isSpawn THEN Append(d.spawns, i) ELSE d.spawns
<1>1. S \in SUBSET Ids /\ at \in [S -> Rect]
  BY DocParts DEF Rect
<1>2. spawns \in Seq(Ids) /\ Range(spawns) \subseteq S
  <2>1. CASE isSpawn
    <3>1. Append(d.spawns, i) \in Seq(Ids)
      BY DocParts
    <3>2. \A n \in DOMAIN Append(d.spawns, i) : Append(d.spawns, i)[n] \in Range(d.spawns) \cup {i}
      BY DocParts DEF Range
    <3>. QED  BY <2>1, <3>1, <3>2, DocParts DEF Range
  <2>2. CASE ~isSpawn
    BY <2>2, DocParts
  <2>. QED  BY <2>1, <2>2
<1>. QED  BY <1>1, <1>2, DocOf DEF Placed

LEMMA RemovedIsDoc ==
    ASSUME NEW d \in Docs, NEW S
    PROVE  Removed(d, S) \in Docs
<1>. DEFINE K  == Known(d) \ S
            at == [i \in K |-> d.at[i]]
            spawns == Kept(d.spawns, K)
<1>1. d.spawns \in Seq(Ids) /\ K \in SUBSET Ids /\ at \in [K -> Rect]
  BY DocParts
<1>2. spawns \in Seq(Ids \cap K)
  BY <1>1, KeptProperties
<1>. HIDE DEF spawns
<1>3. spawns \in Seq(Ids) /\ Range(spawns) \subseteq K
  <2>1. Range(spawns) \in SUBSET (Ids \cap K)
    BY <1>2, RangeOfSeq
  <2>2. spawns \in Seq(Ids)
    BY <1>2, SeqMonotonic
  <2>. QED  BY <2>1, <2>2
<1>4. Removed(d, S) = [at |-> at, spawns |-> spawns]
  BY DEF Removed, spawns
<1>. HIDE DEF at, K
<1>5. [at |-> at, spawns |-> spawns] \in Docs
  BY <1>1, <1>3, DocOf
<1>. QED  BY <1>4, <1>5

LEMMA MovedIsDoc ==
    ASSUME NEW d \in Docs, NEW S, NEW origins \in [S -> Rect], NEW by \in Int
    PROVE  MovedFrom(d, origins, by) \in Docs /\ Known(MovedFrom(d, origins, by)) = Known(d)
<1>. DEFINE at == [i \in Known(d) |-> IF i \in DOMAIN origins
                                      THEN [l |-> origins[i].l + by, r |-> origins[i].r + by]
                                      ELSE d.at[i]]
<1>1. \A i \in S : origins[i].l \in Int /\ origins[i].r \in Int
  BY DEF Rect
<1>2. d.at \in [Known(d) -> Rect]
  BY DocParts
<1>3. ASSUME NEW i \in Known(d) PROVE at[i] \in Rect
  <2>1. CASE i \in DOMAIN origins
    BY <1>1, <2>1 DEF Rect
  <2>2. CASE i \notin DOMAIN origins
    BY <1>2, <2>2
  <2>. QED  BY <2>1, <2>2
<1>4. at \in [Known(d) -> Rect]
  BY <1>3
<1>5. MovedFrom(d, origins, by) = [at |-> at, spawns |-> d.spawns]
  BY DocParts DEF MovedFrom
<1>. HIDE DEF at
<1>6. Known(d) \in SUBSET Ids /\ d.spawns \in Seq(Ids) /\ Range(d.spawns) \subseteq Known(d)
  BY DocParts
<1>. QED  BY <1>4, <1>5, <1>6, DocOf

LEMMA ReshapedIsDoc ==
    ASSUME NEW d \in Docs, NEW i, NEW rect \in Rect
    PROVE  Reshaped(d, i, rect) \in Docs /\ Known(Reshaped(d, i, rect)) = Known(d)
<1>1. CASE i \in Known(d)
  <2>. DEFINE at == [d.at EXCEPT ![i] = rect]
  <2>1. d = [at |-> d.at, spawns |-> d.spawns] /\ d.at \in [Known(d) -> Rect]
    BY DocParts
  <2>2. Reshaped(d, i, rect) = [at |-> at, spawns |-> d.spawns]
    BY <1>1, <2>1 DEF Reshaped
  <2>3. at \in [Known(d) -> Rect]
    BY <2>1
  <2>. HIDE DEF at
  <2>4. Known(d) \in SUBSET Ids /\ d.spawns \in Seq(Ids) /\ Range(d.spawns) \subseteq Known(d)
    BY DocParts
  <2>. QED  BY <2>2, <2>3, <2>4, DocOf
<1>2. CASE i \notin Known(d)
  BY <1>2 DEF Reshaped
<1>. QED  BY <1>1, <1>2

LEMMA CopiedIsDoc ==
    ASSUME doc \in Docs, selection \subseteq Known(doc), NEW f \in [selection -> Ids],
           \A i, j \in selection : f[i] = f[j] => i = j
    PROVE  Copied(f) \in Docs /\ Range(f) \subseteq Known(Copied(f))
<1>. DEFINE points == Kept(doc.spawns, selection)
            original(c) == doc.at[CHOOSE i \in selection : f[i] = c]
            K  == Known(doc) \cup Range(f)
            at == [j \in K |-> IF j \in Known(doc) THEN doc.at[j]
                               ELSE [l |-> original(j).l + 1, r |-> original(j).r + 1]]
            copies == [n \in DOMAIN points |-> f[points[n]]]
<1>1. doc.at \in [Known(doc) -> Rect] /\ doc.spawns \in Seq(Ids) /\ Range(doc.spawns) \subseteq Known(doc)
      /\ Known(doc) \subseteq Ids
  BY DocParts
<1>2. K \in SUBSET Ids /\ Range(f) \subseteq K
  BY <1>1 DEF Range
<1>3. at \in [K -> Rect]
  <2>. SUFFICES ASSUME NEW j \in K PROVE at[j] \in Rect
    OBVIOUS
  <2>1. CASE j \in Known(doc)
    BY <1>1, <2>1
  <2>2. CASE j \notin Known(doc)
    <3>1. \E i \in selection : f[i] = j
      BY <2>2 DEF Range
    <3>2. original(j) \in Rect
      BY <1>1, <3>1
    <3>. QED  BY <2>2, <3>2 DEF Rect
  <2>. QED  BY <2>1, <2>2
<1>4. copies \in Seq(Range(f) \cap Ids)
  <2>1. points \in Seq(Ids \cap selection)
    BY <1>1, KeptProperties
  <2>. HIDE DEF points
  <2>2. \A n \in DOMAIN points : points[n] \in selection
    BY <2>1, LenProperties, ElementOfSeq
  <2>3. \A n \in DOMAIN points : f[points[n]] \in Range(f) \cap Ids
    BY <2>2 DEF Range
  <2>4. DOMAIN points = 1 .. Len(points) /\ Len(points) \in Nat
    BY <2>1, LenProperties
  <2>5. copies \in [1 .. Len(points) -> Range(f) \cap Ids]
    BY <2>3, <2>4
  <2>. HIDE DEF copies
  <2>. QED  BY <2>4, <2>5
<1>. HIDE DEF copies, points
<1>5. doc.spawns \o copies \in Seq(Ids) /\ Range(doc.spawns \o copies) \subseteq K
  <2>1. copies \in Seq(Ids) /\ Range(copies) \subseteq Range(f)
    BY <1>4, SeqMonotonic, RangeOfSeq
  <2>2. Range(doc.spawns \o copies) = Range(doc.spawns) \cup Range(copies)
    BY <1>1, <2>1, RangeConcatenation
  <2>. QED  BY <1>1, <2>1, <2>2, ConcatProperties
<1>6. Copied(f) = [at |-> at, spawns |-> doc.spawns \o copies]
  BY DEF Copied, copies, points
<1>. DEFINE spawns == doc.spawns \o copies
<1>7. K \in SUBSET Ids /\ at \in [K -> Rect] /\ spawns \in Seq(Ids) /\ Range(spawns) \subseteq K
  BY <1>2, <1>3, <1>5
<1>. HIDE DEF at, K, spawns
<1>8. Copied(f) \in Docs /\ Known(Copied(f)) = K
  <2>1. Copied(f) = [at |-> at, spawns |-> spawns]
    BY <1>6 DEF spawns
  <2>2. [at |-> at, spawns |-> spawns] \in Docs /\ Known([at |-> at, spawns |-> spawns]) = K
    BY <1>7, DocOf
  <2>. QED  BY <2>1, <2>2
<1>. QED  BY <1>2, <1>8

LEMMA ReorderedIsDoc ==
    ASSUME NEW d \in Docs, NEW n \in 1 .. Len(d.spawns) - 1
    PROVE  [d EXCEPT !.spawns = [@ EXCEPT ![n] = d.spawns[n + 1], ![n + 1] = d.spawns[n]]] \in Docs
           /\ Known([d EXCEPT !.spawns = [@ EXCEPT ![n] = d.spawns[n + 1], ![n + 1] = d.spawns[n]]]) = Known(d)
<1>. DEFINE s == d.spawns
            t == [s EXCEPT ![n] = s[n + 1], ![n + 1] = s[n]]
<1>1. s \in Seq(Ids) /\ Range(s) \subseteq Known(d) /\ d = [at |-> d.at, spawns |-> s]
  BY DocParts
<1>2. [d EXCEPT !.spawns = [@ EXCEPT ![n] = d.spawns[n + 1], ![n + 1] = d.spawns[n]]]
        = [at |-> d.at, spawns |-> t]
  <2>1. \A x, y, z : [[at |-> x, spawns |-> y] EXCEPT !.spawns = z] = [at |-> x, spawns |-> z]
    OBVIOUS
  <2>2. [d EXCEPT !.spawns = t] = [at |-> d.at, spawns |-> t]
    <3>. HIDE DEF t
    <3>. QED  BY <1>1, <2>1
  <2>. QED  BY <2>2, Zenon
<1>3. DOMAIN s = 1 .. Len(s) /\ Len(s) \in Nat
  BY <1>1, LenProperties
<1>. HIDE DEF s
<1>4. \A k \in 1 .. Len(s) : s[k] \in Known(d) /\ s[k] \in Ids
  BY <1>1, <1>3 DEF Range
<1>5. n \in 1 .. Len(s) /\ n + 1 \in 1 .. Len(s)
  BY <1>3 DEF s
<1>6. \A k \in 1 .. Len(s) : t[k] \in Known(d) /\ t[k] \in Ids
  BY <1>3, <1>4, <1>5
<1>7. t \in [1 .. Len(s) -> Ids] /\ DOMAIN t = 1 .. Len(s)
  BY <1>3, <1>6
<1>. HIDE DEF t
<1>8. t \in Seq(Ids) /\ Range(t) \subseteq Known(d)
  BY <1>3, <1>6, <1>7 DEF Range
<1>9. Known(d) \in SUBSET Ids /\ d.at \in [Known(d) -> Rect]
  BY DocParts
<1>. DEFINE at == d.at
<1>10. [at |-> at, spawns |-> t] \in Docs /\ Known([at |-> at, spawns |-> t]) = Known(d)
  <2>. HIDE DEF at
  <2>1. at \in [Known(d) -> Rect]
    BY <1>9 DEF at
  <2>. QED  BY <1>8, <1>9, <2>1, DocOf
<1>. QED  BY <1>2, <1>10

-----------------------------------------------------------------------------
(* The history of the editor. *)

LEMMA LastOnesKept ==
    ASSUME NEW s \in Seq(Docs), NEW d \in Docs
    PROVE  LastOnes(Append(s, d)) \in Seq(Docs)
<1>1. Append(s, d) \in Seq(Docs) /\ Append(s, d) # << >>
  BY AppendProperties
<1>2. Tail(Append(s, d)) \in Seq(Docs)
  BY <1>1, HeadTailProperties
<1>. QED  BY <1>1, <1>2 DEF LastOnes

LEMMA CommitKeeps ==
    ASSUME EditorTypes, NEW d \in Docs, Commit(d)
    PROVE  doc' = d /\ past' \in Seq(Docs) /\ future' \in Seq(Docs)
BY LastOnesKept, EmptySeq DEF EditorTypes, Commit

LEMMA FinishKeeps ==
    ASSUME EditorTypes, FinishTransaction
    PROVE  doc' = doc /\ start' = NoDoc /\ past' \in Seq(Docs) /\ future' \in Seq(Docs)
BY LastOnesKept, EmptySeq DEF EditorTypes, FinishTransaction

\* The document changes and nothing is grabbed or let go.
LEMMA EditKeeps ==
    ASSUME EditorKept, doc' \in Docs, past' \in Seq(Docs), future' \in Seq(Docs),
           selection' \subseteq Known(doc'), UNCHANGED drag, start' \in {start, NoDoc}, NotesWhatIsLeft
    PROVE  EditorKept'
BY DEF EditorKept, EditorTypes, EditorConsistent, SelectedExist, TransactionHasDrag, NotesWhatIsLeft

LEMMA PlacingKeeps ==
    ASSUME EditorKept, NEW x \in Pointed, AddObstacle(x) \/ AddSpawn(x), NotesWhatIsLeft
    PROVE  EditorKept'
<1>. x \in Int /\ Width \in Int /\ Size \in Int /\ doc \in Docs
  BY EditorAssumption DEF Pointed, EditorKept, EditorTypes
<1>1. PICK i \in Ids, l \in Int, r \in Int, b \in BOOLEAN :
         /\ Commit(Placed(doc, i, l, r, b)) /\ selection' = {i} /\ UNCHANGED <<start, drag>>
  <2>1. CASE AddObstacle(x)
    <3>1. PICK i \in Fresh : Commit(Placed(doc, i, IF x > Width - Size THEN Width - Size ELSE x,
                                           (IF x > Width - Size THEN Width - Size ELSE x) + Size, FALSE))
                             /\ selection' = {i} /\ UNCHANGED <<start, drag>>
      BY <2>1 DEF AddObstacle
    <3>2. i \in Ids
      BY DEF Fresh
    <3>. DEFINE l == IF x > Width - Size THEN Width - Size ELSE x
    <3>3. l \in Int /\ l + Size \in Int
      OBVIOUS
    <3>. HIDE DEF l
    <3>. QED  BY <3>1, <3>2, <3>3 DEF l
  <2>2. CASE AddSpawn(x)
    BY <2>2 DEF AddSpawn, Fresh
  <2>. QED  BY <2>1, <2>2
<1>2. Placed(doc, i, l, r, b) \in Docs /\ i \in Known(Placed(doc, i, l, r, b))
  BY PlacedIsDoc
<1>3. doc' = Placed(doc, i, l, r, b) /\ past' \in Seq(Docs) /\ future' \in Seq(Docs)
  BY <1>1, <1>2, CommitKeeps DEF EditorKept
<1>. QED  BY <1>1, <1>2, <1>3, EditKeeps

LEMMA ImportKeeps ==
    ASSUME EditorKept, Import, NotesWhatIsLeft
    PROVE  EditorKept'
<1>1. PICK d \in Parsed : Commit(d)
  BY DEF Import
<1>2. d \in Docs
  <2>1. 0 \in Int /\ Size \in Int /\ Width + 1 \in Int /\ Empty \in Docs
    BY EditorAssumption, EmptyIsDoc
  <2>2. \A i \in Fresh : i \in Ids
    BY DEF Fresh
  <2>3. \A i \in Fresh : /\ Placed(Empty, i, 0, Size, FALSE) \in Docs
                         /\ Placed(Empty, i, Width + 1, Width + 1, TRUE) \in Docs
    <3>1. FALSE \in BOOLEAN /\ TRUE \in BOOLEAN
      OBVIOUS
    <3>. QED  BY <2>1, <2>2, <3>1, PlacedIsDoc
  <2>. QED  BY <2>1, <2>3 DEF Parsed
<1>3. doc' = d /\ past' \in Seq(Docs) /\ future' \in Seq(Docs)
  BY <1>1, <1>2, CommitKeeps DEF EditorKept
<1>. QED  BY <1>2, <1>3, EditKeeps DEF Import

LEMMA WalkKeeps ==
    ASSUME EditorKept, Undo \/ Redo, NotesWhatIsLeft
    PROVE  EditorKept'
<1>. past \in Seq(Docs) /\ future \in Seq(Docs) /\ doc \in Docs /\ HistoryLimit \in Nat
  BY EditorAssumption DEF EditorKept, EditorTypes
<1>1. CASE Undo
  <2>1. Len(past) \in Nat \ {0} /\ Len(future) \in Nat
    BY <1>1, EmptySeq, LenProperties DEF Undo
  <2>2. Last(past) \in Docs
    BY <2>1, ElementOfSeq DEF Last
  <2>3. Front(past) \in Seq(Docs)
    BY <2>1, SubSeqProperties DEF Front
  <2>4. <<doc>> \o future \in Seq(Docs) /\ Len(<<doc>> \o future) = Len(future) + 1
    <3>1. <<doc>> \in Seq(Docs) /\ Len(<<doc>>) = 1
      OBVIOUS
    <3>. QED  BY <3>1, <2>1, ConcatProperties
  <2>. DEFINE n == IF Len(future) < HistoryLimit THEN Len(future) + 1 ELSE HistoryLimit
  <2>5. n \in 0 .. Len(future) + 1
    BY <2>1
  <2>. HIDE DEF n
  <2>6. SubSeq(<<doc>> \o future, 1, n) \in Seq(Docs)
    BY <2>4, <2>5, SubSeqProperties
  <2>. QED  BY <1>1, <2>2, <2>3, <2>6, EditKeeps DEF Undo, n
<1>2. CASE Redo
  BY <1>2, HeadTailProperties, LastOnesKept, EditKeeps DEF Redo
<1>. QED  BY <1>1, <1>2

LEMMA SelectionKeeps ==
    ASSUME EditorKept, NotesWhatIsLeft,
           DeleteSelection \/ DuplicateSelection \/ Escape \/ SelectIssue
           \/ \E n \in 1 .. Len(doc.spawns) : ReorderSpawn(n)
    PROVE  EditorKept'
<1>. doc \in Docs /\ selection \subseteq Known(doc) /\ past \in Seq(Docs) /\ future \in Seq(Docs) /\ EditorTypes
  BY DEF EditorKept, EditorTypes, EditorConsistent, SelectedExist
<1>1. CASE DeleteSelection
  <2>1. Removed(doc, selection) \in Docs
    BY RemovedIsDoc
  <2>. QED  BY <1>1, <2>1, CommitKeeps, EditKeeps DEF DeleteSelection
<1>2. CASE DuplicateSelection
  <2>1. PICK f \in [selection -> Fresh] :
            /\ \A i, j \in selection : f[i] = f[j] => i = j
            /\ Commit(Copied(f)) /\ selection' = Range(f) /\ UNCHANGED <<start, drag>>
    BY <1>2 DEF DuplicateSelection
  <2>2. f \in [selection -> Ids]
    BY DEF Fresh
  <2>3. Copied(f) \in Docs /\ Range(f) \subseteq Known(Copied(f))
    BY <2>1, <2>2, CopiedIsDoc
  <2>. QED  BY <2>1, <2>3, CommitKeeps, EditKeeps
<1>3. CASE Escape
  BY <1>3, EditKeeps DEF Escape
<1>4. CASE SelectIssue
  <2>1. Flagged(doc) \subseteq Known(doc)
    BY DocParts DEF Flagged, Obstacles
  <2>. QED  BY <1>4, <2>1, EditKeeps DEF SelectIssue
<1>5. ASSUME NEW n \in 1 .. Len(doc.spawns), ReorderSpawn(n) PROVE EditorKept'
  <2>1. n \in 1 .. Len(doc.spawns) - 1
    BY <1>5 DEF ReorderSpawn
  <2>. DEFINE d == [doc EXCEPT !.spawns = [@ EXCEPT ![n] = doc.spawns[n + 1], ![n + 1] = doc.spawns[n]]]
  <2>2. d \in Docs /\ Known(d) = Known(doc)
    BY <2>1, ReorderedIsDoc
  <2>3. Commit(d) /\ UNCHANGED <<start, selection, drag>>
    BY <1>5 DEF ReorderSpawn
  <2>. HIDE DEF d
  <2>. QED  BY <2>2, <2>3, CommitKeeps, EditKeeps
<1>. QED  BY <1>1, <1>2, <1>3, <1>4, <1>5

LEMMA ArrowKeeps ==
    ASSUME EditorKept, NEW by \in {-1, 1}, Arrow(by), NotesWhatIsLeft
    PROVE  EditorKept'
<1>. doc \in Docs /\ selection \subseteq Known(doc) /\ past \in Seq(Docs) /\ future \in Seq(Docs)
     /\ start \in Docs \cup {NoDoc}
  BY DEF EditorKept, EditorTypes, EditorConsistent, SelectedExist
<1>. DEFINE origins == [i \in selection |-> doc.at[i]]
            moved   == MovedFrom(doc, origins, by)
            before  == IF start = NoDoc THEN doc ELSE start
<1>1. origins \in [selection -> Rect] /\ before \in Docs /\ by \in Int
  BY DocParts
<1>2. moved \in Docs /\ Known(moved) = Known(doc)
  BY <1>1, MovedIsDoc
<1>3. /\ doc' = moved /\ start' = NoDoc /\ UNCHANGED <<selection, drag>>
      /\ IF before = moved THEN UNCHANGED <<past, future>>
         ELSE past' = LastOnes(Append(past, before)) /\ future' = << >>
  BY DEF Arrow
<1>. HIDE DEF origins, moved, before
<1>4. past' \in Seq(Docs) /\ future' \in Seq(Docs)
  BY <1>1, <1>3, LastOnesKept, EmptySeq
<1>. QED  BY <1>2, <1>3, <1>4, EditKeeps

-----------------------------------------------------------------------------
(* Drags.  One that begins before the last one has ended takes its place. *)

LEMMA GrabKeeps ==
    ASSUME EditorKept, GrabHandle \/ GrabEntity \/ GrabGround \/ GrabView, NotesWhatIsLeft
    PROVE  EditorKept'
<1>. /\ EditorTypes /\ doc \in Docs /\ selection \subseteq Known(doc) /\ start \in Docs \cup {NoDoc}
     /\ Pointed \subseteq Int
  BY EditorAssumption DEF Pointed, EditorKept, EditorTypes, EditorConsistent, SelectedExist
<1>0. ASSUME UNCHANGED <<doc, past, future>>, drag' \in Drags, selection' \subseteq Known(doc),
             \/ start' = start /\ drag'.mode \in {"box", "pan"}
             \/ start' \in Docs /\ drag'.mode \in {"move", "resize"}
      PROVE  EditorKept'
  BY <1>0 DEF EditorKept, EditorTypes, EditorConsistent, SelectedExist, TransactionHasDrag, NotesWhatIsLeft
<1>1. CASE GrabHandle
  <2>1. PICK i \in Obstacles(doc), edge \in {"l", "r"} :
            /\ BeginTransaction /\ UNCHANGED <<doc, past, future, selection>>
            /\ drag' = [mode |-> "resize", id |-> i, edge |-> edge, original |-> doc.at[i]]
    BY <1>1 DEF GrabHandle
  <2>2. i \in Ids /\ doc.at[i] \in Rect
    BY DocParts DEF Obstacles
  <2>3. drag' \in Drags /\ drag'.mode = "resize"
    BY <2>1, <2>2 DEF Drags
  <2>. QED  BY <1>0, <2>1, <2>3 DEF BeginTransaction
<1>2. CASE GrabEntity
  <2>1. PICK i \in Known(doc), x \in Pointed, shift \in BOOLEAN :
            /\ selection' = IF shift THEN (selection \cup {i}) \ (selection \cap {i})
                            ELSE IF i \in selection THEN selection ELSE {i}
            /\ BeginTransaction /\ UNCHANGED <<doc, past, future>>
            /\ drag' = [mode |-> "move", from |-> x, origins |-> [j \in selection' \cap Known(doc) |-> doc.at[j]]]
    BY <1>2 DEF GrabEntity
  <2>. DEFINE S == selection' \cap Known(doc)
              origins == [j \in S |-> doc.at[j]]
  <2>2. S \in SUBSET Ids /\ origins \in [S -> Rect]
    BY DocParts
  <2>3. drag' = [mode |-> "move", from |-> x, origins |-> origins] /\ x \in Int
    BY <2>1
  <2>. HIDE DEF S, origins
  <2>4. origins \in Places
    BY <2>2 DEF Places
  <2>5. drag' \in Drags /\ drag'.mode = "move"
    BY <2>3, <2>4 DEF Drags
  <2>. QED  BY <1>0, <2>1, <2>5 DEF BeginTransaction
<1>3. CASE GrabGround
  <2>1. PICK x \in Pointed, shift \in BOOLEAN :
            /\ selection' = IF shift THEN selection ELSE {}
            /\ drag' = [mode |-> "box", from |-> x, to |-> x, additive |-> shift]
            /\ UNCHANGED <<doc, past, future, start>>
    BY <1>3 DEF GrabGround
  <2>2. drag' \in Drags /\ drag'.mode = "box"
    BY <2>1 DEF Drags
  <2>. QED  BY <1>0, <2>1, <2>2
<1>4. CASE GrabView
  <2>1. drag' \in Drags /\ drag'.mode = "pan"
    BY <1>4 DEF Drags, GrabView
  <2>. QED  BY <1>0, <1>4, <2>1 DEF GrabView
<1>. QED  BY <1>1, <1>2, <1>3, <1>4

LEMMA DragKeeps ==
    ASSUME EditorKept, DragEnds \/ \E x \in Pointed : PointerMoves(x), NotesWhatIsLeft
    PROVE  EditorKept'
<1>. /\ EditorTypes /\ doc \in Docs /\ selection \subseteq Known(doc) /\ past \in Seq(Docs) /\ future \in Seq(Docs)
     /\ drag \in Drags /\ Pointed \subseteq Int
  BY EditorAssumption DEF EditorKept, EditorTypes, EditorConsistent, SelectedExist, Pointed
<1>1. CASE DragEnds /\ drag.mode \notin {"move", "resize"}
  <2>1. selection' \subseteq Known(doc) /\ UNCHANGED <<doc, past, future, start>> /\ drag' = NoDrag
    BY <1>1 DEF DragEnds, Boxed
  <2>2. drag' \in Drags /\ drag'.mode = "none"
    BY <2>1 DEF Drags, NoDrag
  <2>3. start' # NoDoc => leftOpen'
    BY <1>1, <2>1, <2>2 DEF EditorKept, EditorTypes, EditorConsistent, TransactionHasDrag, NotesWhatIsLeft
  <2>4. leftOpen' \in BOOLEAN
    BY DEF NotesWhatIsLeft
  <2>. QED  BY <2>1, <2>2, <2>3, <2>4 DEF EditorKept, EditorTypes, EditorConsistent, SelectedExist, TransactionHasDrag
<1>2. CASE DragEnds /\ drag.mode \in {"move", "resize"}
  <2>1. FinishTransaction /\ UNCHANGED selection /\ drag' = NoDrag
    BY <1>2 DEF DragEnds
  <2>2. doc' = doc /\ start' = NoDoc /\ past' \in Seq(Docs) /\ future' \in Seq(Docs)
    BY <2>1, FinishKeeps
  <2>. QED  BY <2>1, <2>2 DEF EditorKept, EditorTypes, EditorConsistent, SelectedExist, TransactionHasDrag, Drags,
                              NotesWhatIsLeft
<1>3. ASSUME NEW x \in Pointed, PointerMoves(x), drag.mode = "move" PROVE EditorKept'
  <2>1. drag \in [mode: {"move"}, from: Int, origins: Places]
    BY <1>3 DEF Drags, NoDrag
  <2>2. PICK S \in SUBSET Ids : drag.origins \in [S -> Rect]
    BY <2>1 DEF Places
  <2>3. x - drag.from \in Int
    BY <2>1
  <2>4. MovedFrom(doc, drag.origins, x - drag.from) \in Docs
        /\ Known(MovedFrom(doc, drag.origins, x - drag.from)) = Known(doc)
    BY <2>2, <2>3, MovedIsDoc
  <2>. QED  BY <1>3, <2>4, EditKeeps DEF PointerMoves
<1>4. ASSUME NEW x \in Pointed, PointerMoves(x), drag.mode = "resize" PROVE EditorKept'
  <2>1. drag \in [mode: {"resize"}, id: Ids, edge: {"l", "r"}, original: Rect]
    BY <1>4 DEF Drags, NoDrag
  <2>2. Resized(drag, x) \in Rect
    <3>1. /\ drag.original = [l |-> drag.original.l, r |-> drag.original.r]
          /\ drag.original.l \in Int /\ drag.original.r \in Int /\ MinSize \in Int /\ x \in Int
      BY <2>1, EditorAssumption DEF Rect
    <3>2. CASE drag.edge = "l"
      BY <3>1, <3>2 DEF Resized, Rect
    <3>3. CASE drag.edge # "l"
      BY <3>1, <3>3 DEF Resized, Rect
    <3>. QED  BY <3>2, <3>3
  <2>3. Reshaped(doc, drag.id, Resized(drag, x)) \in Docs
        /\ Known(Reshaped(doc, drag.id, Resized(drag, x))) = Known(doc)
    BY <2>2, ReshapedIsDoc
  <2>. QED  BY <1>4, <2>3, EditKeeps DEF PointerMoves
<1>5. ASSUME NEW x \in Pointed, PointerMoves(x), drag.mode = "box" PROVE EditorKept'
  <2>1. drag \in [mode: {"box"}, from: Int, to: Int, additive: BOOLEAN] /\ x \in Int
    BY <1>5 DEF Drags, NoDrag
  <2>2. drag' = [drag EXCEPT !.to = x] /\ UNCHANGED <<doc, past, future, start, selection>>
    BY <1>5 DEF PointerMoves
  <2>3. drag' \in Drags /\ drag'.mode = "box"
    BY <2>1, <2>2 DEF Drags
  <2>. QED  BY <1>5, <2>2, <2>3 DEF EditorKept, EditorTypes, EditorConsistent, SelectedExist, TransactionHasDrag, NotesWhatIsLeft
<1>. QED  BY <1>1, <1>2, <1>3, <1>4, <1>5 DEF PointerMoves

LEMMA EditorBegins == EditorInit => EditorKept
BY EmptyIsDoc, EmptySeq DEF EditorInit, EditorKept, EditorTypes, EditorConsistent, SelectedExist,
   TransactionHasDrag, Drags

LEMMA EditorInductive == EditorKept /\ [EditorNext]_editorVars => EditorKept'
<1>. SUFFICES ASSUME EditorKept, [EditorNext]_editorVars PROVE EditorKept'
  OBVIOUS
<1>1. CASE UNCHANGED editorVars
  BY <1>1 DEF editorVars, EditorKept, EditorTypes, EditorConsistent, SelectedExist, TransactionHasDrag
<1>2. CASE EditorNext
  BY <1>2, PlacingKeeps, ImportKeeps, WalkKeeps, SelectionKeeps, ArrowKeeps, GrabKeeps, DragKeeps DEF EditorNext
<1>. QED  BY <1>1, <1>2

-----------------------------------------------------------------------------
(* The colours of the tanks.  The canonical form of a row looks as the row did,  *)
(* and a merged one as the player asked: no colour is lost to the sparse form.   *)

LEMMA SomeParts ==
    ASSUME NEW some \in Somes
    PROVE  DOMAIN some \subseteq PaintedParts /\ \A p \in DOMAIN some : some[p] \in Colors
BY DEF Somes

LEMMA OverIsLook ==
    ASSUME NEW some \in Somes, NEW look \in Looks
    PROVE  Over(some, look) \in Looks
BY SomeParts DEF Over, Looks

LEMMA PlainIsLook == ASSUME NEW c \in Colors PROVE Plain(c) \in Looks
BY DEF Plain, Looks

LEMMA SparseIsSome ==
    ASSUME NEW look \in Looks, NEW base
    PROVE  Sparse(look, base) \in Somes
<1>. DEFINE ps == {p \in PaintedParts : look[p] # base}
<1>1. Sparse(look, base) \in [ps -> Colors]
  BY DEF Sparse, Looks
<1>. QED  BY <1>1 DEF Somes

LEMMA NothingIsSome == Nothing \in Somes /\ DOMAIN Nothing = {}
<1>1. Nothing \in [{} -> Colors]
  BY DEF Nothing
<1>. QED  BY <1>1 DEF Somes, Nothing

\* A sparse form drawn over its own base colour.
LEMMA SparseLooks ==
    ASSUME NEW look \in Looks, NEW base
    PROVE  Over(Sparse(look, base), Over(Nothing, Plain(base))) = look
<1>. DEFINE drawn == Over(Sparse(look, base), Over(Nothing, Plain(base)))
<1>1. DOMAIN Sparse(look, base) = {p \in PaintedParts : look[p] # base}
  BY DEF Sparse
<1>2. \A p \in PaintedParts : drawn[p] = look[p]
  BY <1>1, NothingIsSome DEF Over, Sparse, Plain
<1>3. drawn = [p \in PaintedParts |-> drawn[p]] /\ look = [p \in PaintedParts |-> look[p]]
  BY DEF Over, Looks
<1>. QED  BY <1>2, <1>3

LEMMA BaseIsColor == ASSUME NEW paintRow \in StoredRows PROVE Base(paintRow) \in Colors
BY PaintAssumption DEF StoredRows, PaintedRows, Base

LEMMA LookIsLook == ASSUME NEW paintRow \in StoredRows PROVE Look(paintRow) \in Looks
<1>1. Plain(Base(paintRow)) \in Looks /\ Plain(Fallback) \in Looks
  BY BaseIsColor, PlainIsLook, PaintAssumption
<1>2. CASE paintRow = NoPaint
  BY <1>1, <1>2 DEF Look
<1>3. CASE paintRow # NoPaint
  <2>1. paintRow.nested \in Somes /\ paintRow.flat \in Somes
    BY <1>3 DEF StoredRows, PaintedRows
  <2>2. Over(paintRow.flat, Plain(Base(paintRow))) \in Looks
    BY <1>1, <2>1, OverIsLook
  <2>3. Over(paintRow.nested, Over(paintRow.flat, Plain(Base(paintRow)))) \in Looks
    BY <2>1, <2>2, OverIsLook
  <2>. QED  BY <1>3, <2>3 DEF Look
<1>. QED  BY <1>2, <1>3

\* A row with a base colour, the parts that differ from it, and nothing of the older form.
LEMMA SparseRow ==
    ASSUME NEW look \in Looks, NEW base \in Colors
    PROVE  LET paintRow == [base |-> base, nested |-> Sparse(look, base), flat |-> Nothing]
           IN  paintRow \in StoredRows /\ paintRow # NoPaint /\ Look(paintRow) = look
<1>. DEFINE paintRow == [base |-> base, nested |-> Sparse(look, base), flat |-> Nothing]
<1>1. paintRow \in PaintedRows
  BY SparseIsSome, NothingIsSome DEF PaintedRows
<1>2. paintRow \in StoredRows /\ paintRow # NoPaint
  BY <1>1, PaintAssumption DEF StoredRows
<1>3. Base(paintRow) = base
  BY <1>2, PaintAssumption DEF Base
<1>4. Look(paintRow) = Over(Sparse(look, base), Over(Nothing, Plain(base)))
  BY <1>2, <1>3 DEF Look
<1>. QED  BY <1>2, <1>4, SparseLooks

LEMMA CanonicalLooks ==
    ASSUME NEW paintRow \in StoredRows
    PROVE  Canonical(paintRow) \in StoredRows /\ Look(Canonical(paintRow)) = Look(paintRow)
BY LookIsLook, BaseIsColor, SparseRow DEF Canonical

LEMMA MergedLooks ==
    ASSUME NEW paintRow \in StoredRows, NEW look \in Looks
    PROVE  Merged(paintRow, look) \in StoredRows /\ Look(Merged(paintRow, look)) = look
<1>1. Merged(paintRow, look) = [base |-> Base(paintRow), nested |-> Sparse(look, Base(paintRow)), flat |-> Nothing]
  BY DEF Merged, Canonical
<1>. QED  BY <1>1, BaseIsColor, SparseRow

CallKinds  == {"none", "get", "save", "done"}
CallSteps  == {"none", "read", "repair", "load", "merge", "answer", "done"}
PaintCalls == [kind: CallKinds, step: CallSteps, copy: StoredRows, look: Looks]
PaintEditors ==
    [open: BOOLEAN, draft: Looks, saved: Looks, confirm: BOOLEAN, away: BOOLEAN, entry: BOOLEAN]

PaintTypes ==
    /\ paint \in StoredRows /\ wanted \in Looks
    /\ call \in [Calls -> PaintCalls]
    /\ store \in Looks
    /\ editor \in PaintEditors
    /\ browser \in [entries: Nat, backs: Nat]

\* A closed editor asks nothing and has no entry of its own.
ClosedIsQuiet == ~editor.open => ~editor.confirm /\ ~editor.entry

PaintKept == PaintTypes /\ LookIsKept /\ HistoryIsClean /\ ClosedIsQuiet

USE DEF PaintCalls, CallKinds, CallSteps, PaintEditors

LEMMA NoPaintStored == NoPaint \in StoredRows
BY DEF StoredRows

LEMMA NoCallTyped == NoCall \in PaintCalls
<1>1. Plain(Fallback) \in Looks /\ NoPaint \in StoredRows
  BY PlainIsLook, NoPaintStored, PaintAssumption
<1>. QED  BY <1>1 DEF NoCall

LEMMA NoEditorTyped ==
    /\ NoEditor \in PaintEditors
    /\ ~NoEditor.open /\ ~NoEditor.confirm /\ ~NoEditor.entry
<1>1. Plain(Fallback) \in Looks
  BY PlainIsLook, PaintAssumption
<1>. QED  BY <1>1 DEF NoEditor

LEMMA PaintBegins == PaintInit => PaintKept
BY NoCallTyped, NoEditorTyped, LookIsLook, PlainIsLook, PaintAssumption
   DEF PaintInit, PaintKept, PaintTypes, LookIsKept, HistoryIsClean, ClosedIsQuiet

\* What a call does to the calls.
LEMMA StepsTyped ==
    ASSUME PaintTypes, NEW r \in Calls, NEW step \in CallSteps, NEW paintRow \in StoredRows, Steps(r, step, paintRow)
    PROVE  call' \in [Calls -> PaintCalls]
<1>. DEFINE c == [call[r] EXCEPT !.step = step, !.copy = paintRow]
<1>1. call \in [Calls -> PaintCalls] /\ call' = [call EXCEPT ![r] = c]
  BY DEF PaintTypes, Steps
<1>2. call[r] \in PaintCalls
  BY <1>1
<1>3. c \in PaintCalls
  BY <1>2 DEF PaintCalls
<1>. HIDE DEF c
<1>. QED  BY <1>1, <1>3

\* The page is as it was, and the row typed.
LEMMA PageKept ==
    ASSUME PaintKept, AtPage, paint' \in StoredRows, wanted' \in Looks, LookIsKept',
           call' \in [Calls -> PaintCalls]
    PROVE  PaintKept'
BY DEF PaintKept, PaintTypes, AtPage, HistoryIsClean, ClosedIsQuiet

LEMMA ReadKeeps == ASSUME PaintKept, NEW r \in Calls, ReadRow(r) PROVE PaintKept'
<1>1. Look(paint) \in Looks /\ NoPaint \in StoredRows /\ paint \in StoredRows
  BY LookIsLook, NoPaintStored DEF PaintKept, PaintTypes
<1>2. call' \in [Calls -> PaintCalls]
  <2>1. CASE Steps(r, "load", NoPaint) \/ Steps(r, "repair", paint)
    BY <1>1, <2>1, StepsTyped DEF PaintKept
  <2>2. CASE call' = [call EXCEPT ![r] = [@ EXCEPT !.step = "answer", !.look = Look(paint)]]
    <3>. DEFINE c == [call[r] EXCEPT !.step = "answer", !.look = Look(paint)]
    <3>1. call \in [Calls -> PaintCalls] /\ call[r] \in PaintCalls
      BY DEF PaintKept, PaintTypes
    <3>2. c \in PaintCalls
      BY <1>1, <3>1 DEF PaintCalls, CallSteps
    <3>3. call' = [call EXCEPT ![r] = c]
      BY <2>2
    <3>. HIDE DEF c
    <3>. QED  BY <3>1, <3>2, <3>3
  <2>. QED  BY <2>1, <2>2 DEF ReadRow
<1>3. AtPage /\ paint' \in StoredRows /\ wanted' \in Looks /\ LookIsKept'
  BY DEF ReadRow, PaintKept, PaintTypes, LookIsKept
<1>. QED  BY <1>2, <1>3, PageKept

LEMMA RepairKeeps == ASSUME PaintKept, NEW r \in Calls, RepairRow(r) PROVE PaintKept'
<1>. DEFINE copy == call[r].copy
<1>1. copy \in StoredRows /\ NoPaint \in StoredRows /\ paint \in StoredRows /\ Look(copy) \in Looks
  BY LookIsLook, NoPaintStored DEF PaintKept, PaintTypes
<1>2. Canonical(copy) \in StoredRows /\ Look(Canonical(copy)) = Look(copy)
  BY <1>1, CanonicalLooks
<1>3. Canonical(NoPaint) \in StoredRows /\ Look(Canonical(NoPaint)) = Look(NoPaint)
  BY <1>1, CanonicalLooks
<1>4. call' \in [Calls -> PaintCalls]
  <2>. DEFINE c == IF call[r].kind = "get"
                   THEN [call[r] EXCEPT !.step = "answer", !.copy = NoPaint, !.look = Look(copy)]
                   ELSE [call[r] EXCEPT !.step = "load", !.copy = NoPaint]
  <2>1. call \in [Calls -> PaintCalls] /\ call[r] \in PaintCalls
    BY DEF PaintKept, PaintTypes
  <2>2. c \in PaintCalls
    BY <1>1, <2>1 DEF PaintCalls, CallSteps
  <2>3. call' = [call EXCEPT ![r] = c]
    <3>1. CASE call[r].kind = "get"
      BY <3>1 DEF RepairRow
    <3>2. CASE call[r].kind # "get"
      BY <3>2 DEF RepairRow
    <3>. QED  BY <3>1, <3>2
  <2>. HIDE DEF c
  <2>. QED  BY <2>1, <2>2, <2>3
<1>5. /\ paint' = IF paint = NoPaint THEN Canonical(NoPaint) ELSE Canonical(copy)
      /\ overwrote' = (overwrote \/ paint # copy) /\ wanted' = wanted /\ AtPage
  BY DEF RepairRow
<1>6. LookIsKept'
  BY <1>2, <1>3, <1>5 DEF PaintKept, LookIsKept
<1>7. paint' \in StoredRows /\ wanted' \in Looks
  BY <1>2, <1>3, <1>5 DEF PaintKept, PaintTypes
<1>. QED  BY <1>4, <1>5, <1>6, <1>7, PageKept

LEMMA LoadKeeps == ASSUME PaintKept, NEW r \in Calls, LoadRow(r) PROVE PaintKept'
<1>1. call' \in [Calls -> PaintCalls]
  BY StepsTyped DEF LoadRow, PaintKept, PaintTypes
<1>2. AtPage /\ paint' \in StoredRows /\ wanted' \in Looks /\ LookIsKept'
  BY DEF LoadRow, PaintKept, PaintTypes, LookIsKept
<1>. QED  BY <1>1, <1>2, PageKept

LEMMA MergeKeeps == ASSUME PaintKept, NEW r \in Calls, MergeRow(r) PROVE PaintKept'
<1>1. call[r].copy \in StoredRows /\ call[r].look \in Looks /\ NoPaint \in StoredRows
  BY NoPaintStored DEF PaintKept, PaintTypes
<1>2. Merged(call[r].copy, call[r].look) \in StoredRows
      /\ Look(Merged(call[r].copy, call[r].look)) = call[r].look
  BY <1>1, MergedLooks
<1>3. call' \in [Calls -> PaintCalls]
  BY <1>1, StepsTyped DEF MergeRow, PaintKept
<1>4. paint' = Merged(call[r].copy, call[r].look) /\ wanted' = call[r].look /\ AtPage
  BY DEF MergeRow
<1>5. LookIsKept' /\ paint' \in StoredRows /\ wanted' \in Looks
  BY <1>1, <1>2, <1>4 DEF LookIsKept
<1>. QED  BY <1>3, <1>4, <1>5, PageKept

\* What the page does leaves the row alone.
LEMMA RowKept ==
    ASSUME PaintKept, AtServer
    PROVE  paint' \in StoredRows /\ wanted' \in Looks /\ LookIsKept'
BY DEF PaintKept, PaintTypes, AtServer, LookIsKept

LEMMA SendsKeeps ==
    ASSUME PaintKept, NEW kind \in CallKinds, NEW look \in Looks, Sends(kind, look)
    PROVE  PaintKept'
<1>1. call' \in [Calls -> PaintCalls]
  BY NoPaintStored DEF Sends, PaintKept, PaintTypes
<1>. QED  BY <1>1, RowKept, PageKept DEF Sends

LEMMA ClosingKeeps ==
    ASSUME PaintKept, AtServer, editor' = NoEditor,
           call' \in [Calls -> PaintCalls], store' \in Looks,
           \/ browser' = [entries |-> 0, backs |-> 0]
           \/ RemoveEntry
           \/ editor.open /\ browser' = [browser EXCEPT !.entries = @ - 1]
    PROVE  PaintKept'
<1>1. browser' \in [entries: Nat, backs: Nat] /\ browser'.entries = browser'.backs
  <2>1. CASE browser' = [entries |-> 0, backs |-> 0]
    BY <2>1
  <2>2. CASE RemoveEntry
    BY <2>2 DEF RemoveEntry, PaintKept, PaintTypes, HistoryIsClean, ClosedIsQuiet
  <2>3. CASE editor.open /\ browser' = [browser EXCEPT !.entries = @ - 1]
    BY <2>3 DEF PaintKept, PaintTypes, HistoryIsClean
  <2>. QED  BY <2>1, <2>2, <2>3
<1>. QED  BY <1>1, RowKept, NoEditorTyped DEF PaintKept, PaintTypes, HistoryIsClean, ClosedIsQuiet

\* The editor stays open, with its entry.
LEMMA OpenKeeps ==
    ASSUME PaintKept, AtServer, UNCHANGED <<store, call>>,
           editor' \in PaintEditors,
           editor'.open, editor'.entry, browser' = [entries |-> 1, backs |-> 0]
    PROVE  PaintKept'
BY RowKept DEF PaintKept, PaintTypes, HistoryIsClean, ClosedIsQuiet

LEMMA UserKeeps ==
    ASSUME PaintKept,
           \/ OpenEditor \/ ContinueEditing \/ DiscardChanges \/ Reset \/ BrowserBack
           \/ \E away \in BOOLEAN : RequestClose(away)
           \/ \E p \in PaintedParts, color \in Colors : UpdateColor(p, color)
    PROVE  PaintKept'
<1>. USE DEF PaintKept, PaintTypes
<1>1. CASE OpenEditor
  <2>1. browser' = [entries |-> 1, backs |-> 0]
    BY <1>1 DEF OpenEditor, UserActs, HistoryIsClean
  <2>2. /\ editor' \in PaintEditors
        /\ editor'.open /\ editor'.entry
    BY <1>1, NoEditorTyped DEF OpenEditor
  <2>. QED  BY <1>1, <2>1, <2>2, OpenKeeps DEF OpenEditor
<1>2. CASE ContinueEditing
  BY <1>2, OpenKeeps DEF ContinueEditing, ClosedIsQuiet, HistoryIsClean
<1>3. CASE DiscardChanges
  BY <1>3, ClosingKeeps DEF DiscardChanges, FinishClose
<1>4. CASE Reset
  BY <1>4, OpenKeeps DEF Reset, HistoryIsClean
<1>5. CASE BrowserBack
  <2>1. CASE Dirty
    BY <1>5, <2>1, OpenKeeps DEF BrowserBack, HistoryIsClean
  <2>2. CASE ~Dirty
    BY <1>5, <2>2, ClosingKeeps DEF BrowserBack
  <2>. QED  BY <2>1, <2>2
<1>6. ASSUME NEW away \in BOOLEAN, RequestClose(away) PROVE PaintKept'
  <2>1. CASE Dirty
    BY <1>6, <2>1, OpenKeeps DEF RequestClose, HistoryIsClean
  <2>2. CASE ~Dirty
    BY <1>6, <2>2, ClosingKeeps DEF RequestClose, FinishClose
  <2>. QED  BY <2>1, <2>2
<1>7. ASSUME NEW p \in PaintedParts, NEW color \in Colors, UpdateColor(p, color) PROVE PaintKept'
  <2>1. [editor.draft EXCEPT ![p] = color] \in Looks
    BY DEF Looks
  <2>2. editor' = [editor EXCEPT !.draft = [editor.draft EXCEPT ![p] = color]]
    BY <1>7 DEF UpdateColor
  <2>. QED  BY <1>7, <2>1, <2>2, OpenKeeps DEF UpdateColor, HistoryIsClean
<1>. QED  BY <1>1, <1>2, <1>3, <1>4, <1>5, <1>6, <1>7

LEMMA AnswerKeeps ==
    ASSUME PaintKept, NEW r \in Calls, NEW ok \in BOOLEAN, RequestEnds(r, ok)
    PROVE  PaintKept'
<1>1. call' \in [Calls -> PaintCalls]
  BY NoCallTyped DEF RequestEnds, PaintKept, PaintTypes
<1>2. CASE ok /\ call[r].kind = "save"
  BY <1>1, <1>2, ClosingKeeps DEF RequestEnds, Answered, PaintKept, PaintTypes
<1>3. CASE ~(ok /\ call[r].kind = "save")
  <2>1. store' \in Looks /\ UNCHANGED <<editor, browser>>
    BY <1>3 DEF RequestEnds, Answered, PaintKept, PaintTypes
  <2>. QED  BY <1>1, <2>1, RowKept DEF RequestEnds, PaintKept, PaintTypes, HistoryIsClean, ClosedIsQuiet
<1>. QED  BY <1>2, <1>3

LEMMA PaintInductive == PaintKept /\ [PaintNext]_paintVars => PaintKept'
<1>. SUFFICES ASSUME PaintKept, [PaintNext]_paintVars PROVE PaintKept'
  OBVIOUS
<1>1. CASE UNCHANGED paintVars
  BY <1>1 DEF paintVars, PaintKept, PaintTypes, LookIsKept, HistoryIsClean, ClosedIsQuiet
<1>2. CASE Reload \/ SavePaint
  BY <1>2, SendsKeeps, PlainIsLook, PaintAssumption DEF Reload, SavePaint, PaintKept, PaintTypes
<1>3. CASE PageBack
  <2>1. browser' \in [entries: Nat, backs: Nat] /\ browser'.entries = browser'.backs /\ ~editor.open
    BY <1>3 DEF PageBack, PaintKept, PaintTypes, HistoryIsClean
  <2>. QED  BY <1>3, <2>1, RowKept DEF PageBack, PaintKept, PaintTypes, HistoryIsClean, ClosedIsQuiet
<1>. QED
  BY <1>1, <1>2, <1>3, ReadKeeps, RepairKeeps, LoadKeeps, MergeKeeps, AnswerKeeps, UserKeeps DEF PaintNext

-----------------------------------------------------------------------------
(* The parts together: each takes its own steps and leaves the others alone.     *)

LEMMA StepsOfParts ==
    ASSUME [ServicesNext]_servicesVars
    PROVE  /\ [AccountNext]_accountVars /\ [EditorNext]_editorVars /\ [PaintNext]_paintVars
           /\ [TutorialNext]_tutorialVars /\ [HistoryNext]_historyVars /\ [TelemetryNext]_telemetryVars
           /\ [WatchersNext]_watchersVars /\ [DashboardNext]_dashboardVars /\ [LobbyNext]_lobbyVars
<1>1. CASE UNCHANGED servicesVars
  BY <1>1 DEF servicesVars
<1>2. CASE ServicesNext
  BY <1>2 DEF ServicesNext
<1>. QED  BY <1>1, <1>2

\* In every behaviour of the services, for any pointers that drag at once: what is selected
\* in the map editor is on the map, and a transaction is open only under its drag or under
\* the box or pan that took its place; and no request but a save changes how a tank looks.
THEOREM EditorsHold == ServicesSpec => []EditorsAgree
<1>. DEFINE BothKept == EditorKept /\ PaintKept
<1>1. ServicesInit => BothKept
  BY EditorBegins, PaintBegins DEF ServicesInit
<1>2. BothKept /\ [ServicesNext]_servicesVars => BothKept'
  BY StepsOfParts, EditorInductive, PaintInductive
<1>3. BothKept => EditorsAgree
  BY DEF EditorKept, PaintKept, EditorsAgree, PaintAgrees
<1>. QED  BY <1>1, <1>2, <1>3, PTL DEF ServicesSpec

-----------------------------------------------------------------------------
(* The lists of matches.  A list is what one query would have found, up to its   *)
(* cursor: the cursor is the last match it shows, and a page that was read for   *)
(* it goes on where the list ends.                                               *)

Cursors   == {NoMatch} \cup MatchIds
ListKinds == {"recent", "own"}
MayShow   == IF listing.kind = "own" THEN OwnOnes ELSE PublicOnes

NewestFirst(s)        == \A i, j \in DOMAIN s : i < j => NewerMatch(s[i], s[j])
Shown(s)              == NewestFirst(s) /\ \A i \in DOMAIN s : s[i] \in MayShow \cap saved
EndsAt(s, next)       == next # NoMatch => s # << >> /\ next = s[Len(s)]
MissesNone(s, next, S) == \A m \in S : m \in ToSet(s) \/ (next # NoMatch /\ NewerMatch(next, m))

HistoryTypes ==
    /\ saved \in SUBSET MatchIds /\ sawFirst \in SUBSET saved
    /\ listing \in [kind: ListKinds, items: Seq(MatchIds), next: Cursors, loading: BOOLEAN, error: BOOLEAN]
    /\ asked \in {NoQuery} \cup [state: {"asked"}, cursor: Cursors]
                           \cup [state: {"read"}, next: Cursors, items: Seq(MatchIds)]
    /\ detail \in [id: Cursors, from: ListKinds, state: {"none", "loading", "failed", "shown", "missing"}]

\* Between requests, the next one is known.
Continues ==
    /\ asked # NoQuery => listing.loading /\ ~listing.error /\ detail = NoDetail
    /\ asked # NoQuery \/ listing.error => listing.next # NoMatch \/ listing.items = << >>
    /\ asked.state = "asked" => asked.cursor = listing.next

\* What a page holds that was read and did not come yet.
PageGoesOn ==
    asked.state = "read" =>
        /\ Shown(asked.items) /\ EndsAt(asked.items, asked.next)
        /\ \A i \in DOMAIN asked.items : listing.next # NoMatch => NewerMatch(listing.next, asked.items[i])
        /\ MissesNone(asked.items, asked.next,
               {m \in sawFirst \cap MayShow : listing.next = NoMatch \/ NewerMatch(listing.next, m)})

ListIsWhole ==
    detail = NoDetail /\ (listing.items # << >> \/ (~listing.loading /\ ~listing.error)) =>
        MissesNone(listing.items, listing.next, sawFirst \cap MayShow)

DetailExists ==
    /\ detail # NoDetail => detail.id \in saved /\ detail.id \in PublicOnes \cup OwnOnes
    /\ detail.state # "missing"

HistoryKept ==
    /\ HistoryTypes /\ Shown(listing.items) /\ EndsAt(listing.items, listing.next)
    /\ Continues /\ PageGoesOn /\ ListIsWhole /\ DetailExists

LEMMA HistoryKeptIsWhole == HistoryKept => HistoryIsWhole
BY DEF HistoryKept, Shown, NewestFirst, MayShow, ListIsWhole, MissesNone, DetailExists, HistoryIsWhole

LEMMA MatchIdsAre ==
    /\ MatchIds = 1 .. Len(EndedAt) /\ Len(EndedAt) \in Nat /\ IsFiniteSet(MatchIds)
    /\ \A m \in MatchIds : m \in Nat /\ m # NoMatch /\ EndedAt[m] \in Nat
<1>1. MatchIds = 1 .. Len(EndedAt) /\ Len(EndedAt) \in Nat
  BY HistoryAssumption, LenProperties DEF MatchIds
<1>2. IsFiniteSet(1 .. Len(EndedAt))
  BY <1>1, FS_Interval
<1>. QED  BY <1>1, <1>2, HistoryAssumption, ElementOfSeq DEF NoMatch

LEMMA NewerOrders ==
    /\ \A a, b \in MatchIds : a = b \/ NewerMatch(a, b) \/ NewerMatch(b, a)
    /\ \A a \in MatchIds : ~NewerMatch(a, a)
    /\ \A a, b, c \in MatchIds : NewerMatch(a, b) /\ NewerMatch(b, c) => NewerMatch(a, c)
    /\ \A a, b \in MatchIds : CursorWhere(a, b) <=> NewerMatch(a, b)
BY MatchIdsAre DEF NewerMatch, CursorWhere

LEMMA EmptyList == << >> \in Seq(MatchIds) /\ Len(<< >>) = 0 /\ DOMAIN << >> = {}
BY EmptySeq

LEMMA HistoryBegins == HistoryInit => HistoryKept
<1>. SUFFICES ASSUME HistoryInit PROVE HistoryKept
  OBVIOUS
<1>1. HistoryTypes /\ listing.items = << >> /\ listing.next = NoMatch
      /\ listing.loading /\ ~listing.error /\ asked.state = "asked" /\ asked.cursor = NoMatch
  BY EmptyList DEF HistoryInit, HistoryTypes, NewList, NoDetail, Query, ListKinds, Cursors
<1>. QED
  BY <1>1, EmptyList
     DEF HistoryInit, HistoryKept, Shown, NewestFirst, EndsAt, Continues, PageGoesOn, ListIsWhole,
         DetailExists, Query, NoDetail

LEMMA FirstOnes ==
    ASSUME NEW S, NEW found \in Seq(S), NEW n \in Nat, n <= Len(found)
    PROVE  /\ SubSeq(found, 1, n) \in Seq(S) /\ Len(SubSeq(found, 1, n)) = n
           /\ DOMAIN SubSeq(found, 1, n) = 1 .. n
           /\ \A i \in 1 .. n : SubSeq(found, 1, n)[i] = found[i]
<1>1. Len(found) \in Nat /\ \A i \in 1 .. Len(found) : found[i] \in S
  BY LenProperties, ElementOfSeq
<1>2. 1 \in Int /\ n \in Int /\ n - 1 + 1 = n /\ (1 <= n \/ n = 0)
  OBVIOUS
<1>3. \A i \in 1 .. n : found[i] \in S
  BY <1>1
<1>4. /\ SubSeq(found, 1, n) \in Seq(S)
      /\ Len(SubSeq(found, 1, n)) = IF 1 <= n THEN n - 1 + 1 ELSE 0
      /\ \A i \in 1 .. n - 1 + 1 : SubSeq(found, 1, n)[i] = found[1 + i - 1]
  BY <1>2, <1>3, SubSeqProperties
<1>5. Len(SubSeq(found, 1, n)) = n /\ \A i \in 1 .. n : 1 + i - 1 = i
  BY <1>2, <1>4
<1>6. DOMAIN SubSeq(found, 1, n) = 1 .. n
  BY <1>4, <1>5, LenProperties
<1>. QED  BY <1>2, <1>4, <1>5, <1>6

\* A page of what was found: in order, and nothing left out up to its cursor.
LEMMA PageOfFound ==
    ASSUME NEW S \in SUBSET MatchIds, NEW found \in Seq(S), NewestFirst(found),
           \A m \in S : \E i \in 1 .. Len(found) : found[i] = m
    PROVE  LET items == SubSeq(found, 1, IF Len(found) > PageSize THEN PageSize ELSE Len(found))
           IN  /\ items \in Seq(S) /\ NewestFirst(items) /\ NextCursor(found) \in Cursors
               /\ EndsAt(items, NextCursor(found)) /\ MissesNone(items, NextCursor(found), S)
<1>. DEFINE n == IF Len(found) > PageSize THEN PageSize ELSE Len(found)
            items == SubSeq(found, 1, n)
<1>1. /\ Len(found) \in Nat /\ DOMAIN found = 1 .. Len(found) /\ PageSize \in Nat /\ PageSize > 0
      /\ \A i \in 1 .. Len(found) : found[i] \in S
  BY HistoryAssumption, LenProperties, ElementOfSeq
<1>2. n \in Nat /\ n <= Len(found) /\ n = IF Len(found) > PageSize THEN PageSize ELSE Len(found)
  BY <1>1
<1>. HIDE DEF n
<1>3. items \in Seq(S) /\ Len(items) = n /\ DOMAIN items = 1 .. n /\ \A i \in 1 .. n : items[i] = found[i]
  BY <1>2, FirstOnes
<1>. HIDE DEF items
<1>. DEFINE length == Len(found)
<1>0. length = Len(found) /\ length \in Nat /\ n \in Nat /\ n <= length
  BY <1>1, <1>2
<1>. HIDE DEF length
<1>9. ASSUME NEW i \in 1 .. length PROVE i \in Int /\ 1 <= i /\ i <= length /\ (i <= n <=> i \in 1 .. n) /\ ~(i <= n) = (i > n)
  BY <1>0
<1>10. \A i \in 1 .. n : i \in 1 .. length
  BY <1>0
<1>4. NewestFirst(items)
  <2>1. \A i \in DOMAIN items : i \in DOMAIN found /\ items[i] = found[i]
    BY <1>0, <1>1, <1>3, <1>10
  <2>. QED  BY <2>1 DEF NewestFirst
<1>5. CASE Len(found) > PageSize
  <2>1. NextCursor(found) = found[PageSize] /\ n = PageSize /\ PageSize \in 1 .. Len(found)
    BY <1>1, <1>2, <1>5 DEF NextCursor
  <2>2. NextCursor(found) \in Cursors /\ NextCursor(found) # NoMatch
    BY <1>1, <2>1, MatchIdsAre DEF Cursors
  <2>3. items # << >> /\ NextCursor(found) = items[Len(items)]
    BY <1>1, <1>3, <2>1, EmptySeq
  <2>4. ASSUME NEW m \in S PROVE m \in ToSet(items) \/ NewerMatch(NextCursor(found), m)
    <3>1. PICK i \in 1 .. length : found[i] = m
      BY <1>0
    <3>2. CASE i <= n
      <4>1. i \in DOMAIN items /\ items[i] = m
        BY <1>3, <1>9, <3>1, <3>2
      <4>. QED  BY <4>1 DEF ToSet
    <3>3. CASE i > n
      BY <1>0, <1>1, <2>1, <3>1, <3>3 DEF NewestFirst
    <3>. QED  BY <1>9, <3>2, <3>3
  <2>. QED  BY <1>3, <1>4, <2>2, <2>3, <2>4 DEF MissesNone, EndsAt, items, n
<1>6. CASE ~(Len(found) > PageSize)
  <2>1. NextCursor(found) = NoMatch /\ n = Len(found)
    BY <1>2, <1>6 DEF NextCursor
  <2>2. ASSUME NEW m \in S PROVE m \in ToSet(items)
    <3>1. PICK i \in 1 .. Len(found) : found[i] = m
      OBVIOUS
    <3>2. i \in DOMAIN items /\ items[i] = m
      BY <1>3, <2>1, <3>1
    <3>. QED  BY <3>2 DEF ToSet
  <2>. QED  BY <1>3, <1>4, <2>1, <2>2 DEF MissesNone, EndsAt, Cursors, items, n
<1>. QED  BY <1>5, <1>6

\* What the server finds for a cursor.
LEMMA PageProperties ==
    ASSUME NEW S \in SUBSET MatchIds
    PROVE  LET found == InOrderOf(S, {p \in S \X S : NewerMatch(p[1], p[2])})
               items == SubSeq(found, 1, IF Len(found) > PageSize THEN PageSize ELSE Len(found))
           IN  /\ items \in Seq(S) /\ NewestFirst(items) /\ NextCursor(found) \in Cursors
               /\ EndsAt(items, NextCursor(found)) /\ MissesNone(items, NextCursor(found), S)
<1>. DEFINE R == {p \in S \X S : NewerMatch(p[1], p[2])}
            found == InOrderOf(S, R)
<1>1. IsFiniteSet(S)
  BY MatchIdsAre, FS_Subset
<1>2. Orders(R, S)
  BY NewerOrders DEF Orders
<1>3. \A x, y \in S : <<x, y>> \in R => NewerMatch(x, y)
  OBVIOUS
<1>. HIDE DEF R
<1>4. /\ found \in Seq(S) /\ \A i, j \in DOMAIN found : i < j => <<found[i], found[j]>> \in R
      /\ \A x \in S : \E i \in DOMAIN found : found[i] = x
  BY <1>1, <1>2, OrderedProperties
<1>. HIDE DEF found
<1>5. DOMAIN found = 1 .. Len(found) /\ \A i \in DOMAIN found : found[i] \in S
  BY <1>4, LenProperties, ElementOfSeq
<1>6. NewestFirst(found)
  BY <1>3, <1>4, <1>5 DEF NewestFirst
<1>7. \A m \in S : \E i \in 1 .. Len(found) : found[i] = m
  BY <1>4, <1>5
<1>8. LET items == SubSeq(found, 1, IF Len(found) > PageSize THEN PageSize ELSE Len(found))
      IN  /\ items \in Seq(S) /\ NewestFirst(items) /\ NextCursor(found) \in Cursors
          /\ EndsAt(items, NextCursor(found)) /\ MissesNone(items, NextCursor(found), S)
  BY <1>4, <1>6, <1>7, PageOfFound
<1>. QED  BY <1>8 DEF found, R

LEMMA SaveKeeps == ASSUME HistoryKept, SaveMatch PROVE HistoryKept'
<1>1. saved \subseteq saved' /\ saved' \in SUBSET MatchIds /\ UNCHANGED <<listing, asked, detail, sawFirst>>
  BY DEF SaveMatch, HistoryKept, HistoryTypes
<1>2. HistoryTypes'
  BY <1>1 DEF HistoryKept, HistoryTypes
<1>3. \A s : Shown(s) => Shown(s)'
  BY <1>1 DEF Shown, NewestFirst, NewerMatch, MayShow
<1>4. PageGoesOn'
  BY <1>1, <1>3 DEF HistoryKept, PageGoesOn, EndsAt, MissesNone, NewerMatch, MayShow, Shown
<1>. QED
  BY <1>1, <1>2, <1>3, <1>4
     DEF HistoryKept, EndsAt, Continues, ListIsWhole, MissesNone, NewerMatch, MayShow, DetailExists, Shown

LEMMA ReadPageKeeps == ASSUME HistoryKept, ReadPage PROVE HistoryKept'
<1>. DEFINE S == {m \in saved \cap MayShow : CursorWhere(asked.cursor, m)}
            found == InOrderOf(S, {p \in S \X S : NewerMatch(p[1], p[2])})
            items == SubSeq(found, 1, IF Len(found) > PageSize THEN PageSize ELSE Len(found))
            next == NextCursor(found)
<1>1. /\ asked.state = "asked" /\ asked # NoQuery /\ asked.cursor = listing.next /\ listing.next \in Cursors
      /\ UNCHANGED <<saved, listing, detail>> /\ saved \in SUBSET MatchIds
      /\ sawFirst' = IF listing.next = NoMatch THEN saved ELSE sawFirst
  BY DEF ReadPage, HistoryKept, HistoryTypes, Continues, NoQuery
<1>2. (IF listing.kind = "own" THEN PersonalHistory(asked.cursor) ELSE RecentMatches(asked.cursor)) = S
  BY DEF PersonalHistory, RecentMatches, MayShow
<1>3. asked' = [state |-> "read", next |-> next, items |-> items]
  BY <1>2 DEF ReadPage
<1>4. S \in SUBSET MatchIds /\ S \subseteq saved \cap MayShow
      /\ S = {m \in saved \cap MayShow : listing.next = NoMatch \/ NewerMatch(listing.next, m)}
  BY <1>1, NewerOrders DEF Cursors, CursorWhere
<1>. HIDE DEF S
<1>5. /\ items \in Seq(S) /\ NewestFirst(items) /\ next \in Cursors
      /\ EndsAt(items, next) /\ MissesNone(items, next, S)
  BY <1>4, PageProperties
<1>. HIDE DEF found, items, next
<1>6. items \in Seq(MatchIds) /\ \A i \in DOMAIN items : items[i] \in S
  BY <1>4, <1>5, LenProperties, ElementOfSeq
<1>7. HistoryTypes'
  BY <1>1, <1>3, <1>5, <1>6 DEF HistoryKept, HistoryTypes
<1>8. MayShow' = MayShow /\ sawFirst' \in SUBSET saved /\ asked'.items = items /\ asked'.next = next
      /\ asked'.state = "read"
  BY <1>1, <1>3 DEF MayShow, HistoryKept, HistoryTypes
<1>9. {m \in sawFirst' \cap MayShow : listing.next = NoMatch \/ NewerMatch(listing.next, m)} \subseteq S
  BY <1>4, <1>8
<1>10. PageGoesOn'
  BY <1>1, <1>4, <1>5, <1>6, <1>8, <1>9 DEF PageGoesOn, Shown, NewestFirst, EndsAt, MissesNone, NewerMatch
<1>11. ListIsWhole'
  BY <1>1 DEF HistoryKept, Continues, ListIsWhole, MissesNone, NewerMatch, MayShow
<1>12. Shown(listing.items)' /\ EndsAt(listing.items, listing.next)' /\ DetailExists'
  BY <1>1 DEF HistoryKept, Shown, NewestFirst, NewerMatch, MayShow, EndsAt, DetailExists
<1>13. Continues'
  BY <1>1, <1>3 DEF HistoryKept, Continues
<1>. QED  BY <1>7, <1>10, <1>11, <1>12, <1>13 DEF HistoryKept

LEMMA PageComesKeeps == ASSUME HistoryKept, PageComes PROVE HistoryKept'
<1>. DEFINE old == listing.items
            new == asked.items
            items == old \o new
            S == sawFirst \cap MayShow
<1>1. /\ asked.state = "read" /\ asked # NoQuery /\ detail = NoDetail /\ UNCHANGED <<saved, detail, sawFirst>>
      /\ listing' = [listing EXCEPT !.items = items, !.next = asked.next, !.loading = FALSE]
      /\ asked' = NoQuery
  BY DEF PageComes, HistoryKept, Continues, NoQuery
<1>2. /\ old \in Seq(MatchIds) /\ new \in Seq(MatchIds) /\ asked.next \in Cursors /\ listing.next \in Cursors
      /\ (old # << >> => listing.next # NoMatch)
  BY <1>1 DEF HistoryKept, HistoryTypes, Continues, NoQuery
<1>3. /\ Shown(old) /\ EndsAt(old, listing.next) /\ Shown(new) /\ EndsAt(new, asked.next)
      /\ \A i \in DOMAIN new : listing.next # NoMatch => NewerMatch(listing.next, new[i])
      /\ MissesNone(new, asked.next, {m \in S : listing.next = NoMatch \/ NewerMatch(listing.next, m)})
  BY <1>1 DEF HistoryKept, PageGoesOn
<1>4. old # << >> => MissesNone(old, listing.next, S)
  BY <1>1 DEF HistoryKept, ListIsWhole
<1>5. listing'.items = items /\ listing'.next = asked.next /\ listing'.kind = listing.kind /\ ~listing'.loading
      /\ listing'.error = listing.error
  BY <1>1 DEF HistoryKept, HistoryTypes
<1>. HIDE DEF old, new, S
<1>6. /\ items \in Seq(MatchIds) /\ Len(items) = Len(old) + Len(new)
      /\ \A i \in 1 .. Len(old) + Len(new) : items[i] = IF i <= Len(old) THEN old[i] ELSE new[i - Len(old)]
  BY <1>2, ConcatProperties
<1>7. /\ Len(old) \in Nat /\ Len(new) \in Nat /\ DOMAIN old = 1 .. Len(old) /\ DOMAIN new = 1 .. Len(new)
      /\ DOMAIN items = 1 .. Len(old) + Len(new)
      /\ (\A i \in DOMAIN old : old[i] \in MatchIds) /\ \A i \in DOMAIN new : new[i] \in MatchIds
      /\ (old = << >> => Len(old) = 0) /\ (old # << >> => Len(old) > 0)
      /\ (new = << >> => Len(new) = 0) /\ (new # << >> => Len(new) > 0)
  BY <1>2, <1>6, LenProperties, ElementOfSeq, EmptySeq
<1>. HIDE DEF items
\* Where each entry comes from.
<1>8. ASSUME NEW i \in DOMAIN items
      PROVE  \/ i \in DOMAIN old /\ items[i] = old[i]
             \/ i - Len(old) \in DOMAIN new /\ items[i] = new[i - Len(old)] /\ i > Len(old)
  BY <1>6, <1>7
<1>9. \A i \in DOMAIN old : i \in DOMAIN items /\ items[i] = old[i]
  BY <1>6, <1>7
<1>10. ASSUME NEW i \in DOMAIN new PROVE i + Len(old) \in DOMAIN items /\ items[i + Len(old)] = new[i]
  <2>1. i + Len(old) \in 1 .. Len(old) + Len(new) /\ ~(i + Len(old) <= Len(old)) /\ i + Len(old) - Len(old) = i
    BY <1>7
  <2>. QED  BY <1>6, <1>7, <2>1
<1>11. ASSUME NEW i \in DOMAIN old, NEW j \in DOMAIN new PROVE NewerMatch(old[i], new[j])
  <2>1. old # << >> /\ listing.next # NoMatch /\ listing.next = old[Len(old)] /\ Len(old) \in DOMAIN old
    BY <1>2, <1>3, <1>7 DEF EndsAt
  <2>2. NewerMatch(listing.next, new[j]) /\ listing.next \in MatchIds
    BY <1>2, <1>3, <2>1 DEF Cursors
  <2>3. i = Len(old) \/ NewerMatch(old[i], old[Len(old)])
    BY <1>3, <1>7, <2>1 DEF Shown, NewestFirst
  <2>. QED  BY <1>7, <2>1, <2>2, <2>3, NewerOrders
<1>12. NewestFirst(items)
  <2>. SUFFICES ASSUME NEW i \in DOMAIN items, NEW j \in DOMAIN items, i < j
                PROVE  NewerMatch(items[i], items[j])
    BY DEF NewestFirst
  <2>1. i \in Int /\ j \in Int /\ Len(old) \in Int
    BY <1>7
  <2>2. CASE j \in DOMAIN old /\ items[j] = old[j]
    <3>1. i \in DOMAIN old /\ items[i] = old[i]
      BY <1>7, <1>8, <2>1, <2>2
    <3>. QED  BY <1>3, <2>2, <3>1 DEF Shown, NewestFirst
  <2>3. CASE j - Len(old) \in DOMAIN new /\ items[j] = new[j - Len(old)]
    <3>1. CASE i \in DOMAIN old /\ items[i] = old[i]
      BY <1>11, <2>3, <3>1
    <3>2. CASE i - Len(old) \in DOMAIN new /\ items[i] = new[i - Len(old)]
      <4>1. i - Len(old) < j - Len(old)
        BY <2>1
      <4>. QED  BY <1>3, <2>3, <3>2, <4>1 DEF Shown, NewestFirst
    <3>. QED  BY <1>8, <3>1, <3>2
  <2>. QED  BY <1>8, <2>2, <2>3
<1>13. \A i \in DOMAIN items : items[i] \in MayShow \cap saved
  BY <1>3, <1>8 DEF Shown
<1>14. EndsAt(items, asked.next)
  <2>. SUFFICES ASSUME asked.next # NoMatch PROVE items # << >> /\ asked.next = items[Len(items)]
    BY DEF EndsAt
  <2>1. new # << >> /\ asked.next = new[Len(new)] /\ Len(new) \in DOMAIN new
    BY <1>3, <1>7 DEF EndsAt
  <2>2. items[Len(new) + Len(old)] = new[Len(new)] /\ Len(new) + Len(old) = Len(items) /\ Len(items) # 0
    BY <1>6, <1>7, <1>10, <2>1
  <2>. QED  BY <2>1, <2>2, EmptySeq
<1>15. MissesNone(items, asked.next, S)
  <2>. SUFFICES ASSUME NEW m \in S
                PROVE  m \in ToSet(items) \/ (asked.next # NoMatch /\ NewerMatch(asked.next, m))
    BY DEF MissesNone
  <2>1. m \in ToSet(old) => m \in ToSet(items)
    BY <1>9 DEF ToSet
  <2>2. m \in ToSet(new) => m \in ToSet(items)
    BY <1>10 DEF ToSet
  <2>3. m \in ToSet(old) \/ listing.next = NoMatch \/ NewerMatch(listing.next, m)
    <3>1. CASE old = << >>
      BY <1>1, <1>3, <3>1 DEF EndsAt
    <3>2. CASE old # << >>
      BY <1>4, <3>2 DEF MissesNone
    <3>. QED  BY <3>1, <3>2
  <2>. QED  BY <1>3, <2>1, <2>2, <2>3 DEF MissesNone
<1>16. HistoryTypes'
  BY <1>1, <1>2, <1>6 DEF HistoryKept, HistoryTypes
<1>17. MayShow' = MayShow /\ S = (sawFirst \cap MayShow)'
  BY <1>1, <1>5 DEF MayShow, S
<1>18. Shown(listing.items)' /\ EndsAt(listing.items, listing.next)'
  BY <1>1, <1>5, <1>12, <1>13, <1>14, <1>17 DEF Shown, NewestFirst, NewerMatch, EndsAt
<1>19. ListIsWhole'
  BY <1>5, <1>15, <1>17 DEF ListIsWhole, MissesNone, NewerMatch, S
<1>20. Continues' /\ PageGoesOn' /\ DetailExists'
  BY <1>1, <1>5 DEF Continues, PageGoesOn, DetailExists, HistoryKept, NoQuery, NoDetail
<1>. QED  BY <1>16, <1>18, <1>19, <1>20 DEF HistoryKept

\* The list shows what it showed.
LEMMA SameList ==
    ASSUME HistoryKept, UNCHANGED <<saved, sawFirst, detail>>, HistoryTypes',
           listing'.items = listing.items, listing'.next = listing.next, listing'.kind = listing.kind
    PROVE  /\ Shown(listing.items)' /\ EndsAt(listing.items, listing.next)' /\ DetailExists'
           /\ listing.items # << >> => ListIsWhole'
BY DEF HistoryKept, Shown, NewestFirst, NewerMatch, MayShow, EndsAt, ListIsWhole, MissesNone, DetailExists

LEMMA LoadPageKeeps == ASSUME HistoryKept, LoadPage PROVE HistoryKept'
<1>1. /\ UNCHANGED <<saved, sawFirst, detail>> /\ detail = NoDetail /\ ~listing.loading
      /\ listing.error \/ listing.next # NoMatch
      /\ listing' = [listing EXCEPT !.loading = TRUE, !.error = FALSE] /\ asked' = Query(listing.next)
  BY DEF LoadPage
<1>2. HistoryTypes' /\ listing'.items = listing.items /\ listing'.next = listing.next
      /\ listing'.kind = listing.kind /\ listing'.loading /\ ~listing'.error
  BY <1>1 DEF HistoryKept, HistoryTypes, Query
<1>3. Continues'
  BY <1>1, <1>2 DEF HistoryKept, Continues, Query
<1>4. PageGoesOn'
  BY <1>1 DEF PageGoesOn, Query
<1>5. ListIsWhole'
  BY <1>1, <1>2, SameList DEF ListIsWhole
<1>. QED  BY <1>1, <1>2, <1>3, <1>4, <1>5, SameList DEF HistoryKept

LEMMA PageFailsKeeps == ASSUME HistoryKept, PageFails PROVE HistoryKept'
<1>1. /\ UNCHANGED <<saved, sawFirst, detail>> /\ asked # NoQuery /\ asked' = NoQuery
      /\ listing' = [listing EXCEPT !.error = TRUE, !.loading = FALSE]
  BY DEF PageFails
<1>2. HistoryTypes' /\ listing'.items = listing.items /\ listing'.next = listing.next
      /\ listing'.kind = listing.kind /\ ~listing'.loading /\ listing'.error
  BY <1>1 DEF HistoryKept, HistoryTypes
<1>3. Continues' /\ PageGoesOn'
  BY <1>1, <1>2 DEF HistoryKept, Continues, PageGoesOn, NoQuery
<1>5. ListIsWhole'
  BY <1>1, <1>2, SameList DEF ListIsWhole
<1>. QED  BY <1>1, <1>2, <1>3, <1>5, SameList DEF HistoryKept

LEMMA OpenListKeeps == ASSUME HistoryKept, OpenList PROVE HistoryKept'
<1>1. PICK kind \in ListKinds : listing' = NewList(kind)
  BY DEF OpenList, HistoryKept, HistoryTypes, ListKinds
<1>2. detail' = NoDetail /\ asked' = Query(NoMatch) /\ sawFirst' = {} /\ saved' = saved
  BY DEF OpenList
<1>3. HistoryTypes' /\ listing'.items = << >> /\ listing'.next = NoMatch /\ listing'.loading
      /\ ~listing'.error /\ asked'.state = "asked" /\ asked'.cursor = NoMatch
  BY <1>1, <1>2, EmptyList DEF HistoryKept, HistoryTypes, NewList, NoDetail, Query, ListKinds, Cursors
<1>. QED
  BY <1>2, <1>3, EmptyList
     DEF HistoryKept, Shown, NewestFirst, EndsAt, Continues, PageGoesOn, ListIsWhole, DetailExists, NoDetail

LEMMA OpenDetailKeeps == ASSUME HistoryKept, OpenDetail PROVE HistoryKept'
<1>1. /\ UNCHANGED <<saved, sawFirst>> /\ asked' = NoQuery
      /\ listing' = [listing EXCEPT !.items = << >>, !.next = NoMatch]
  BY DEF OpenDetail
<1>. DEFINE AsksFor(d) == /\ d \in [id: Cursors, from: ListKinds, state: {"loading"}]
                          /\ d.id \in saved /\ d.id \in PublicOnes \cup OwnOnes
<1>2. AsksFor(detail')
  <2>1. ASSUME NEW i \in DOMAIN listing.items,
               detail' = [id |-> listing.items[i], from |-> listing.kind, state |-> "loading"]
        PROVE  AsksFor(detail')
    <3>1. listing.items[i] \in saved \cap MayShow /\ listing.kind \in ListKinds /\ saved \subseteq Cursors
      BY DEF HistoryKept, HistoryTypes, Shown, Cursors
    <3>. QED  BY <2>1, <3>1 DEF MayShow
  <2>2. ASSUME detail.state \in {"failed", "missing"}, detail' = [detail EXCEPT !.state = "loading"]
        PROVE  AsksFor(detail')
    BY <2>2 DEF HistoryKept, HistoryTypes, DetailExists, NoDetail
  <2>. QED  BY <2>1, <2>2 DEF OpenDetail
<1>3. HistoryTypes' /\ listing'.items = << >> /\ listing'.next = NoMatch /\ asked'.state = "none"
  BY <1>1, <1>2, EmptyList DEF HistoryKept, HistoryTypes, NoQuery, Cursors
<1>4. detail' # NoDetail /\ detail'.state # "missing"
  BY <1>2 DEF NoDetail
<1>. QED
  BY <1>1, <1>2, <1>3, <1>4, EmptyList
     DEF HistoryKept, Shown, NewestFirst, EndsAt, Continues, PageGoesOn, ListIsWhole, DetailExists

LEMMA DetailComesKeeps == ASSUME HistoryKept, DetailComes PROVE HistoryKept'
<1>1. PICK s \in {"failed", IF PersonalMatchDetail(detail.id) THEN "shown" ELSE "missing"} :
         detail' = [detail EXCEPT !.state = s]
  BY DEF DetailComes
<1>2. detail.state = "loading" /\ detail # NoDetail /\ UNCHANGED <<saved, listing, asked, sawFirst>>
  BY DEF DetailComes, NoDetail
<1>3. PersonalMatchDetail(detail.id) /\ s \in {"failed", "shown"}
  BY <1>2 DEF HistoryKept, DetailExists, PersonalMatchDetail
<1>4. HistoryTypes' /\ detail'.id = detail.id /\ detail'.state \in {"failed", "shown"} /\ detail' # NoDetail
  BY <1>1, <1>2, <1>3 DEF HistoryKept, HistoryTypes, NoDetail
<1>. QED
  BY <1>2, <1>4
     DEF HistoryKept, Shown, NewestFirst, NewerMatch, MayShow, EndsAt, Continues, PageGoesOn, MissesNone,
         ListIsWhole, DetailExists

LEMMA HistoryInductive == HistoryKept /\ [HistoryNext]_historyVars => HistoryKept'
<1>. SUFFICES ASSUME HistoryKept, [HistoryNext]_historyVars PROVE HistoryKept'
  OBVIOUS
<1>1. CASE UNCHANGED historyVars
  BY <1>1
     DEF historyVars, HistoryKept, HistoryTypes, Shown, NewestFirst, NewerMatch, MayShow, EndsAt, Continues,
         PageGoesOn, MissesNone, ListIsWhole, DetailExists
<1>. QED
  BY <1>1, SaveKeeps, ReadPageKeeps, LoadPageKeeps, PageComesKeeps, PageFailsKeeps, OpenListKeeps,
     OpenDetailKeeps, DetailComesKeeps
     DEF HistoryNext

-----------------------------------------------------------------------------
(* The tutorial.  An exercise is passed only when all before it were done, and   *)
(* the page waits for the answer to one request at a time.                       *)

Statuses == {"PENDING", "COMPLETED", "SKIPPED"}

TutorialTypes ==
    /\ lesson \in [step: 0 .. 4, scheduled: BOOLEAN]
    /\ screen \in [at: {"tutorial", "lobby"}, step: 0 .. 4, complete: BOOLEAN, saving: BOOLEAN]
    /\ profile \in [here: Statuses, kept: Statuses]
    /\ post \in SUBSET [id: Int, says: Statuses, step: {"sent", "written"}, waits: BOOLEAN]
    /\ posts \in Int /\ games \in Int
    /\ acts \in SUBSET Exercises /\ earned \in BOOLEAN /\ unsure \in BOOLEAN

\* What was passed was done.
LessonEarned(l, done) ==
    /\ l.step >= 1 => "far" \in done
    /\ l.step >= 2 => "aim" \in done
    /\ l.step >= 3 => "fire" \in done
    /\ l.step >= 4 => "dash" \in done
    /\ l.scheduled => done = Exercises

ScreenFollows ==
    /\ lesson.scheduled => earned
    /\ screen.at = "tutorial" => screen.step = lesson.step /\ (screen.complete => lesson.scheduled)

PostsEarned ==
    /\ \A p \in post : p.says = "COMPLETED" => earned
    /\ "COMPLETED" \in {profile.kept, profile.here} => earned

\* One answer is waited for, and what was written last is what it says.
OneAnswer ==
    /\ \A p, q \in post : p.waits /\ q.waits => p = q
    /\ \A p \in post : p.step = "written" => p.waits
    /\ \A p \in post : p.waits => screen.saving \/ screen.at = "lobby"
    /\ ~unsure => profile.here = profile.kept \/ \E p \in post : p.step = "written"
    /\ ~unsure => \A p \in post : p.step = "written" => p.says = profile.kept

TutorialKept == TutorialTypes /\ LessonEarned(lesson, acts) /\ ScreenFollows /\ PostsEarned /\ OneAnswer

LEMMA TutorialKeptIsEarned == TutorialKept => TutorialIsEarned
BY DEF TutorialKept, LessonEarned, ScreenFollows, PostsEarned, OneAnswer, TutorialIsEarned

LEMMA TutorialBegins == TutorialInit => TutorialKept
<1>. SUFFICES ASSUME TutorialInit PROVE TutorialKept
  OBVIOUS
<1>1. lesson \in [step: 0 .. 4, scheduled: BOOLEAN] /\ lesson.step = 0 /\ ~lesson.scheduled
  BY DEF TutorialInit, NewLesson
<1>2. screen \in [at: {"tutorial", "lobby"}, step: 0 .. 4, complete: BOOLEAN, saving: BOOLEAN]
      /\ screen.step = 0 /\ ~screen.complete
  BY DEF TutorialInit
<1>3. profile \in [here: Statuses, kept: Statuses] /\ profile.here = "PENDING" /\ profile.kept = "PENDING"
  BY DEF TutorialInit, Statuses
<1>4. post = {} /\ acts = {} /\ posts \in Int /\ games \in Int
  BY DEF TutorialInit
<1>8. earned \in BOOLEAN /\ unsure \in BOOLEAN /\ ~earned /\ ~unsure
  <2>1. earned = FALSE /\ unsure = FALSE
    BY Zenon DEF TutorialInit
  <2>. QED  BY <2>1, Zenon
<1>5. TutorialTypes
  BY <1>1, <1>2, <1>3, <1>4, <1>8 DEF TutorialTypes
<1>6. LessonEarned(lesson, acts) /\ ScreenFollows
  BY <1>1, <1>2 DEF LessonEarned, ScreenFollows
<1>7. PostsEarned /\ OneAnswer
  BY <1>3, <1>4, <1>8 DEF PostsEarned, OneAnswer
<1>. QED  BY <1>5, <1>6, <1>7 DEF TutorialKept

LEMMA FrameKeeps == ASSUME TutorialKept, NEW done \in Done, TutorialFrame(done) PROVE TutorialKept'
<1>. DEFINE moved == AfterMove(lesson.step, done)
            aimed == AfterAim(moved, done)
            step  == AfterShooting(aimed, done)
            begun == lesson.step
<1>1. /\ lesson' = [step |-> step, scheduled |-> LessonCompleted(lesson, aimed, done)]
      /\ screen' = [screen EXCEPT !.step = step] /\ acts' = acts \cup (done \cap Exercises)
      /\ earned' = (earned \/ acts' = Exercises) /\ UNCHANGED <<profile, post, posts, games, unsure>>
  BY DEF TutorialFrame
<1>2. begun \in 0 .. 4 /\ LessonEarned(lesson, acts) /\ acts \in SUBSET Exercises
      /\ done \subseteq Exercises \cup {"move"} /\ (lesson.scheduled => earned)
  BY DEF TutorialKept, TutorialTypes, ScreenFollows, Done
<1>3. moved \in 0 .. 4 /\ aimed \in 0 .. 4 /\ step \in 0 .. 4
  BY <1>2 DEF AfterMove, AfterAim, AfterShooting
<1>4. /\ moved >= 1 => "far" \in acts'
      /\ moved >= 2 => "aim" \in acts'
      /\ moved >= 3 => "fire" \in acts'
      /\ moved >= 4 => "dash" \in acts'
  BY <1>1, <1>2 DEF AfterMove, LessonEarned, Exercises
<1>5. /\ aimed >= 1 => "far" \in acts'
      /\ aimed >= 2 => "aim" \in acts'
      /\ aimed >= 3 => "fire" \in acts'
      /\ aimed >= 4 => "dash" \in acts'
  <2>. HIDE DEF moved
  <2>. QED  BY <1>1, <1>3, <1>4 DEF AfterAim, Exercises
<1>6. /\ step >= 1 => "far" \in acts'
      /\ step >= 2 => "aim" \in acts'
      /\ step >= 3 => "fire" \in acts'
      /\ step >= 4 => "dash" \in acts'
  <2>. HIDE DEF aimed
  <2>. QED  BY <1>1, <1>3, <1>5 DEF AfterShooting, Exercises
<1>7. acts' \in SUBSET Exercises /\ acts \subseteq acts'
  BY <1>1, <1>2
<1>8. LessonCompleted(lesson, aimed, done) => acts' = Exercises
  <2>1. CASE lesson.scheduled
    BY <1>2, <1>7, <2>1 DEF LessonEarned
  <2>2. CASE aimed = 4 /\ "shield" \in done
    <3>1. "shield" \in acts'
      BY <1>1, <2>2 DEF Exercises
    <3>2. {"far", "aim", "fire", "dash"} \subseteq acts'
      BY <1>5, <2>2
    <3>. QED  BY <1>7, <3>1, <3>2 DEF Exercises
  <2>. QED  BY <2>1, <2>2 DEF LessonCompleted
<1>. HIDE DEF moved, aimed, step, begun
<1>9. lesson'.step = step /\ lesson'.scheduled = LessonCompleted(lesson, aimed, done)
      /\ LessonCompleted(lesson, aimed, done) \in BOOLEAN
  BY <1>1 DEF LessonCompleted
<1>10. LessonEarned(lesson, acts)'
  BY <1>6, <1>8, <1>9 DEF LessonEarned
<1>11. TutorialTypes'
  BY <1>1, <1>3, <1>7, <1>9 DEF TutorialKept, TutorialTypes
<1>12. ScreenFollows'
  BY <1>1, <1>3, <1>8, <1>9 DEF TutorialKept, TutorialTypes, ScreenFollows, LessonCompleted
<1>13. PostsEarned' /\ OneAnswer'
  BY <1>1 DEF TutorialKept, TutorialTypes, PostsEarned, OneAnswer
<1>. QED  BY <1>10, <1>11, <1>12, <1>13 DEF TutorialKept

LEMMA GameKeeps == ASSUME TutorialKept, ShowSummary \/ Repeat \/ LeavePage \/ OpenPage PROVE TutorialKept'
<1>. USE DEF TutorialKept, TutorialTypes
<1>1. CASE ShowSummary
  BY <1>1 DEF ShowSummary, ScreenFollows, PostsEarned, OneAnswer
<1>2. CASE Repeat
  <2>1. \A p \in post : ~p.waits
    BY <1>2 DEF Repeat, OneAnswer
  <2>. QED
    BY <1>2, <2>1 DEF Repeat, NewGame, NewLesson, LessonEarned, ScreenFollows, PostsEarned, OneAnswer
<1>3. CASE LeavePage
  BY <1>3 DEF LeavePage, ScreenFollows, PostsEarned, OneAnswer
<1>4. CASE OpenPage
  BY <1>4 DEF OpenPage, NewGame, NewLesson, LessonEarned, ScreenFollows, PostsEarned, OneAnswer
<1>. QED  BY <1>1, <1>2, <1>3, <1>4

LEMMA LeavingKeeps ==
    ASSUME TutorialKept, NEW status \in {"COMPLETED", "SKIPPED"}, PersistAndLeave(status)
    PROVE  TutorialKept'
<1>. DEFINE new == [id |-> posts + 1, says |-> status, step |-> "sent", waits |-> TRUE]
<1>1. /\ screen.at = "tutorial" /\ ~screen.saving /\ screen.complete = (status = "COMPLETED")
      /\ posts' = posts + 1 /\ screen' = [screen EXCEPT !.saving = TRUE] /\ post' = post \cup {new}
      /\ UNCHANGED <<lesson, profile, games, acts, earned, unsure>>
  BY DEF PersistAndLeave
<1>2. \A p \in post : ~p.waits
  BY <1>1 DEF TutorialKept, OneAnswer
<1>3. status = "COMPLETED" => earned
  BY <1>1 DEF TutorialKept, ScreenFollows
<1>7. new \in [id: Int, says: Statuses, step: {"sent", "written"}, waits: BOOLEAN]
      /\ new.says = status /\ new.step = "sent" /\ new.waits
  BY DEF TutorialKept, TutorialTypes, Statuses
<1>8. screen' \in [at: {"tutorial", "lobby"}, step: 0 .. 4, complete: BOOLEAN, saving: BOOLEAN]
      /\ screen'.at = screen.at /\ screen'.step = screen.step /\ screen'.complete = screen.complete
      /\ screen'.saving
  BY <1>1 DEF TutorialKept, TutorialTypes
<1>. HIDE DEF new
<1>4. TutorialTypes'
  BY <1>1, <1>7, <1>8 DEF TutorialKept, TutorialTypes
<1>9. LessonEarned(lesson, acts)' /\ ScreenFollows'
  BY <1>1, <1>8 DEF TutorialKept, ScreenFollows, LessonEarned
<1>5. PostsEarned'
  BY <1>1, <1>3, <1>7 DEF TutorialKept, PostsEarned
<1>6. OneAnswer'
  BY <1>1, <1>2, <1>7, <1>8 DEF TutorialKept, OneAnswer
<1>. QED  BY <1>4, <1>9, <1>5, <1>6 DEF TutorialKept

LEMMA PostKeeps ==
    ASSUME TutorialKept, NEW p \in post, FinishTutorial(p) \/ TutorialSaved(p) \/ Fails(p)
    PROVE  TutorialKept'
<1>. USE DEF TutorialKept, TutorialTypes
<1>1. CASE FinishTutorial(p)
  <2>1. /\ p.step = "sent" /\ profile' = [profile EXCEPT !.kept = p.says] /\ unsure' = (unsure \/ ~p.waits)
        /\ UNCHANGED <<lesson, screen, posts, games, acts, earned>>
    BY <1>1 DEF FinishTutorial
  <2>2. CASE p.waits
    <3>. DEFINE q == [p EXCEPT !.step = "written"]
    <3>1. post' = (post \ {p}) \cup {q}
      BY <1>1, <2>2 DEF FinishTutorial
    <3>2. q \in [id: Int, says: Statuses, step: {"sent", "written"}, waits: BOOLEAN]
          /\ q.says = p.says /\ q.step = "written" /\ q.waits
      BY <2>2
    <3>. HIDE DEF q
    <3>3. \A r \in post' : r.waits => r = q
      BY <2>2, <3>1 DEF OneAnswer
    <3>4. OneAnswer'
      BY <2>1, <2>2, <3>1, <3>2, <3>3 DEF OneAnswer
    <3>. QED  BY <2>1, <3>1, <3>2, <3>4 DEF LessonEarned, ScreenFollows, PostsEarned
  <2>3. CASE ~p.waits
    <3>1. post' = post \ {p} /\ unsure'
      BY <1>1, <2>1, <2>3 DEF FinishTutorial
    <3>2. OneAnswer'
      BY <2>1, <3>1 DEF OneAnswer
    <3>. QED  BY <2>1, <3>1, <3>2 DEF LessonEarned, ScreenFollows, PostsEarned
  <2>. QED  BY <2>2, <2>3
<1>2. CASE TutorialSaved(p)
  <2>1. /\ p.step = "written" /\ p.waits /\ post' = post \ {p} /\ profile' = [profile EXCEPT !.here = p.says]
        /\ UNCHANGED <<lesson, posts, games, acts, earned, unsure>>
    BY <1>2 DEF TutorialSaved
  <2>2. screen' = screen \/ screen' = [screen EXCEPT !.saving = FALSE, !.at = "lobby"]
    BY <1>2 DEF TutorialSaved
  <2>3. \A r \in post' : ~r.waits
    BY <2>1 DEF OneAnswer
  <2>4. OneAnswer'
    BY <2>1, <2>3 DEF OneAnswer
  <2>5. ScreenFollows'
    BY <2>1, <2>2 DEF ScreenFollows
  <2>. QED  BY <2>1, <2>2, <2>4, <2>5 DEF LessonEarned, PostsEarned
<1>3. CASE Fails(p)
  <2>. DEFINE q == [p EXCEPT !.waits = FALSE]
  <2>1. /\ p.waits /\ post' = (post \ {p}) \cup (IF p.step = "sent" THEN {q} ELSE {})
        /\ screen' = [screen EXCEPT !.saving = FALSE] /\ unsure' = (unsure \/ p.step = "written")
        /\ UNCHANGED <<lesson, profile, posts, games, acts, earned>>
    BY <1>3 DEF Fails
  <2>2. q \in [id: Int, says: Statuses, step: {"sent", "written"}, waits: BOOLEAN]
        /\ q.says = p.says /\ q.step = p.step /\ ~q.waits
    <3>. DEFINE Asked == [id: Int, says: Statuses, step: {"sent", "written"}, waits: BOOLEAN]
    <3>1. p \in Asked
      OBVIOUS
    <3>2. q.says = p.says /\ q.step = p.step /\ ~q.waits
      BY <3>1
    <3>3. q \in Asked
      BY <3>1
    <3>. HIDE DEF q
    <3>. QED  BY <3>2, <3>3
  <2>. HIDE DEF q
  <2>3. \A r \in post' : ~r.waits
    BY <2>1, <2>2 DEF OneAnswer
  <2>4. OneAnswer'
    BY <2>1, <2>2, <2>3 DEF OneAnswer
  <2>. QED  BY <2>1, <2>2, <2>4 DEF LessonEarned, ScreenFollows, PostsEarned
<1>. QED  BY <1>1, <1>2, <1>3

LEMMA TutorialInductive == TutorialKept /\ [TutorialNext]_tutorialVars => TutorialKept'
<1>. SUFFICES ASSUME TutorialKept, [TutorialNext]_tutorialVars PROVE TutorialKept'
  OBVIOUS
<1>1. CASE UNCHANGED tutorialVars
  BY <1>1 DEF tutorialVars, TutorialKept, TutorialTypes, LessonEarned, ScreenFollows, PostsEarned, OneAnswer
<1>. QED  BY <1>1, FrameKeeps, GameKeeps, LeavingKeeps, PostKeeps DEF TutorialNext

\* Users agree with the server, in every behaviour of the services: each can sign in with
\* some identity, has completed the tutorial only after doing all of it in one game, and
\* finds his matches once each, the newest first, with none left out.
THEOREM UsersHold == ServicesSpec => []UsersAgree
<1>. DEFINE Agree == AccountsAgree /\ TutorialKept /\ HistoryKept
<1>1. ServicesInit => Agree
  BY AccountsBegin, TutorialBegins, HistoryBegins DEF ServicesInit
<1>2. Agree /\ [ServicesNext]_servicesVars => Agree'
  BY StepsOfParts, AccountsInductive, TutorialInductive, HistoryInductive
<1>3. Agree => UsersAgree
  BY TutorialKeptIsEarned, HistoryKeptIsWhole DEF AccountsAgree, UsersAgree
<1>. QED  BY <1>1, <1>2, <1>3, PTL DEF ServicesSpec

-----------------------------------------------------------------------------
(* Telemetry.  A sample belongs to the rows of one time: the part of a minute    *)
(* that is open takes samples nobody has, and is emptied when its time changes.  *)

RowSet == [at: Int, samples: SUBSET Int]
Blank  == {r \in RowSet : r.samples = {}}
Open   == [at |-> meter.segment, samples |-> meter.eligible]

MetricRows ==
    {Open, meter.row} \cup {ending[m].row : m \in Matches} \cup disk.current \cup table
    \cup (UNION disk.batches) \cup (UNION flush.files)

MetersTyped ==
    /\ clock \in Int
    /\ meter \in [eligible: SUBSET Int, segment: Int, bucket: Int, closing: BOOLEAN, row: RowSet]
    /\ DOMAIN ending = Matches
    /\ \A m \in Matches : DOMAIN ending[m] = {"stage", "row"} /\ ending[m].row \in RowSet

FilesTyped ==
    /\ DOMAIN disk = {"current", "batches"} /\ disk.current \in SUBSET RowSet /\ IsFiniteSet(disk.current)
    /\ \A f \in disk.batches : f \in SUBSET RowSet /\ IsFiniteSet(f)
    /\ DOMAIN flush = {"running", "files", "stored"}
    /\ \A f \in flush.files : f \in SUBSET RowSet /\ IsFiniteSet(f)
    /\ table \in SUBSET RowSet

OneTime(rows)     == \A r, s \in rows : r.samples \cap s.samples # {} => r.at = s.at
NotLater(rows, m, now) == \A r \in rows : \A t \in r.samples : t <= now /\ (m.closing => t < now)
OneRowEach        == \A r, s \in table : r.at = s.at => r = s

TelemetryKept ==
    MetersTyped /\ FilesTyped /\ OneTime(MetricRows) /\ NotLater(MetricRows, meter, clock) /\ OneRowEach

LEMMA TelemetryKeptCounts == TelemetryKept => SamplesCountedOnce
BY DEF TelemetryKept, OneTime, MetricRows, OneRowEach, SamplesCountedOnce

LEMMA RowsTyped == ASSUME MetersTyped, FilesTyped PROVE MetricRows \subseteq RowSet
BY DEF MetersTyped, FilesTyped, MetricRows, Open, RowSet

\* One row may go on, with a sample that nobody has; what else is new is empty.
LEMMA RowsGoOn ==
    ASSUME NEW rows \in SUBSET RowSet, OneTime(rows), NEW more, NEW t, \A r \in rows : t \notin r.samples,
           NEW p \in rows \cup Blank, NEW q \in RowSet, q.at = p.at, q.samples \subseteq p.samples \cup {t},
           more \subseteq rows \cup Blank \cup {q}
    PROVE  OneTime(more)
<1>. SUFFICES ASSUME NEW r \in more, NEW s \in more, NEW x \in r.samples, x \in s.samples PROVE r.at = s.at
  BY DEF OneTime
<1>1. r \in rows \/ r = q
  BY DEF Blank
<1>2. s \in rows \/ s = q
  BY DEF Blank
<1>3. CASE r \in rows /\ s \in rows
  BY <1>3 DEF OneTime
<1>4. ASSUME NEW o \in rows, x \in o.samples, x \in q.samples PROVE o.at = q.at
  <2>1. x \in p.samples
    BY <1>4
  <2>2. p \in rows
    BY <2>1 DEF Blank
  <2>. QED  BY <1>4, <2>1, <2>2 DEF OneTime
<1>. QED  BY <1>1, <1>2, <1>3, <1>4

\* Nothing new is sampled.
LEMMA RowsStay ==
    ASSUME NEW rows \in SUBSET RowSet, OneTime(rows), NEW more, more \subseteq rows \cup Blank
    PROVE  OneTime(more)
BY DEF OneTime, Blank

LEMMA TelemetryBegins == TelemetryInit => TelemetryKept
<1>. SUFFICES ASSUME TelemetryInit PROVE TelemetryKept
  OBVIOUS
<1>1. NoRow \in Blank /\ 0 \div Minute \in Int /\ TelemetryInit
  BY TelemetryAssumption DEF NoRow, Blank, RowSet
<1>2. clock = 0 /\ meter = [eligible |-> {}, segment |-> 0, bucket |-> 0 \div Minute, closing |-> FALSE, row |-> NoRow]
      /\ ending = [m \in Matches |-> [stage |-> "playing", row |-> NoRow]] /\ table = {}
      /\ flush = [running |-> FALSE, files |-> {}, stored |-> {}] /\ disk = [current |-> {}, batches |-> {}]
  BY DEF TelemetryInit, Metering, Playing, Resting
<1>3. MetersTyped
  BY <1>1, <1>2 DEF MetersTyped, Blank
<1>4. FilesTyped
  BY <1>2, FS_EmptySet DEF FilesTyped
<1>5. MetricRows \subseteq Blank
  <2>1. Open \in Blank
    BY <1>2 DEF Open, Blank, RowSet
  <2>. QED  BY <1>1, <1>2, <2>1 DEF MetricRows
<1>6. OneTime(MetricRows) /\ NotLater(MetricRows, meter, clock)
  BY <1>5 DEF OneTime, NotLater, Blank
<1>7. OneRowEach
  BY <1>2 DEF OneRowEach
<1>. QED  BY <1>3, <1>4, <1>6, <1>7 DEF TelemetryKept

LEMMA NothingSampled ==
    ASSUME TelemetryKept, MetersTyped', FilesTyped', OneRowEach', clock' = clock,
           meter'.closing => meter.closing, MetricRows' \subseteq MetricRows \cup Blank
    PROVE  TelemetryKept'
<1>1. OneTime(MetricRows')
  BY RowsTyped, RowsStay DEF TelemetryKept
<1>2. NotLater(MetricRows', meter', clock')
  BY DEF TelemetryKept, NotLater, Blank
<1>. QED  BY <1>1, <1>2 DEF TelemetryKept, OneTime, NotLater

LEMMA MinuteRowIs == ASSUME TelemetryKept PROVE MinuteRow \in MetricRows \cup Blank /\ NoRow \in Blank
BY DEF TelemetryKept, MetersTyped, MinuteRow, MetricRows, Open, NoRow, Blank, RowSet

\* The timer ticks, with or without a sample.
LEMMA CollectedKeeps ==
    ASSUME TelemetryKept, Collected, UNCHANGED <<flush, disk, table>>,
           DOMAIN ending' = Matches,
           \A m \in Matches : DOMAIN ending'[m] = {"stage", "row"}
                              /\ (ending'[m].row = ending[m].row \/ ending'[m].row = NoRow)
    PROVE  TelemetryKept'
<1>1. clock' = clock + 1 /\ clock \in Int /\ ~meter.closing /\ NoRow \in Blank /\ NoRow \in RowSet
      /\ MinuteRow \in MetricRows \cup Blank /\ MetricRows \subseteq RowSet /\ OneTime(MetricRows)
      /\ NotLater(MetricRows, meter, clock) /\ FilesTyped' /\ OneRowEach' /\ Blank \subseteq RowSet
  BY MinuteRowIs, RowsTyped DEF Collected, TelemetryKept, MetersTyped, FilesTyped, OneRowEach, Blank
<1>2. \A r \in MetricRows : \A x \in r.samples : x <= clock /\ x \in Int
  BY <1>1 DEF NotLater, RowSet
<1>3. {ending'[m].row : m \in Matches} \subseteq {ending[m].row : m \in Matches} \cup Blank
      /\ \A m \in Matches : ending'[m].row \in RowSet
  BY <1>1 DEF TelemetryKept, MetersTyped
<1>4. CASE meter' = [meter EXCEPT !.closing = TRUE, !.row = MinuteRow]
  <2>0. MinuteRow \in RowSet /\ clock' \in Int
    BY <1>1
  <2>1. MetersTyped'
    BY <1>1, <1>3, <1>4, <2>0 DEF TelemetryKept, MetersTyped
  <2>2. MetricRows' \subseteq MetricRows \cup Blank
    <3>1. Open' = Open /\ meter'.row = MinuteRow
      BY <1>4 DEF Open, TelemetryKept, MetersTyped
    <3>. QED  BY <1>1, <1>3, <3>1 DEF MetricRows
  <2>3. OneTime(MetricRows')
    BY <1>1, <2>2, RowsStay
  <2>4. NotLater(MetricRows', meter', clock')
    BY <1>1, <1>2, <2>2 DEF NotLater, Blank
  <2>. QED  BY <1>1, <2>1, <2>3, <2>4 DEF TelemetryKept, OneTime, NotLater
<1>5. CASE meter' \in Sampled(meter, clock')
  <2>0. meter' = [meter EXCEPT !.eligible = meter.eligible \cup {clock'}] \/ meter' = meter
    BY <1>5 DEF Sampled
  <2>1. MetersTyped'
    BY <1>1, <1>3, <2>0 DEF TelemetryKept, MetersTyped
  <2>2. Open \in MetricRows /\ Open' \in RowSet /\ Open'.at = Open.at
        /\ Open'.samples \subseteq Open.samples \cup {clock'} /\ meter'.row = meter.row /\ ~meter'.closing
    BY <1>1, <2>0, <2>1 DEF MetricRows, Open, RowSet, TelemetryKept, MetersTyped
  <2>3. MetricRows' \subseteq MetricRows \cup Blank \cup {Open'}
    BY <1>3, <2>2 DEF MetricRows
  <2>4. \A r \in MetricRows : clock' \notin r.samples
    BY <1>1, <1>2
  <2>7. MetricRows \in SUBSET RowSet /\ Open \in MetricRows \cup Blank
    BY <1>1, <2>2
  <2>5. OneTime(MetricRows')
    <3>. HIDE DEF MetricRows, Open, RowSet, Blank, OneTime
    <3>. QED  BY <1>1, <2>2, <2>3, <2>4, <2>7, RowsGoOn
  <2>6. NotLater(MetricRows', meter', clock')
    BY <1>1, <1>2, <2>2, <2>3 DEF NotLater, Blank
  <2>. QED  BY <1>1, <2>1, <2>5, <2>6 DEF TelemetryKept, OneTime, NotLater
<1>. QED  BY <1>4, <1>5 DEF Collected

LEMMA AppendedTyped ==
    ASSUME FilesTyped, NEW entry \in RowSet
    PROVE  /\ DOMAIN Appended(entry) = {"current", "batches"} /\ Appended(entry).batches = disk.batches
           /\ Appended(entry).current \in SUBSET RowSet /\ IsFiniteSet(Appended(entry).current)
           /\ Appended(entry).current \subseteq disk.current \cup {entry}
<1>1. IsFiniteSet(disk.current \cup {entry})
  BY FS_AddElement DEF FilesTyped
<1>2. CASE entry = NoRow
  BY <1>2 DEF Appended, FilesTyped
<1>3. CASE entry # NoRow
  <2>1. Appended(entry).current = disk.current \cup {entry} /\ Appended(entry).batches = disk.batches
        /\ DOMAIN Appended(entry) = {"current", "batches"}
    BY <1>3 DEF Appended, FilesTyped
  <2>. QED  BY <1>1, <2>1 DEF FilesTyped
<1>. QED  BY <1>2, <1>3

LEMMA AppendedKeeps ==
    ASSUME TelemetryKept, NEW entry \in MetricRows \cup Blank, disk' = Appended(entry), UNCHANGED <<flush, table>>
    PROVE  FilesTyped' /\ OneRowEach' /\ disk'.current \subseteq MetricRows \cup Blank
           /\ disk'.batches = disk.batches
<1>1. entry \in RowSet
  BY RowsTyped DEF TelemetryKept, Blank
<1>2. disk.current \subseteq MetricRows
  BY DEF MetricRows
<1>. QED  BY <1>1, <1>2, AppendedTyped DEF TelemetryKept, FilesTyped, OneRowEach

LEMMA MinuteKeeps == ASSUME TelemetryKept, MinuteClosed PROVE TelemetryKept'
<1>. DEFINE fresh == NextMinute(clock)
<1>1. /\ meter.closing /\ disk' = Appended(meter.row) /\ meter' \in Sampled(fresh, clock)
      /\ UNCHANGED <<clock, ending, flush, table>>
  BY DEF MinuteClosed
<1>2. meter.row \in MetricRows
  BY DEF MetricRows
<1>3. FilesTyped' /\ OneRowEach' /\ disk'.current \subseteq MetricRows \cup Blank /\ disk'.batches = disk.batches
  BY <1>1, <1>2, AppendedKeeps
<1>4. /\ fresh \in [eligible: SUBSET Int, segment: Int, bucket: Int, closing: BOOLEAN, row: RowSet]
      /\ fresh.eligible = {} /\ ~fresh.closing /\ fresh.row = NoRow
  <2>1. clock \div Minute \in Int /\ (clock \div Minute) * Minute \in Int /\ NoRow \in RowSet
    BY TelemetryAssumption DEF TelemetryKept, MetersTyped, NoRow, RowSet
  <2>. QED  BY <2>1 DEF NextMinute, Metering
<1>5. meter' = [fresh EXCEPT !.eligible = fresh.eligible \cup {clock}] \/ meter' = fresh
  BY <1>1 DEF Sampled
<1>6. MetersTyped'
  <2>1. clock \in Int
    BY DEF TelemetryKept, MetersTyped
  <2>2. meter' \in [eligible: SUBSET Int, segment: Int, bucket: Int, closing: BOOLEAN, row: RowSet]
    BY <1>4, <1>5, <2>1
  <2>. QED  BY <1>1, <2>2 DEF TelemetryKept, MetersTyped
<1>7. meter'.row = NoRow /\ ~meter'.closing /\ meter'.eligible \subseteq {clock} /\ meter'.segment = fresh.segment
  BY <1>4, <1>5
<1>8. Open' \in RowSet /\ Open'.samples \subseteq {clock} /\ Open'.at = fresh.segment
  BY <1>6, <1>7 DEF Open, RowSet, MetersTyped
<1>9. MetricRows' \subseteq MetricRows \cup Blank \cup {Open'}
  BY <1>1, <1>3, <1>7, MinuteRowIs DEF MetricRows
<1>10. MetricRows \in SUBSET RowSet /\ OneTime(MetricRows) /\ NotLater(MetricRows, meter, clock)
  BY RowsTyped DEF TelemetryKept
<1>11. \A r \in MetricRows : \A x \in r.samples : x < clock /\ x \in Int
  BY <1>1, <1>10 DEF NotLater, RowSet
<1>12. \A r \in MetricRows : clock \notin r.samples
  BY <1>11 DEF TelemetryKept, MetersTyped
<1>13. OneTime(MetricRows')
  <2>. DEFINE p == [at |-> fresh.segment, samples |-> {}]
  <2>1. p \in Blank /\ p.at = fresh.segment /\ p.samples = {}
    BY <1>4 DEF Blank, RowSet
  <2>. HIDE DEF p, MetricRows, Open, RowSet, Blank, OneTime
  <2>2. p \in MetricRows \cup Blank /\ Open'.at = p.at /\ Open'.samples \subseteq p.samples \cup {clock}
    BY <1>8, <2>1
  <2>. QED  BY <1>8, <1>9, <1>10, <1>12, <2>2, RowsGoOn
<1>14. NotLater(MetricRows', meter', clock')
  <2>1. \A r \in MetricRows' : \A x \in r.samples : x <= clock
    BY <1>8, <1>9, <1>11 DEF Blank, TelemetryKept, MetersTyped
  <2>. QED  BY <1>1, <1>7, <2>1 DEF NotLater
<1>. QED  BY <1>3, <1>6, <1>13, <1>14 DEF TelemetryKept, OneTime, NotLater

\* Matches that end, with rows that were there.
LEMMA EndingKeeps ==
    ASSUME TelemetryKept, DOMAIN ending' = Matches, clock' = clock,
           \A m \in Matches : DOMAIN ending'[m] = {"stage", "row"}
                              /\ ending'[m].row \in MetricRows \cup Blank,
           meter' \in [eligible: SUBSET Int, segment: Int, bucket: Int, closing: BOOLEAN, row: RowSet],
           meter'.row \in MetricRows \cup Blank, meter'.closing => meter.closing,
           Open' \in MetricRows \cup Blank, FilesTyped', OneRowEach',
           disk'.current \subseteq MetricRows \cup Blank, table' \subseteq MetricRows,
           (UNION disk'.batches) \subseteq MetricRows, (UNION flush'.files) \subseteq MetricRows
    PROVE  TelemetryKept'
<1>1. MetricRows \cup Blank \subseteq RowSet
  BY RowsTyped DEF TelemetryKept, Blank
<1>2. MetersTyped'
  BY <1>1 DEF TelemetryKept, MetersTyped
<1>3. MetricRows' \subseteq MetricRows \cup Blank
  <2>1. {ending'[m].row : m \in Matches} \subseteq MetricRows \cup Blank
    OBVIOUS
  <2>2. MetricRows' = {Open', meter'.row} \cup {ending'[m].row : m \in Matches} \cup disk'.current \cup table'
                      \cup (UNION disk'.batches) \cup (UNION flush'.files)
    BY DEF MetricRows
  <2>. HIDE DEF MetricRows, Blank, Open
  <2>. QED  BY <2>1, <2>2
<1>. QED  BY <1>2, <1>3, NothingSampled

LEMMA RowsAre ==
    ASSUME TelemetryKept
    PROVE  /\ Open \in MetricRows /\ meter.row \in MetricRows /\ \A m \in Matches : ending[m].row \in MetricRows
           /\ disk.current \subseteq MetricRows /\ table \subseteq MetricRows
           /\ (UNION disk.batches) \subseteq MetricRows /\ (UNION flush.files) \subseteq MetricRows
           /\ NoRow \in Blank /\ NoRow \in RowSet /\ MinuteRow \in MetricRows \cup Blank
           /\ meter \in [eligible: SUBSET Int, segment: Int, bucket: Int, closing: BOOLEAN, row: RowSet]
           /\ DOMAIN ending = Matches /\ \A m \in Matches : DOMAIN ending[m] = {"stage", "row"}
           /\ clock \in Int /\ FilesTyped /\ OneRowEach
BY MinuteRowIs DEF MetricRows, TelemetryKept, MetersTyped, Blank

LEMMA MatchEndsKeeps == ASSUME TelemetryKept, NEW m \in Matches, MatchEnds(m) PROVE TelemetryKept'
<1>1. ending' = [ending EXCEPT ![m] = [stage |-> "sampling", row |-> NoRow]] /\ UNCHANGED <<flush, disk, table>>
  BY DEF MatchEnds, AtStage
<1>2. CASE Collected
  BY <1>1, <1>2, CollectedKeeps, RowsAre
<1>3. CASE UNCHANGED <<clock, meter>>
  <2>1. FilesTyped' /\ OneRowEach' /\ Open' = Open
    BY <1>1, <1>3, RowsAre DEF FilesTyped, OneRowEach, Open
  <2>. QED  BY <1>1, <1>3, <2>1, EndingKeeps, RowsAre
<1>. QED  BY <1>2, <1>3 DEF MatchEnds

LEMMA SegmentKeeps ==
    ASSUME TelemetryKept, NEW m \in Matches, SegmentCloses(m) \/ SegmentClosed(m)
    PROVE  TelemetryKept'
<1>1. CASE SegmentCloses(m)
  <2>1. ending' = [ending EXCEPT ![m] = [stage |-> "closing", row |-> MinuteRow]]
        /\ UNCHANGED <<clock, meter, flush, disk, table>>
    BY <1>1 DEF SegmentCloses, AtStage
  <2>2. FilesTyped' /\ OneRowEach' /\ Open' = Open
    BY <2>1, RowsAre DEF FilesTyped, OneRowEach, Open
  <2>. QED  BY <2>1, <2>2, EndingKeeps, RowsAre
<1>2. CASE SegmentClosed(m)
  <2>1. /\ ending' = [ending EXCEPT ![m] = [stage |-> "flushing", row |-> NoRow]] /\ meter' = NewSegment
        /\ disk' = Appended(ending[m].row) /\ UNCHANGED <<clock, flush, table>>
    BY <1>2 DEF SegmentClosed, AtStage
  <2>2. FilesTyped' /\ OneRowEach' /\ disk'.current \subseteq MetricRows \cup Blank /\ disk'.batches = disk.batches
    BY <2>1, AppendedKeeps, RowsAre
  <2>3. /\ meter' \in [eligible: SUBSET Int, segment: Int, bucket: Int, closing: BOOLEAN, row: RowSet]
        /\ meter'.eligible = {} /\ meter'.row = meter.row /\ meter'.closing = meter.closing
    <3>. DEFINE next == IF clock > meter.segment THEN clock ELSE meter.segment + 1
    <3>1. next \in Int
      BY RowsAre
    <3>2. meter' = [meter EXCEPT !.eligible = {}, !.segment = next]
      BY <2>1 DEF NewSegment
    <3>. HIDE DEF next
    <3>. QED  BY <3>1, <3>2, RowsAre
  <2>4. Open' \in Blank
    BY <2>3 DEF Open, Blank, RowSet
  <2>. QED  BY <2>1, <2>2, <2>3, <2>4, EndingKeeps, RowsAre
<1>. QED  BY <1>1, <1>2

LEMMA NotWrittenKeeps == ASSUME TelemetryKept, MinuteNotWritten PROVE TelemetryKept'
<1>1. /\ meter' = [meter EXCEPT !.closing = FALSE, !.row = NoRow]
      /\ ending' = [m \in Matches |-> IF ending[m].stage = "sampling"
                                      THEN [stage |-> "ended", row |-> NoRow] ELSE ending[m]]
      /\ UNCHANGED <<clock, flush, disk, table>>
  BY DEF MinuteNotWritten
<1>2. /\ meter' \in [eligible: SUBSET Int, segment: Int, bucket: Int, closing: BOOLEAN, row: RowSet]
      /\ meter'.eligible = meter.eligible /\ meter'.segment = meter.segment /\ meter'.row = NoRow /\ ~meter'.closing
  BY <1>1, RowsAre
<1>3. FilesTyped' /\ OneRowEach' /\ Open' = Open
  BY <1>1, <1>2, RowsAre DEF FilesTyped, OneRowEach, Open
<1>4. DOMAIN ending' = Matches
      /\ \A m \in Matches : DOMAIN ending'[m] = {"stage", "row"} /\ ending'[m].row \in MetricRows \cup Blank
  BY <1>1, RowsAre
<1>. QED  BY <1>1, <1>2, <1>3, <1>4, EndingKeeps, RowsAre

LEMMA StopsKeeps == ASSUME TelemetryKept, Stops PROVE TelemetryKept'
<1>1. /\ meter' = [eligible |-> {}, segment |-> clock, bucket |-> clock \div Minute, closing |-> FALSE, row |-> NoRow]
      /\ flush' = [running |-> FALSE, files |-> {}, stored |-> {}]
      /\ ending' = [m \in Matches |-> IF ending[m].stage = "playing" THEN ending[m]
                                      ELSE [stage |-> "ended", row |-> NoRow]]
      /\ UNCHANGED <<clock, disk, table>>
  BY DEF Stops, Metering, Resting
<1>2. clock \div Minute \in Int
  BY RowsAre, TelemetryAssumption
<1>3. /\ meter' \in [eligible: SUBSET Int, segment: Int, bucket: Int, closing: BOOLEAN, row: RowSet]
      /\ meter'.eligible = {} /\ meter'.row = NoRow /\ ~meter'.closing
  BY <1>1, <1>2, RowsAre
<1>4. Open' \in Blank
  BY <1>3 DEF Open, Blank, RowSet
<1>5. FilesTyped' /\ OneRowEach' /\ flush'.files = {}
  BY <1>1, RowsAre DEF FilesTyped, OneRowEach
<1>6. DOMAIN ending' = Matches
      /\ \A m \in Matches : DOMAIN ending'[m] = {"stage", "row"} /\ ending'[m].row \in MetricRows \cup Blank
  BY <1>1, RowsAre
<1>. QED  BY <1>1, <1>3, <1>4, <1>5, <1>6, EndingKeeps, RowsAre

\* The rows that are inserted are of different times.
LEMMA StoredOnce ==
    ASSUME TelemetryKept, NEW f \in SUBSET RowSet, IsFiniteSet(f), table' \in Stored(f)
    PROVE  OneRowEach' /\ table' \subseteq table \cup f
<1>. DEFINE new   == {r \in f : \A s \in table : s.at # r.at}
            times == {r.at : r \in new}
<1>1. PICK U \in SUBSET new : Cardinality(U) = Cardinality(times) /\ {r.at : r \in U} = times /\ table' = table \cup U
  BY DEF Stored
<1>. DEFINE at == [r \in U |-> r.at]
<1>2. IsFiniteSet(U)
  BY FS_Subset
<1>3. at \in Surjection(U, times)
  BY <1>1 DEF Surjection
<1>4. at \in Injection(U, times)
  <2>. HIDE DEF at, times
  <2>. QED  BY <1>1, <1>2, <1>3, FS_Surjection
<1>5. \A r, s \in U : r.at = s.at => r = s
  <2>1. \A r, s \in U : at[r] = at[s] => r = s
    <3>. HIDE DEF at, times
    <3>. QED  BY <1>4 DEF Injection, IsInjective
  <2>. QED  BY <2>1
<1>6. \A r \in U : \A s \in table : s.at # r.at
  OBVIOUS
<1>7. OneRowEach'
  <2>. SUFFICES ASSUME NEW r \in table \cup U, NEW s \in table \cup U, r.at = s.at PROVE r = s
    BY <1>1 DEF OneRowEach
  <2>. QED  BY <1>5, <1>6 DEF TelemetryKept, OneRowEach
<1>. QED  BY <1>1, <1>7

LEMMA FlushKeeps ==
    ASSUME TelemetryKept, FlushBegins \/ FileStored \/ FileRemoved \/ FlushEnds
    PROVE  TelemetryKept'
<1>1. CASE FlushBegins
  <2>1. /\ disk' = IF disk.current = {} THEN disk
                   ELSE [current |-> {}, batches |-> disk.batches \cup {disk.current}]
        /\ flush' = [running |-> TRUE, files |-> disk'.batches, stored |-> {}]
        /\ UNCHANGED <<clock, meter, ending, table>>
    BY <1>1 DEF FlushBegins
  <2>2. /\ DOMAIN disk' = {"current", "batches"} /\ disk'.current \subseteq disk.current
        /\ \A f \in disk'.batches : f \in disk.batches \cup {disk.current}
        /\ flush'.files = disk'.batches /\ DOMAIN flush' = {"running", "files", "stored"}
    BY <2>1, RowsAre DEF FilesTyped
  <2>3. FilesTyped'
    BY <2>1, <2>2, RowsAre, FS_Subset DEF FilesTyped
  <2>4. (UNION disk'.batches) \subseteq MetricRows
    BY <2>2, RowsAre
  <2>5. OneRowEach' /\ Open' = Open
    BY <2>1, RowsAre DEF OneRowEach, Open
  <2>. QED  BY <2>1, <2>2, <2>3, <2>4, <2>5, EndingKeeps, RowsAre
<1>2. CASE FileStored
  <2>1. PICK f \in flush.files : table' \in Stored(f) /\ flush' = [flush EXCEPT !.stored = {f}]
    BY <1>2 DEF FileStored
  <2>2. UNCHANGED <<clock, meter, ending, disk>>
    BY <1>2 DEF FileStored
  <2>3. f \in SUBSET RowSet /\ IsFiniteSet(f) /\ flush'.files = flush.files
        /\ DOMAIN flush' = {"running", "files", "stored"} /\ f \subseteq MetricRows
    BY <2>1, RowsAre DEF FilesTyped
  <2>4. OneRowEach' /\ table' \subseteq table \cup f
    BY <2>1, <2>3, StoredOnce
  <2>5. FilesTyped' /\ Open' = Open
    BY <2>2, <2>3, <2>4, RowsAre DEF FilesTyped, Open
  <2>. QED  BY <2>2, <2>3, <2>4, <2>5, EndingKeeps, RowsAre
<1>3. CASE FileRemoved
  <2>1. PICK f \in flush.stored : disk' = [disk EXCEPT !.batches = @ \ {f}]
                                  /\ flush' = [flush EXCEPT !.stored = {}, !.files = @ \ {f}]
    BY <1>3 DEF FileRemoved
  <2>2. UNCHANGED <<clock, meter, ending, table>>
    BY <1>3 DEF FileRemoved
  <2>3. /\ DOMAIN disk' = {"current", "batches"} /\ disk'.current = disk.current
        /\ disk'.batches \subseteq disk.batches
        /\ DOMAIN flush' = {"running", "files", "stored"} /\ flush'.files \subseteq flush.files
    BY <2>1, RowsAre DEF FilesTyped
  <2>4. FilesTyped' /\ OneRowEach' /\ Open' = Open
    BY <2>2, <2>3, RowsAre DEF FilesTyped, OneRowEach, Open
  <2>. QED  BY <2>2, <2>3, <2>4, EndingKeeps, RowsAre
<1>4. CASE FlushEnds
  <2>1. /\ flush' = [running |-> FALSE, files |-> {}, stored |-> {}]
        /\ ending' = [m \in Matches |-> IF ending[m].stage = "flushing"
                                        THEN [stage |-> "ended", row |-> NoRow] ELSE ending[m]]
        /\ UNCHANGED <<clock, meter, disk, table>>
    BY <1>4 DEF FlushEnds, Resting
  <2>2. DOMAIN ending' = Matches
        /\ \A m \in Matches : DOMAIN ending'[m] = {"stage", "row"} /\ ending'[m].row \in MetricRows \cup Blank
    BY <2>1, RowsAre
  <2>3. FilesTyped' /\ OneRowEach' /\ Open' = Open /\ flush'.files = {}
    BY <2>1, RowsAre DEF FilesTyped, OneRowEach, Open
  <2>. QED  BY <2>1, <2>2, <2>3, EndingKeeps, RowsAre
<1>. QED  BY <1>1, <1>2, <1>3, <1>4

LEMMA TelemetryInductive == TelemetryKept /\ [TelemetryNext]_telemetryVars => TelemetryKept'
<1>. SUFFICES ASSUME TelemetryKept, [TelemetryNext]_telemetryVars PROVE TelemetryKept'
  OBVIOUS
<1>1. CASE UNCHANGED telemetryVars
  <2>1. UNCHANGED <<clock, meter, ending, flush, disk, table>>
    BY <1>1 DEF telemetryVars
  <2>2. FilesTyped' /\ OneRowEach' /\ Open' = Open
    BY <2>1, RowsAre DEF FilesTyped, OneRowEach, Open
  <2>. QED  BY <2>1, <2>2, EndingKeeps, RowsAre
<1>2. CASE Sample
  <2>1. Collected /\ UNCHANGED <<ending, flush, disk, table>>
    BY <1>2 DEF Sample
  <2>. QED  BY <2>1, CollectedKeeps, RowsAre
<1>. QED
  BY <1>1, <1>2, MinuteKeeps, NotWrittenKeeps, FlushKeeps, StopsKeeps, MatchEndsKeeps, SegmentKeeps
     DEF TelemetryNext

\* No sample of the metrics is counted in two rows, however many matches end at once, in
\* whatever order their rows reach the file, and however often a file is inserted.
THEOREM SamplesHold == ServicesSpec => []SamplesCountedOnce
<1>1. ServicesInit => TelemetryKept
  BY TelemetryBegins DEF ServicesInit
<1>2. TelemetryKept /\ [ServicesNext]_servicesVars => TelemetryKept'
  BY StepsOfParts, TelemetryInductive
<1>. QED  BY <1>1, <1>2, TelemetryKeptCounts, PTL DEF ServicesSpec

-----------------------------------------------------------------------------
(* The statistics of an administrator.  The last message that is on its way, or  *)
(* was buffered, says what the page wants; while it wants statistics and nothing *)
(* is on its way to the server, what it shows and what is on its way to it make   *)
(* up what it was sent.                                                           *)

Rising(s) == \A i, j \in DOMAIN s : i < j => s[i] < s[j]
In(s)     == {s[i] : i \in DOMAIN s}

\* Where the elements of a list that is filtered were.
LEMMA KeptPlaces ==
    ASSUME NEW s \in Seq(Nat), NEW S
    PROVE  \E at \in [DOMAIN Kept(s, S) -> DOMAIN s] :
              /\ \A n \in DOMAIN at : s[at[n]] \in S /\ Kept(s, S)[n] = s[at[n]]
              /\ \A i, j \in DOMAIN at : i < j => at[i] < at[j]
              /\ \A m \in DOMAIN s : s[m] \in S => \E n \in DOMAIN at : at[n] = m
<1>. DEFINE I == {n \in DOMAIN s : s[n] \in S}
            R == {p \in I \X I : p[1] < p[2]}
            places == Ascending(I)
<1>1. I \subseteq Nat /\ IsFiniteSet(I) /\ DOMAIN s \subseteq Nat /\ \A n \in I : s[n] \in S /\ n \in DOMAIN s
  <2>1. DOMAIN s = 1 .. Len(s) /\ Len(s) \in Nat
    BY LenProperties
  <2>2. IsFiniteSet(1 .. Len(s))
    BY <2>1, FS_Interval
  <2>3. IsFiniteSet(I)
    BY <2>1, <2>2, FS_Subset
  <2>. QED  BY <2>1, <2>3
<1>2. \A m \in DOMAIN s : s[m] \in S => m \in I
  OBVIOUS
<1>3. Kept(s, S) = [n \in DOMAIN places |-> s[places[n]]]
  BY DEF Kept
<1>. HIDE DEF I
<1>4. Orders(R, I)
  BY <1>1 DEF Orders
<1>5. places = InOrderOf(I, R)
  BY DEF Ascending
<1>6. \A i, j \in I : <<i, j>> \in R => i < j
  OBVIOUS
<1>. HIDE DEF R
<1>7. /\ places \in Seq(I) /\ DOMAIN places = 1 .. Cardinality(I) /\ Cardinality(I) \in Nat
      /\ \A i, j \in DOMAIN places : i < j => <<places[i], places[j]>> \in R
      /\ \A x \in I : \E i \in DOMAIN places : places[i] = x
  BY <1>1, <1>4, <1>5, OrderedProperties
<1>. HIDE DEF places
<1>8. \A n \in DOMAIN places : places[n] \in I
  BY <1>7, ElementOfSeq, LenProperties
<1>9. DOMAIN Kept(s, S) = DOMAIN places /\ \A n \in DOMAIN places : Kept(s, S)[n] = s[places[n]]
  BY <1>3
<1>10. places \in [DOMAIN places -> I]
  BY <1>7, <1>8, SeqDef, LenProperties
<1>11. places \in [DOMAIN Kept(s, S) -> DOMAIN s]
  BY <1>1, <1>8, <1>9, <1>10
<1>12. \A i, j \in DOMAIN places : i < j => places[i] < places[j]
  BY <1>6, <1>7, <1>8
<1>13. \A m \in DOMAIN s : s[m] \in S => \E n \in DOMAIN places : places[n] = m
  BY <1>2, <1>7
<1>14. \A n \in DOMAIN places : s[places[n]] \in S /\ Kept(s, S)[n] = s[places[n]]
  BY <1>1, <1>8, <1>9
<1>. QED  BY <1>11, <1>12, <1>13, <1>14

LEMMA RisingCount ==
    ASSUME NEW s \in Seq(Nat), Rising(s)
    PROVE  IsFiniteSet(In(s)) /\ Cardinality(In(s)) = Len(s)
<1>1. DOMAIN s = 1 .. Len(s) /\ Len(s) \in Nat /\ s \in [1 .. Len(s) -> Nat]
  BY LenProperties
<1>2. IsFiniteSet(1 .. Len(s)) /\ Cardinality(1 .. Len(s)) = Len(s)
  <2>1. Len(s) \in Int /\ 1 \in Int /\ (IF 1 > Len(s) THEN 0 ELSE Len(s) - 1 + 1) = Len(s)
    BY <1>1
  <2>. QED  BY <2>1, FS_Interval
<1>3. s \in [1 .. Len(s) -> In(s)]
  BY <1>1 DEF In
<1>4. \A x \in In(s) : \E i \in 1 .. Len(s) : s[i] = x
  BY <1>1 DEF In
<1>5. \A i, j \in 1 .. Len(s) : s[i] = s[j] => i = j
  BY <1>1 DEF Rising
<1>6. s \in Bijection(1 .. Len(s), In(s))
  BY <1>3, <1>4, <1>5 DEF Bijection, Injection, Surjection, IsInjective
<1>7. ExistsBijection(1 .. Len(s), In(s))
  BY <1>6 DEF ExistsBijection
<1>. QED  BY <1>2, <1>7, FS_Bijection

LEMMA LastOfProperties ==
    ASSUME NEW s \in Seq(Nat), Rising(s), NEW n \in Nat \ {0}
    PROVE  LET l == LastOf(s, n)
           IN  /\ l \in Seq(Nat) /\ Rising(l) /\ Len(l) <= n /\ In(l) \subseteq In(s)
               /\ Len(l) = n \/ l = s
               /\ \A x \in In(s) \ In(l), y \in In(l) : x < y
               /\ s # << >> => l # << >> /\ l[Len(l)] = s[Len(s)]
<1>. DEFINE l == SubSeq(s, Len(s) - n + 1, Len(s))
<1>1. DOMAIN s = 1 .. Len(s) /\ Len(s) \in Nat /\ n \in Nat /\ n > 0 /\ \A i \in 1 .. Len(s) : s[i] \in Nat
  BY LenProperties, ElementOfSeq
<1>2. CASE ~(Len(s) > n)
  <2>1. LastOf(s, n) = s
    BY <1>2 DEF LastOf
  <2>. QED  BY <1>1, <1>2, <2>1 DEF In
<1>3. CASE Len(s) > n
  <2>1. LastOf(s, n) = l
    BY <1>3 DEF LastOf
  <2>2. /\ l \in Seq(Nat)
        /\ Len(l) = IF Len(s) - n + 1 <= Len(s) THEN Len(s) - (Len(s) - n + 1) + 1 ELSE 0
        /\ \A i \in 1 .. Len(s) - (Len(s) - n + 1) + 1 : l[i] = s[Len(s) - n + 1 + i - 1]
    <3>1. Len(s) - n + 1 \in Int /\ Len(s) \in Int /\ \A i \in Len(s) - n + 1 .. Len(s) : s[i] \in Nat
      BY <1>1, <1>3
    <3>. QED  BY <3>1, SubSeqProperties
  <2>. HIDE DEF l
  <2>3. Len(l) = n /\ DOMAIN l = 1 .. n /\ \A i \in 1 .. n : l[i] = s[Len(s) - n + i]
    <3>1. Len(l) = n
      BY <1>1, <1>3, <2>2
    <3>2. DOMAIN l = 1 .. n
      BY <2>2, <3>1, LenProperties
    <3>3. \A i \in 1 .. n : i \in 1 .. Len(s) - (Len(s) - n + 1) + 1 /\ Len(s) - n + 1 + i - 1 = Len(s) - n + i
      BY <1>1
    <3>. QED  BY <2>2, <3>1, <3>2, <3>3
  <2>4. \A i \in 1 .. n : Len(s) - n + i \in 1 .. Len(s)
    BY <1>1, <1>3
  <2>5. Rising(l)
    <3>1. ASSUME NEW i \in 1 .. n, NEW j \in 1 .. n, i < j PROVE l[i] < l[j]
      <4>1. Len(s) - n + i < Len(s) - n + j
        BY <1>1, <3>1
      <4>2. s[Len(s) - n + i] < s[Len(s) - n + j]
        BY <1>1, <2>4, <4>1 DEF Rising
      <4>. QED  BY <2>3, <4>2
    <3>. QED  BY <2>3, <3>1 DEF Rising
  <2>6. In(l) \subseteq In(s)
    BY <1>1, <2>3, <2>4 DEF In
  <2>7. ASSUME NEW x \in In(s) \ In(l), NEW y \in In(l) PROVE x < y
    <3>1. PICK i \in 1 .. Len(s) : s[i] = x
      BY <1>1, <2>7 DEF In
    <3>2. PICK j \in 1 .. n : l[j] = y
      BY <2>3, <2>7 DEF In
    <3>3. i <= Len(s) - n
      <4>1. SUFFICES ASSUME ~(i <= Len(s) - n) PROVE FALSE
        OBVIOUS
      <4>2. i - (Len(s) - n) \in 1 .. n /\ Len(s) - n + (i - (Len(s) - n)) = i
        BY <1>1, <1>3, <3>1, <4>1
      <4>3. l[i - (Len(s) - n)] = x
        BY <2>3, <3>1, <4>2
      <4>. QED  BY <2>3, <2>7, <4>2, <4>3 DEF In
    <3>4. i < Len(s) - n + j /\ Len(s) - n + j \in 1 .. Len(s)
      BY <1>1, <1>3, <2>4, <3>1, <3>2, <3>3
    <3>5. s[i] < s[Len(s) - n + j]
      BY <1>1, <3>1, <3>4 DEF Rising
    <3>. QED  BY <2>3, <3>1, <3>2, <3>5
  <2>8. s # << >> => l # << >> /\ l[Len(l)] = s[Len(s)]
    <3>1. n \in 1 .. n /\ Len(s) - n + n = Len(s)
      BY <1>1
    <3>2. l[Len(l)] = s[Len(s)]
      BY <2>3, <3>1
    <3>. QED  BY <1>1, <2>2, <2>3, <3>2, EmptySeq
  <2>9. Len(l) <= n
    BY <1>1, <2>3
  <2>. QED  BY <2>1, <2>2, <2>3, <2>5, <2>6, <2>7, <2>8, <2>9
<1>. QED  BY <1>2, <1>3

\* onStatsUpdate: what follows the samples that are shown.
LEMMA UpdatedProperties ==
    ASSUME NEW s \in Seq(Nat), Rising(s), Len(s) <= SampleLimit, NEW x \in Nat, \A y \in In(s) : y <= x
    PROVE  LET l == LastOf(Append(Kept(s, Nat \ {x}), x), SampleLimit)
           IN  /\ l \in Seq(Nat) /\ Rising(l) /\ Len(l) <= SampleLimit
               /\ In(l) \subseteq In(s) \cup {x} /\ x \in In(l)
               /\ Cardinality(In(l)) = SampleLimit \/ In(l) = In(s) \cup {x}
               /\ Cardinality(In(s)) = SampleLimit => Cardinality(In(l)) = SampleLimit
               /\ \A y \in In(s) \ In(l), z \in In(l) : y < z
<1>. DEFINE k == Kept(s, Nat \ {x})
            a == Append(k, x)
            l == LastOf(a, SampleLimit)
<1>1. SampleLimit \in Nat /\ SampleLimit > 0
  BY DashboardAssumption
<1>2. DOMAIN s = 1 .. Len(s) /\ Len(s) \in Nat /\ \A i \in 1 .. Len(s) : s[i] \in Nat
  BY LenProperties, ElementOfSeq
<1>3. k \in Seq(Nat)
  <2>1. k \in Seq(Nat \cap (Nat \ {x}))
    BY KeptProperties
  <2>2. Nat \cap (Nat \ {x}) \subseteq Nat
    OBVIOUS
  <2>. HIDE DEF k
  <2>. QED  BY <2>1, <2>2, SeqMonotonic
<1>4. PICK at \in [DOMAIN k -> DOMAIN s] :
              /\ \A n \in DOMAIN at : s[at[n]] \in Nat \ {x} /\ k[n] = s[at[n]]
              /\ \A i, j \in DOMAIN at : i < j => at[i] < at[j]
              /\ \A m \in DOMAIN s : s[m] \in Nat \ {x} => \E n \in DOMAIN at : at[n] = m
  <2>. DEFINE Others == Nat \ {x}
  <2>1. \E at \in [DOMAIN Kept(s, Others) -> DOMAIN s] :
              /\ \A n \in DOMAIN at : s[at[n]] \in Others /\ Kept(s, Others)[n] = s[at[n]]
              /\ \A i, j \in DOMAIN at : i < j => at[i] < at[j]
              /\ \A m \in DOMAIN s : s[m] \in Others => \E n \in DOMAIN at : at[n] = m
    <3>. HIDE DEF Others
    <3>. QED  BY KeptPlaces
  <2>. QED  BY <2>1
<1>. HIDE DEF k
<1>5. DOMAIN at = DOMAIN k /\ DOMAIN k = 1 .. Len(k) /\ Len(k) \in Nat /\ \A n \in 1 .. Len(k) : at[n] \in 1 .. Len(s)
  BY <1>2, <1>3, <1>4, LenProperties
<1>6. In(k) = In(s) \ {x}
  <2>1. ASSUME NEW y \in In(k) PROVE y \in In(s) \ {x}
    BY <1>2, <1>4, <1>5 DEF In
  <2>2. ASSUME NEW y \in In(s) \ {x} PROVE y \in In(k)
    <3>1. PICK m \in DOMAIN s : s[m] = y
      BY DEF In
    <3>2. s[m] \in Nat \ {x}
      BY <1>2, <2>2, <3>1
    <3>3. PICK n \in DOMAIN at : at[n] = m
      BY <1>4, <3>2
    <3>. QED  BY <1>4, <1>5, <3>1, <3>3 DEF In
  <2>. QED  BY <2>1, <2>2
<1>7. a \in Seq(Nat) /\ Len(a) = Len(k) + 1 /\ (\A i \in 1 .. Len(k) : a[i] = k[i]) /\ a[Len(k) + 1] = x /\ a # << >>
  <2>1. a \in Seq(Nat)
    BY <1>3
  <2>2. Len(a) = Len(k) + 1
    BY <1>3
  <2>3. a[Len(k) + 1] = x
    BY <1>3
  <2>4. \A i \in 1 .. Len(k) : a[i] = k[i]
    BY <1>3
  <2>5. a # << >>
    <3>1. Len(a) # 0
      BY <1>3, <2>2, LenProperties
    <3>2. Len(<< >>) = 0
      BY EmptySeq
    <3>. HIDE DEF a
    <3>. QED  BY <3>1, <3>2
  <2>. QED  BY <2>1, <2>2, <2>3, <2>4, <2>5
<1>. HIDE DEF a
<1>8. DOMAIN a = 1 .. Len(k) + 1
  BY <1>7, LenProperties
<1>9. In(a) = In(s) \cup {x}
  <2>1. ASSUME NEW y \in In(a) PROVE y \in In(s) \cup {x}
    <3>1. PICK i \in 1 .. Len(k) + 1 : a[i] = y
      BY <1>8 DEF In
    <3>2. CASE i = Len(k) + 1
      BY <1>7, <3>1, <3>2
    <3>3. CASE i # Len(k) + 1
      <4>1. i \in 1 .. Len(k)
        BY <1>5, <3>1, <3>3
      <4>2. y \in In(k)
        BY <1>5, <1>7, <3>1, <4>1 DEF In
      <4>. QED  BY <1>6, <4>2
    <3>. QED  BY <3>2, <3>3
  <2>2. ASSUME NEW y \in In(s) PROVE y \in In(a)
    <3>1. CASE y = x
      <4>1. Len(k) + 1 \in DOMAIN a
        BY <1>5, <1>8
      <4>. QED  BY <1>7, <3>1, <4>1 DEF In
    <3>2. CASE y # x
      <4>1. y \in In(k)
        BY <1>6, <2>2, <3>2
      <4>2. PICK i \in 1 .. Len(k) : k[i] = y
        BY <1>5, <4>1 DEF In
      <4>3. i \in DOMAIN a /\ a[i] = y
        BY <1>5, <1>7, <1>8, <4>2
      <4>. QED  BY <4>3 DEF In
    <3>. QED  BY <3>1, <3>2
  <2>3. x \in In(a)
    <3>1. Len(k) + 1 \in DOMAIN a
      BY <1>5, <1>8
    <3>. QED  BY <1>7, <3>1 DEF In
  <2>. QED  BY <2>1, <2>2, <2>3
<1>10. Rising(a)
  <2>1. \A i \in 1 .. Len(k) : k[i] \in Nat /\ k[i] < x
    <3>1. ASSUME NEW i \in 1 .. Len(k) PROVE k[i] \in Nat /\ k[i] < x
      <4>1. k[i] \in In(s) \ {x}
        BY <1>5, <1>6 DEF In
      <4>2. k[i] \in Nat
        BY <1>2, <4>1 DEF In
      <4>. QED  BY <4>1, <4>2
    <3>. QED  BY <3>1
  <2>2. \A i, j \in 1 .. Len(k) : i < j => k[i] < k[j]
    <3>1. ASSUME NEW i \in 1 .. Len(k), NEW j \in 1 .. Len(k), i < j PROVE k[i] < k[j]
      <4>1. at[i] < at[j] /\ at[i] \in 1 .. Len(s) /\ at[j] \in 1 .. Len(s)
        BY <1>4, <1>5, <3>1
      <4>2. s[at[i]] < s[at[j]]
        BY <1>2, <4>1 DEF Rising
      <4>. QED  BY <1>4, <1>5, <4>2
    <3>. QED  BY <3>1
  <2>3. ASSUME NEW i \in 1 .. Len(k) + 1, NEW j \in 1 .. Len(k) + 1, i < j PROVE a[i] < a[j]
    <3>1. i \in 1 .. Len(k)
      BY <1>5, <2>3
    <3>2. CASE j = Len(k) + 1
      BY <1>7, <2>1, <3>1, <3>2
    <3>3. CASE j # Len(k) + 1
      <4>1. j \in 1 .. Len(k)
        BY <1>5, <3>3
      <4>. QED  BY <1>7, <2>2, <2>3, <3>1, <4>1
    <3>. QED  BY <3>2, <3>3
  <2>. QED  BY <1>8, <2>3 DEF Rising
<1>11. /\ l \in Seq(Nat) /\ Rising(l) /\ Len(l) <= SampleLimit /\ In(l) \subseteq In(a)
       /\ Len(l) = SampleLimit \/ l = a
       /\ \A y \in In(a) \ In(l), z \in In(l) : y < z
       /\ l # << >> /\ l[Len(l)] = a[Len(a)]
  <2>1. SampleLimit \in Nat \ {0}
    BY DashboardAssumption
  <2>. QED  BY <1>7, <1>10, <2>1, LastOfProperties, Zenon
<1>. HIDE DEF l
<1>12. Cardinality(In(l)) = Len(l) /\ Len(l) \in Nat /\ IsFiniteSet(In(l))
  BY <1>11, RisingCount, LenProperties
<1>13. x \in In(l)
  <2>1. Len(l) \in DOMAIN l
    BY <1>11, <1>12, LenProperties, EmptySeq
  <2>. QED  BY <1>7, <1>11, <2>1 DEF In
<1>14. Cardinality(In(s)) = SampleLimit => Cardinality(In(l)) = SampleLimit
  <2>1. CASE l = a
    <3>1. In(s) \subseteq In(l)
      BY <1>9, <2>1
    <3>2. Cardinality(In(s)) <= Cardinality(In(l))
      BY <1>12, <3>1, FS_Subset
    <3>. QED  BY <1>1, <1>11, <1>12, <3>2
  <2>. QED  BY <1>11, <1>12, <2>1
<1>15. Cardinality(In(l)) = SampleLimit \/ In(l) = In(s) \cup {x}
  BY <1>9, <1>11, <1>12
<1>16. \A y \in In(s) \ In(l), z \in In(l) : y < z
  BY <1>9, <1>11
<1>. QED  BY <1>9, <1>11, <1>13, <1>14, <1>15, <1>16 DEF l, a, k

Signals == {"subscribe", "unsubscribe"}
Updates == [full: BOOLEAN, latest: Nat, recent: Seq(Nat)]
Wanted  == board.open /\ board.view = "realtime" /\ ~board.hidden

BoardTypes ==
    /\ board \in [open: BOOLEAN, view: {"realtime", "history"}, hidden: BOOLEAN, samples: Seq(Nat)]
    /\ wire \in [up: BOOLEAN, id: Nat, buffer: Seq(Signals)]
    /\ upward \in Seq(Signals) /\ downward \in Seq(Updates)
    /\ known \in SUBSET Nat /\ watching \in SUBSET known /\ taken \in Nat /\ told \in SUBSET Nat

LinkKnown ==
    /\ \A id \in known : id <= wire.id
    /\ wire.up => wire.id \in known /\ wire.buffer = << >>
    /\ ~wire.up => upward = << >> /\ downward = << >>

\* What the page wants is the last thing it said, or will have said.
LastWord ==
    /\ wire.up /\ upward = << >> => (wire.id \in watching <=> Wanted)
    /\ wire.up /\ upward # << >> => (upward[Len(upward)] = "subscribe" <=> Wanted)
    /\ ~wire.up /\ wire.buffer # << >> /\ wire.buffer[Len(wire.buffer)] = "subscribe" => Wanted

\* Samples are sent in the order in which they were taken.
ShownInTurn(s, d, n) ==
    /\ Rising(s) /\ Len(s) <= SampleLimit
    /\ \A x \in In(s) : x <= n /\ \A j \in DOMAIN d : x <= d[j].latest
SentInTurn(d, n) ==
    /\ \A i, j \in DOMAIN d : i < j => d[i].latest <= d[j].latest
    /\ \A j \in DOMAIN d :
          /\ d[j].latest <= n
          /\ Rising(d[j].recent) /\ Len(d[j].recent) <= SampleLimit
          /\ \A x \in In(d[j].recent) : x <= d[j].latest
InTurn ==
    /\ ShownInTurn(board.samples, downward, taken) /\ SentInTurn(downward, taken)
    /\ \A x \in told : x <= taken

OnWay(d) == {d[j].latest : j \in DOMAIN d}

\* The page shows the newest of what it was sent, but for what is on its way.
Served(s, d) ==
    /\ In(s) \subseteq told /\ OnWay(d) \subseteq told
    /\ \A x \in told \ (In(s) \cup OnWay(d)), y \in In(s) : x < y
    /\ \A x \in told \ OnWay(d), y \in OnWay(d) : x <= y
    /\ Cardinality(In(s)) = SampleLimit \/ told \ OnWay(d) \subseteq In(s)

\* What answers the subscription is on its way, and what was sent since then.
Answering(k, d) ==
    /\ d[k].full /\ \A j \in DOMAIN d : j > k => ~d[j].full
    /\ told = In(d[k].recent) \cup {d[j].latest : j \in {j \in DOMAIN d : j > k}}

Fed ==
    wire.up /\ Wanted /\ upward = << >> =>
       \/ \E k \in DOMAIN downward : Answering(k, downward)
       \/ (\A j \in DOMAIN downward : ~downward[j].full) /\ Served(board.samples, downward)

DashboardKept == BoardTypes /\ LinkKnown /\ LastWord /\ InTurn /\ Fed

LEMMA DashboardKeptServes == DashboardKept => BoardIsServed
<1>1. SUFFICES ASSUME DashboardKept PROVE BoardIsServed
  OBVIOUS
<1>2. \A i, j \in DOMAIN board.samples : i < j => board.samples[i] < board.samples[j]
  BY <1>1 DEF DashboardKept, InTurn, ShownInTurn, Rising
<1>3. watching \subseteq known /\ (wire.up /\ upward = << >> => (wire.id \in watching <=> Wanted))
  BY <1>1 DEF DashboardKept, BoardTypes, LastWord
<1>4. ASSUME wire.up, Wanted, upward = << >>, downward = << >>
      PROVE  /\ In(board.samples) \subseteq told
             /\ \A s \in told \ In(board.samples) : \A t \in In(board.samples) : s < t
             /\ Cardinality(In(board.samples)) = SampleLimit \/ In(board.samples) = told
  <2>1. DOMAIN downward = {}
    BY <1>4, EmptySeq
  <2>2. OnWay(downward) = {}
    BY <2>1 DEF OnWay
  <2>3. Served(board.samples, downward)
    BY <1>1, <1>4, <2>1 DEF DashboardKept, Fed
  <2>. QED  BY <2>2, <2>3 DEF Served
<1>. QED  BY <1>2, <1>3, <1>4 DEF BoardIsServed, Wanted, In

LEMMA NoList == << >> \in Seq(Nat) /\ << >> \in Seq(Signals) /\ << >> \in Seq(Updates) /\ Len(<< >>) = 0 /\ DOMAIN << >> = {}
BY EmptySeq

LEMMA NoneShown == ASSUME NEW d, NEW n PROVE ShownInTurn(<< >>, d, n)
<1>1. Rising(<< >>) /\ In(<< >>) = {} /\ Len(<< >>) <= SampleLimit
  BY NoList, DashboardAssumption DEF Rising, In
<1>. QED  BY <1>1 DEF ShownInTurn

LEMMA DashboardBegins == DashboardInit => DashboardKept
<1>1. SUFFICES ASSUME DashboardInit PROVE DashboardKept
  OBVIOUS
<1>2. board = [open |-> FALSE, view |-> "realtime", hidden |-> FALSE, samples |-> << >>]
  BY <1>1 DEF DashboardInit, NewBoard
<1>3. BoardTypes
  <2>1. board \in [open: BOOLEAN, view: {"realtime", "history"}, hidden: BOOLEAN, samples: Seq(Nat)]
    BY <1>2, NoList
  <2>2. wire \in [up: BOOLEAN, id: Nat, buffer: Seq(Signals)]
    BY <1>1, NoList DEF DashboardInit
  <2>3. known \in SUBSET Nat /\ watching \in SUBSET known /\ taken \in Nat /\ told \in SUBSET Nat
    BY <1>1 DEF DashboardInit
  <2>. QED  BY <1>1, <2>1, <2>2, <2>3, NoList DEF DashboardInit, BoardTypes
<1>4. ~Wanted /\ LinkKnown /\ LastWord /\ Fed
  BY <1>1, <1>2 DEF DashboardInit, Wanted, LinkKnown, LastWord, Fed
<1>5. InTurn
  <2>1. board.samples = << >>
    BY <1>2
  <2>2. downward = << >> /\ told = {}
    BY <1>1 DEF DashboardInit
  <2>3. SentInTurn(downward, taken)
    BY <2>2, NoList DEF SentInTurn
  <2>. QED  BY <2>1, <2>2, <2>3, NoneShown DEF InTurn
<1>. QED  BY <1>3, <1>4, <1>5 DEF DashboardKept

Words == {<< >>, <<"subscribe">>, <<"unsubscribe">>}

LEMMA SaidLast ==
    ASSUME NEW s \in Seq(Signals), NEW x \in Signals
    PROVE  s \o <<x>> \in Seq(Signals) /\ s \o <<x>> # << >> /\ (s \o <<x>>)[Len(s \o <<x>>)] = x
<1>1. <<x>> \in Seq(Signals) /\ Len(<<x>>) = 1 /\ <<x>>[1] = x
  OBVIOUS
<1>2. Len(s) \in Nat
  BY LenProperties
<1>3. /\ s \o <<x>> \in Seq(Signals) /\ Len(s \o <<x>>) = Len(s) + 1
      /\ (s \o <<x>>)[Len(s) + 1] = <<x>>[Len(s) + 1 - Len(s)]
  <2>. DEFINE y == <<x>>
  <2>. HIDE DEF y
  <2>1. y \in Seq(Signals) /\ Len(y) = 1
    BY <1>1 DEF y
  <2>2. /\ s \o y \in Seq(Signals) /\ Len(s \o y) = Len(s) + 1
        /\ (s \o y)[Len(s) + 1] = y[Len(s) + 1 - Len(s)]
    <3>1. Len(s) + 1 \in 1 .. Len(s) + Len(y) /\ ~(Len(s) + 1 <= Len(s))
      BY <1>2, <2>1
    <3>2. /\ s \o y \in Seq(Signals) /\ Len(s \o y) = Len(s) + Len(y)
          /\ \A i \in 1 .. Len(s) + Len(y) : (s \o y)[i] = IF i <= Len(s) THEN s[i] ELSE y[i - Len(s)]
      BY <2>1, ConcatProperties
    <3>. QED  BY <2>1, <3>1, <3>2
  <2>. QED  BY <2>2 DEF y
<1>4. Len(s) + 1 - Len(s) = 1 /\ Len(s) + 1 # 0
  BY <1>2
<1>. QED  BY <1>1, <1>3, <1>4, NoList

\* What the page does: when it wants something else, it says so, unless the connection is
\* lost and it will say so by itself when it comes back.
LEMMA PageDoes ==
    ASSUME DashboardKept, NEW ms \in Words, EmitsAll(ms),
           board' \in [open: BOOLEAN, view: {"realtime", "history"}, hidden: BOOLEAN, samples: Seq(Nat)],
           board'.samples = board.samples \/ board'.samples = << >>,
           ms = <<"subscribe">> => Wanted',
           ms = <<"unsubscribe">> => ~Wanted',
           ms = << >> => (Wanted => Wanted') /\ (wire.up => (Wanted' <=> Wanted)),
           ms = << >> /\ wire.up /\ Wanted => board'.samples = board.samples,
           UNCHANGED <<downward, watching, known, taken, told>>
    PROVE  DashboardKept'
<1>1. upward \in Seq(Signals) /\ wire \in [up: BOOLEAN, id: Nat, buffer: Seq(Signals)] /\ upward \o << >> = upward /\ wire.buffer \o << >> = wire.buffer
  BY ConcatEmptySeq DEF DashboardKept, BoardTypes
<1>2. CASE ms = << >>
  <2>1. upward' = upward /\ wire' = wire
    BY <1>1, <1>2 DEF EmitsAll
  <2>2. BoardTypes' /\ LinkKnown'
    BY <2>1 DEF DashboardKept, BoardTypes, LinkKnown
  <2>3. LastWord'
    BY <1>2, <2>1 DEF DashboardKept, LastWord
  <2>4. InTurn'
    BY NoneShown DEF DashboardKept, InTurn
  <2>5. Fed'
    <3>1. SUFFICES ASSUME wire.up, Wanted', upward = << >> PROVE Fed'
      BY <2>1 DEF Fed
    <3>2. board'.samples = board.samples /\ Fed /\ Wanted
      BY <1>2, <3>1 DEF DashboardKept
    <3>. QED  BY <3>1, <3>2 DEF Fed, Answering, Served, OnWay
  <2>. QED  BY <2>2, <2>3, <2>4, <2>5 DEF DashboardKept
<1>3. ASSUME NEW x \in Signals, ms = <<x>>, x = "subscribe" <=> Wanted' PROVE DashboardKept'
  <2>1. CASE wire.up
    <3>1. upward' = upward \o <<x>> /\ wire' = wire
      BY <1>3, <2>1 DEF EmitsAll
    <3>2. upward' \in Seq(Signals) /\ upward' # << >> /\ upward'[Len(upward')] = x
      BY <1>1, <3>1, SaidLast
    <3>3. BoardTypes' /\ LinkKnown'
      BY <2>1, <3>1, <3>2 DEF DashboardKept, BoardTypes, LinkKnown
    <3>4. LastWord' /\ Fed'
      BY <1>3, <2>1, <3>1, <3>2 DEF LastWord, Fed
    <3>5. InTurn'
      BY NoneShown DEF DashboardKept, InTurn
    <3>. QED  BY <3>3, <3>4, <3>5 DEF DashboardKept
  <2>2. CASE ~wire.up
    <3>1. upward' = upward /\ wire' = [wire EXCEPT !.buffer = wire.buffer \o <<x>>]
      BY <1>3, <2>2 DEF EmitsAll
    <3>2. wire.buffer \o <<x>> \in Seq(Signals) /\ (wire.buffer \o <<x>>)[Len(wire.buffer \o <<x>>)] = x
      BY <1>1, SaidLast
    <3>3. wire' \in [up: BOOLEAN, id: Nat, buffer: Seq(Signals)] /\ wire'.up = wire.up /\ wire'.id = wire.id /\ wire'.buffer = wire.buffer \o <<x>>
      BY <1>1, <3>1, <3>2
    <3>4. BoardTypes' /\ LinkKnown'
      BY <2>2, <3>1, <3>3 DEF DashboardKept, BoardTypes, LinkKnown
    <3>5. LastWord' /\ Fed'
      BY <1>3, <2>2, <3>2, <3>3 DEF LastWord, Fed
    <3>6. InTurn'
      BY NoneShown DEF DashboardKept, InTurn
    <3>. QED  BY <3>4, <3>5, <3>6 DEF DashboardKept
  <2>. QED  BY <2>1, <2>2
<1>4. CASE ms = <<"subscribe">>
  <2>1. "subscribe" \in Signals
    BY DEF Signals
  <2>. QED  BY <1>3, <1>4, <2>1
<1>5. CASE ms = <<"unsubscribe">>
  <2>1. "unsubscribe" \in Signals /\ "unsubscribe" # "subscribe"
    BY DEF Signals
  <2>. QED  BY <1>3, <1>5, <2>1
<1>. QED  BY <1>2, <1>4, <1>5 DEF Words

LEMMA UserOfPageDoes ==
    ASSUME DashboardKept, OpenBoard \/ CloseBoard \/ SelectView \/ ChangeVisibility
    PROVE  DashboardKept'
<1>. DEFINE Board == [open: BOOLEAN, view: {"realtime", "history"}, hidden: BOOLEAN, samples: Seq(Nat)]
<1>1. board \in Board /\ << >> \in Words /\ <<"subscribe">> \in Words /\ <<"unsubscribe">> \in Words
  BY DEF DashboardKept, BoardTypes, Words
<1>2. << >> # <<"subscribe">> /\ << >> # <<"unsubscribe">> /\ <<"subscribe">> # <<"unsubscribe">>
  <2>1. Len(<<"subscribe">>) = 1 /\ Len(<<"unsubscribe">>) = 1 /\ <<"subscribe">>[1] # <<"unsubscribe">>[1]
    OBVIOUS
  <2>. QED  BY <2>1, NoList
<1>3. CASE OpenBoard
  <2>1. board' = [open |-> TRUE, view |-> "realtime", hidden |-> board.hidden, samples |-> << >>] /\ ~Wanted
    BY <1>3 DEF OpenBoard, NewBoard, Wanted
  <2>2. board' \in Board /\ board'.samples = << >> /\ (Wanted' <=> ~board.hidden)
    BY <1>1, <2>1, NoList DEF Wanted
  <2>3. SubscribeOf(board') = IF ~board.hidden THEN <<"subscribe">> ELSE << >>
    BY <2>1 DEF SubscribeOf
  <2>. DEFINE ms == IF wire.up THEN SubscribeOf(board') ELSE << >>
  <2>4. ms \in Words /\ EmitsAll(ms) /\ UNCHANGED <<downward, watching, known, taken, told>>
    BY <1>1, <1>3, <2>3 DEF OpenBoard
  <2>5. /\ ms = <<"subscribe">> => Wanted'
        /\ ms = <<"unsubscribe">> => ~Wanted'
        /\ ms = << >> /\ wire.up => ~Wanted'
    BY <1>2, <2>2, <2>3
  <2>. HIDE DEF ms
  <2>. QED  BY <2>1, <2>2, <2>4, <2>5, PageDoes
<1>4. CASE CloseBoard
  <2>1. board' \in Board /\ board'.samples = board.samples /\ ~Wanted'
    BY <1>1, <1>4 DEF CloseBoard, Wanted
  <2>. QED  BY <1>1, <1>2, <1>4, <2>1, PageDoes DEF CloseBoard
<1>5. CASE SelectView
  <2>1. CASE board.view = "realtime"
    <3>1. board' \in Board /\ board'.samples = board.samples /\ ~Wanted'
      BY <1>1, <1>5, <2>1 DEF SelectView, Wanted
    <3>2. EmitsAll(<<"unsubscribe">>) /\ UNCHANGED <<downward, watching, known, taken, told>>
      BY <1>5, <2>1 DEF SelectView
    <3>. QED  BY <1>1, <1>2, <3>1, <3>2, PageDoes
  <2>2. CASE board.view # "realtime"
    <3>1. /\ board' \in Board /\ board'.samples = board.samples /\ (Wanted' <=> ~board.hidden) /\ ~Wanted
          /\ board'.open /\ board'.hidden = board.hidden /\ board'.view = "realtime"
      BY <1>1, <1>5, <2>2 DEF SelectView, Wanted
    <3>2. SubscribeOf(board') = IF ~board.hidden THEN <<"subscribe">> ELSE << >>
      BY <3>1 DEF SubscribeOf
    <3>3. EmitsAll(SubscribeOf(board')) /\ UNCHANGED <<downward, watching, known, taken, told>>
      BY <1>5, <2>2 DEF SelectView
    <3>4. CASE board.hidden
      BY <1>1, <1>2, <3>1, <3>2, <3>3, <3>4, PageDoes
    <3>5. CASE ~board.hidden
      BY <1>1, <1>2, <3>1, <3>2, <3>3, <3>5, PageDoes
    <3>. QED  BY <3>4, <3>5
  <2>. QED  BY <2>1, <2>2
<1>6. CASE ChangeVisibility
  <2>. DEFINE ms == IF ~board.open THEN << >>
                    ELSE IF board'.hidden \/ board.view = "history" THEN <<"unsubscribe">>
                    ELSE <<"subscribe">>
  <2>1. board' \in Board /\ board'.samples = board.samples /\ board'.open = board.open /\ board'.view = board.view
    BY <1>1, <1>6 DEF ChangeVisibility
  <2>2. EmitsAll(ms) /\ UNCHANGED <<downward, watching, known, taken, told>> /\ ms \in Words
    BY <1>1, <1>6 DEF ChangeVisibility
  <2>3. /\ ms = <<"subscribe">> => Wanted'
        /\ ms = <<"unsubscribe">> => ~Wanted'
        /\ ms = << >> => ~Wanted' /\ ~Wanted
    BY <1>1, <1>2, <2>1 DEF Wanted
  <2>. HIDE DEF ms
  <2>. QED  BY <2>1, <2>2, <2>3, PageDoes
<1>. QED  BY <1>3, <1>4, <1>5, <1>6

LEMMA RingProperties ==
    ASSUME taken \in Nat
    PROVE  Ring \in Seq(Nat) /\ Rising(Ring) /\ Len(Ring) <= SampleLimit /\ \A x \in In(Ring) : x <= taken
<1>. DEFINE s == [i \in 1 .. taken |-> i]
<1>1. s \in Seq(Nat) /\ Rising(s) /\ \A x \in In(s) : x <= taken
  BY DEF Rising, In
<1>2. SampleLimit \in Nat \ {0}
  BY DashboardAssumption
<1>. HIDE DEF s
<1>3. LET l == LastOf(s, SampleLimit)
      IN  l \in Seq(Nat) /\ Rising(l) /\ Len(l) <= SampleLimit /\ In(l) \subseteq In(s)
  BY <1>1, <1>2, LastOfProperties, Zenon
<1>4. Ring = LastOf(s, SampleLimit)
  BY DEF Ring, s
<1>. QED  BY <1>1, <1>3, <1>4

\* A message of the newest sample goes behind the others.
LEMMA SentBehind ==
    ASSUME DashboardKept, NEW m \in Updates, m.latest = taken,
           Rising(m.recent), Len(m.recent) <= SampleLimit, \A x \in In(m.recent) : x <= m.latest
    PROVE  LET d == Append(downward, m)
           IN  /\ d \in Seq(Updates) /\ Len(d) = Len(downward) + 1 /\ Len(downward) \in Nat
               /\ DOMAIN downward = 1 .. Len(downward) /\ DOMAIN d = 1 .. Len(downward) + 1
               /\ \A j \in 1 .. Len(downward) : d[j] = downward[j]
               /\ d[Len(downward) + 1] = m
               /\ ShownInTurn(board.samples, d, taken) /\ SentInTurn(d, taken)
<1>. DEFINE d == Append(downward, m)
            n == Len(downward)
<1>1. downward \in Seq(Updates) /\ n \in Nat /\ DOMAIN downward = 1 .. n /\ taken \in Nat
  BY LenProperties DEF DashboardKept, BoardTypes
<1>2. d \in Seq(Updates) /\ Len(d) = n + 1 /\ (\A j \in 1 .. n : d[j] = downward[j]) /\ d[n + 1] = m
  BY <1>1, AppendProperties
<1>. HIDE DEF d, n
<1>3. DOMAIN d = 1 .. n + 1
  BY <1>2, LenProperties
<1>4. \A j \in DOMAIN d : (j \in DOMAIN downward /\ d[j] = downward[j]) \/ (j = n + 1 /\ d[j] = m)
  BY <1>1, <1>2, <1>3
<1>5. ShownInTurn(board.samples, d, taken)
  BY <1>4 DEF DashboardKept, InTurn, ShownInTurn
<1>6. SentInTurn(d, taken)
  <2>1. \A j \in DOMAIN d : /\ d[j].latest <= taken
                            /\ Rising(d[j].recent) /\ Len(d[j].recent) <= SampleLimit
                            /\ \A x \in In(d[j].recent) : x <= d[j].latest
    BY <1>1, <1>4 DEF DashboardKept, InTurn, SentInTurn
  <2>2. ASSUME NEW i \in DOMAIN d, NEW j \in DOMAIN d, i < j PROVE d[i].latest <= d[j].latest
    <3>1. i \in DOMAIN downward /\ d[i] = downward[i]
      BY <1>1, <1>3, <1>4, <2>2
    <3>2. CASE j = n + 1
      BY <1>2, <2>1, <3>2
    <3>3. CASE j # n + 1
      BY <1>4, <2>2, <3>1, <3>3 DEF DashboardKept, InTurn, SentInTurn
    <3>. QED  BY <3>2, <3>3
  <2>. QED  BY <2>1, <2>2 DEF SentInTurn
<1>. QED  BY <1>1, <1>2, <1>3, <1>5, <1>6 DEF d, n

LEMMA ReceiveKeeps == ASSUME DashboardKept, ReceiveStats PROVE DashboardKept'
<1>1. upward \in Seq(Signals) /\ upward # << >> /\ wire.up /\ wire.id \in known /\ taken \in Nat /\ wire \in [up: BOOLEAN, id: Nat, buffer: Seq(Signals)]
  BY DEF DashboardKept, BoardTypes, LinkKnown, ReceiveStats
<1>2. /\ upward' = Tail(upward) /\ UNCHANGED <<board, wire, known, taken>>
  BY DEF ReceiveStats
<1>3. /\ upward' \in Seq(Signals) /\ Head(upward) = upward[1] /\ Head(upward) \in Signals
      /\ upward' = << >> => Head(upward) = upward[Len(upward)]
      /\ upward' # << >> => upward'[Len(upward')] = upward[Len(upward)]
  <2>1. /\ Head(upward) \in Signals /\ Tail(upward) \in Seq(Signals) /\ Len(Tail(upward)) = Len(upward) - 1
        /\ \A i \in 1 .. Len(Tail(upward)) : Tail(upward)[i] = upward[i + 1]
    BY <1>1, HeadTailProperties
  <2>2. Len(upward) \in Nat /\ Len(Tail(upward)) \in Nat /\ Head(upward) = upward[1]
    BY <1>1, <2>1, LenProperties
  <2>3. Tail(upward) = << >> => Len(upward) = 1
    BY <2>1, <2>2, NoList
  <2>4. Tail(upward) # << >> => Len(Tail(upward)) \in 1 .. Len(Tail(upward))
    BY <2>1, <2>2, EmptySeq
  <2>5. Tail(upward) # << >> => Tail(upward)[Len(Tail(upward))] = upward[Len(upward)]
    BY <2>1, <2>2, <2>4
  <2>. QED  BY <1>2, <2>1, <2>2, <2>3, <2>5
<1>4. Wanted' = Wanted
  BY <1>2 DEF Wanted
<1>5. upward[Len(upward)] = "subscribe" <=> Wanted
  BY <1>1 DEF DashboardKept, LastWord
<1>6. CASE Head(upward) = "subscribe"
  <2>. DEFINE m == [full |-> TRUE, latest |-> taken, recent |-> Ring]
  <2>1. downward' = Append(downward, m) /\ watching' = watching \cup {wire.id} /\ told' = In(Ring)
    BY <1>6 DEF ReceiveStats, In
  <2>2. m \in Updates /\ m.latest = taken /\ m.recent = Ring /\ m.full = TRUE /\ Rising(Ring) /\ Len(Ring) <= SampleLimit /\ \A x \in In(Ring) : x <= taken
    BY <1>1, RingProperties DEF Updates
  <2>. HIDE DEF m
  <2>0. PICK n \in Nat \ {0} : n = Len(downward) + 1
    BY LenProperties DEF DashboardKept, BoardTypes
  <2>3. /\ downward' \in Seq(Updates) /\ Len(downward) \in Nat /\ DOMAIN downward' = 1 .. n /\ downward'[n] = m
        /\ ShownInTurn(board.samples, downward', taken) /\ SentInTurn(downward', taken)
    BY <2>1, <2>0, <2>2, SentBehind
  <2>4. told' \in SUBSET Nat
    BY <1>1, <2>1, RingProperties, ElementOfSeq, LenProperties DEF In
  <2>5. BoardTypes' /\ LinkKnown'
    BY <1>1, <1>2, <1>3, <2>1, <2>3, <2>4 DEF DashboardKept, BoardTypes, LinkKnown
  <2>6. LastWord'
    BY <1>1, <1>2, <1>3, <1>4, <1>5, <1>6, <2>1 DEF LastWord
  <2>7. InTurn'
    BY <1>2, <2>1, <2>2, <2>3 DEF InTurn
  <2>8. Answering(n, downward)'
    <3>1. n \in DOMAIN downward' /\ \A j \in DOMAIN downward' : ~(j > n)
      BY <2>3
    <3>2. {downward'[j].latest : j \in {j \in DOMAIN downward' : j > n}} = {}
      BY <3>1
    <3>3. told' = In(downward'[n].recent) \cup {downward'[j].latest : j \in {j \in DOMAIN downward' : j > n}}
      BY <2>1, <2>2, <2>3, <3>2
    <3>. QED  BY <2>2, <2>3, <3>1, <3>3 DEF Answering
  <2>9. Fed'
    <3>1. n \in DOMAIN downward'
      BY <2>3
    <3>. QED  BY <2>8, <3>1 DEF Fed
  <2>. QED  BY <2>5, <2>6, <2>7, <2>9 DEF DashboardKept
<1>7. CASE Head(upward) # "subscribe"
  <2>1. watching' = watching \ {wire.id} /\ UNCHANGED <<downward, told>>
    BY <1>7 DEF ReceiveStats
  <2>2. BoardTypes' /\ LinkKnown'
    BY <1>1, <1>2, <1>3, <2>1 DEF DashboardKept, BoardTypes, LinkKnown
  <2>3. LastWord'
    BY <1>1, <1>2, <1>3, <1>4, <1>5, <1>7, <2>1 DEF LastWord
  <2>4. InTurn'
    BY <1>2, <2>1 DEF DashboardKept, InTurn
  <2>5. Fed'
    BY <1>3, <1>4, <1>5, <1>7 DEF Fed
  <2>. QED  BY <2>2, <2>3, <2>4, <2>5 DEF DashboardKept
<1>. QED  BY <1>6, <1>7

LEMMA BroadcastKeeps == ASSUME DashboardKept, BroadcastStats PROVE DashboardKept'
<1>. DEFINE m == [full |-> FALSE, latest |-> taken, recent |-> << >>]
            n == Len(downward) + 1
<1>1. /\ downward' = Append(downward, m) /\ told' = told \cup {taken} /\ wire.up
      /\ UNCHANGED <<board, wire, upward, watching, known, taken>>
  BY DEF BroadcastStats
<1>2. taken \in Nat /\ told \in SUBSET Nat
  BY DEF DashboardKept, BoardTypes
<1>3. m \in Updates /\ m.latest = taken /\ m.recent = << >> /\ m.full = FALSE
  BY <1>2, NoList DEF Updates
<1>4. Rising(<< >>) /\ In(<< >>) = {} /\ Len(<< >>) <= SampleLimit
  BY NoList, DashboardAssumption DEF Rising, In
<1>. HIDE DEF m
<1>5. /\ downward' \in Seq(Updates) /\ Len(downward) \in Nat /\ DOMAIN downward' = 1 .. n /\ downward'[n] = m
      /\ DOMAIN downward = 1 .. Len(downward) /\ \A j \in DOMAIN downward : downward'[j] = downward[j]
      /\ ShownInTurn(board.samples, downward', taken) /\ SentInTurn(downward', taken)
  BY <1>1, <1>3, <1>4, SentBehind
<1>6. \A j \in DOMAIN downward' : (j \in DOMAIN downward /\ downward'[j] = downward[j]) \/ (j = n /\ downward'[j] = m)
  BY <1>5
<1>7. n \in DOMAIN downward' /\ \A j \in DOMAIN downward : j \in DOMAIN downward' /\ n > j
  BY <1>5
<1>. HIDE DEF n
<1>8. BoardTypes' /\ LinkKnown'
  BY <1>1, <1>2, <1>5 DEF DashboardKept, BoardTypes, LinkKnown
<1>9. LastWord' /\ Wanted' = Wanted
  BY <1>1 DEF DashboardKept, LastWord, Wanted
<1>10. InTurn'
  BY <1>1, <1>2, <1>5 DEF DashboardKept, InTurn
<1>11. ASSUME NEW k \in DOMAIN downward, Answering(k, downward) PROVE Answering(k, downward)'
  <2>1. downward'[k].full /\ \A j \in DOMAIN downward' : j > k => ~downward'[j].full
    BY <1>3, <1>5, <1>6, <1>11 DEF Answering
  <2>2. {downward'[j].latest : j \in {j \in DOMAIN downward' : j > k}}
          = {downward[j].latest : j \in {j \in DOMAIN downward : j > k}} \cup {taken}
    BY <1>3, <1>5, <1>6, <1>7, <1>11
  <2>3. told' = In(downward'[k].recent) \cup {downward'[j].latest : j \in {j \in DOMAIN downward' : j > k}}
    BY <1>1, <1>5, <1>11, <2>2 DEF Answering
  <2>. QED  BY <2>1, <2>3 DEF Answering
<1>12. ASSUME Served(board.samples, downward) PROVE Served(board.samples, downward)'
  <2>1. OnWay(downward') = OnWay(downward) \cup {taken}
    BY <1>3, <1>5, <1>6, <1>7 DEF OnWay
  <2>2. \A x \in told : x <= taken
    BY DEF DashboardKept, InTurn
  <2>. QED  BY <1>1, <1>12, <2>1, <2>2 DEF Served
<1>13. Fed'
  <2>1. SUFFICES ASSUME Wanted, upward = << >> PROVE Fed'
    BY <1>1, <1>9 DEF Fed
  <2>2. CASE \E k \in DOMAIN downward : Answering(k, downward)
    BY <1>7, <1>11, <2>2 DEF Fed
  <2>3. CASE (\A j \in DOMAIN downward : ~downward[j].full) /\ Served(board.samples, downward)
    <3>1. \A j \in DOMAIN downward' : ~downward'[j].full
      BY <1>3, <1>6, <2>3
    <3>. QED  BY <1>12, <2>3, <3>1 DEF Fed
  <2>. QED  BY <1>1, <2>1, <2>2, <2>3 DEF DashboardKept, Fed
<1>. QED  BY <1>8, <1>9, <1>10, <1>13 DEF DashboardKept

LEMMA UpdateKeeps == ASSUME DashboardKept, UpdateComes PROVE DashboardKept'
<1>. DEFINE u == downward[1]
<1>1. downward \in Seq(Updates) /\ downward # << >> /\ board \in [open: BOOLEAN, view: {"realtime", "history"}, hidden: BOOLEAN, samples: Seq(Nat)]
      /\ told \in SUBSET Nat
  BY DEF DashboardKept, BoardTypes, UpdateComes
<1>2. /\ downward' = Tail(downward) /\ UNCHANGED <<wire, upward, watching, known, taken, told>>
      /\ board' = IF board.open THEN [board EXCEPT !.samples = Updated(board.samples, u)] ELSE board
  <2>1. Head(downward) = u
    BY <1>1
  <2>. QED  BY <2>1 DEF UpdateComes
<1>3. /\ downward' \in Seq(Updates) /\ DOMAIN downward = 1 .. Len(downward) /\ Len(downward) \in Nat \ {0}
      /\ DOMAIN downward' = 1 .. Len(downward) - 1
      /\ \A j \in DOMAIN downward' : j + 1 \in DOMAIN downward /\ downward'[j] = downward[j + 1]
      /\ \A j \in DOMAIN downward : j = 1 \/ j - 1 \in DOMAIN downward'
      /\ 1 \in DOMAIN downward /\ u \in Updates
  <2>1. /\ downward' \in Seq(Updates) /\ Len(downward') = Len(downward) - 1
        /\ \A i \in 1 .. Len(downward') : downward'[i] = downward[i + 1]
    BY <1>1, <1>2, HeadTailProperties
  <2>2. Len(downward) \in Nat \ {0} /\ DOMAIN downward = 1 .. Len(downward) /\ DOMAIN downward' = 1 .. Len(downward')
    BY <1>1, <2>1, LenProperties, EmptySeq
  <2>3. u \in Updates
    BY <1>1, <2>2, ElementOfSeq
  <2>. QED  BY <2>1, <2>2, <2>3
<1>4. u.latest \in Nat /\ u.recent \in Seq(Nat) /\ u.full \in BOOLEAN
  BY <1>3 DEF Updates
<1>5. \A j \in DOMAIN downward : downward[j].latest \in Nat /\ downward[j].full \in BOOLEAN
  <2>1. \A j \in DOMAIN downward : downward[j] \in Updates
    BY <1>1, <1>3, ElementOfSeq
  <2>. QED  BY <2>1 DEF Updates
<1>6. /\ Rising(u.recent) /\ Len(u.recent) <= SampleLimit /\ \A x \in In(u.recent) : x <= u.latest
      /\ u.latest <= taken /\ \A j \in DOMAIN downward' : u.latest <= downward'[j].latest
  <2>1. \A j \in DOMAIN downward' : 1 < j + 1
    BY <1>3
  <2>. QED  BY <1>3, <2>1 DEF DashboardKept, InTurn, SentInTurn
<1>7. /\ board.samples \in Seq(Nat) /\ Rising(board.samples) /\ Len(board.samples) <= SampleLimit
      /\ \A x \in In(board.samples) : x <= u.latest /\ x <= taken /\ \A j \in DOMAIN downward' : x <= downward'[j].latest
  BY <1>1, <1>3 DEF DashboardKept, InTurn, ShownInTurn
<1>8. \A x \in In(board.samples) \cup In(u.recent) : x \in Nat
  BY <1>4, <1>7, ElementOfSeq, LenProperties DEF In
<1>9. \A j \in DOMAIN downward : j = 1 \/ (j - 1 \in DOMAIN downward' /\ downward'[j - 1] = downward[j])
  BY <1>3
<1>10. OnWay(downward) = OnWay(downward') \cup {u.latest}
  <2>1. \A j \in DOMAIN downward' : downward'[j].latest \in OnWay(downward)
    BY <1>3 DEF OnWay
  <2>2. \A j \in DOMAIN downward : downward[j].latest \in OnWay(downward') \cup {u.latest}
    BY <1>9 DEF OnWay
  <2>3. u.latest \in OnWay(downward)
    BY <1>3 DEF OnWay
  <2>. QED  BY <2>1, <2>2, <2>3 DEF OnWay
<1>11. \A y \in OnWay(downward') : u.latest <= y /\ y \in Nat
  BY <1>3, <1>5, <1>6 DEF OnWay
<1>. HIDE DEF u
\* What answers the subscription is still on its way.
<1>12. ASSUME NEW k \in DOMAIN downward, k # 1, Answering(k, downward)
       PROVE  k - 1 \in DOMAIN downward' /\ Answering(k - 1, downward')
  <2>1. k - 1 \in DOMAIN downward' /\ downward'[k - 1] = downward[k] /\ k \in Int
    BY <1>3, <1>9, <1>12
  <2>2. \A j \in DOMAIN downward' : j > k - 1 => j + 1 > k /\ j + 1 \in DOMAIN downward /\ downward'[j] = downward[j + 1]
    BY <1>3, <2>1
  <2>3. \A j \in DOMAIN downward : j > k => j - 1 > k - 1 /\ j - 1 \in DOMAIN downward' /\ downward'[j - 1] = downward[j]
    BY <1>3, <1>9, <2>1
  <2>4. {downward'[j].latest : j \in {j \in DOMAIN downward' : j > k - 1}}
          = {downward[j].latest : j \in {j \in DOMAIN downward : j > k}}
    BY <2>2, <2>3
  <2>5. downward'[k - 1].full /\ \A j \in DOMAIN downward' : j > k - 1 => ~downward'[j].full
    BY <1>12, <2>1, <2>2 DEF Answering
  <2>6. told = In(downward'[k - 1].recent) \cup {downward'[j].latest : j \in {j \in DOMAIN downward' : j > k - 1}}
    BY <1>12, <2>1, <2>4 DEF Answering
  <2>. QED  BY <2>1, <2>5, <2>6 DEF Answering
\* It is what comes.
<1>13. ASSUME Answering(1, downward) PROVE (\A j \in DOMAIN downward' : ~downward'[j].full) /\ u.full /\ told = In(u.recent) \cup OnWay(downward')
  <2>1. \A j \in DOMAIN downward' : j + 1 > 1 /\ j + 1 \in DOMAIN downward /\ downward'[j] = downward[j + 1]
    BY <1>3
  <2>2. \A j \in DOMAIN downward : j > 1 => j - 1 \in DOMAIN downward' /\ downward'[j - 1] = downward[j]
    BY <1>9
  <2>3. {downward[j].latest : j \in {j \in DOMAIN downward : j > 1}} = OnWay(downward')
    BY <2>1, <2>2 DEF OnWay
  <2>. QED  BY <1>13, <2>1, <2>3 DEF Answering, u
<1>14. ASSUME NEW s \in Seq(Nat), board' = [board EXCEPT !.samples = s] \/ (board' = board /\ s = board.samples),
              ShownInTurn(s, downward', taken),
              Wanted /\ Answering(1, downward) => Served(s, downward'),
              Wanted /\ (\A j \in DOMAIN downward : ~downward[j].full) /\ Served(board.samples, downward) => Served(s, downward')
       PROVE  DashboardKept'
  <2>1. /\ board' \in [open: BOOLEAN, view: {"realtime", "history"}, hidden: BOOLEAN, samples: Seq(Nat)]
        /\ board'.samples = s /\ board'.open = board.open /\ board'.view = board.view /\ board'.hidden = board.hidden
    BY <1>1, <1>14
  <2>2. Wanted' = Wanted
    BY <2>1 DEF Wanted
  <2>3. BoardTypes' /\ LinkKnown'
    <3>1. wire.up
      BY <1>1 DEF DashboardKept, LinkKnown
    <3>. QED  BY <1>2, <1>3, <2>1, <3>1 DEF DashboardKept, BoardTypes, LinkKnown
  <2>4. LastWord'
    BY <1>2, <2>2 DEF DashboardKept, LastWord
  <2>5. SentInTurn(downward', taken)
    <3>1. \A i, j \in DOMAIN downward' : i < j => i + 1 < j + 1
      BY <1>3
    <3>. QED  BY <1>3, <3>1 DEF DashboardKept, InTurn, SentInTurn
  <2>6. InTurn'
    BY <1>2, <1>14, <2>1, <2>5 DEF DashboardKept, InTurn
  <2>7. Fed'
    <3>1. SUFFICES ASSUME wire.up, Wanted, upward = << >> PROVE Fed'
      BY <1>2, <2>2 DEF Fed
    <3>2. CASE \E k \in DOMAIN downward : Answering(k, downward)
      <4>1. PICK k \in DOMAIN downward : Answering(k, downward)
        BY <3>2
      <4>2. CASE k # 1
        <5>1. Answering(k - 1, downward)'
          BY <1>2, <1>12, <4>1, <4>2 DEF Answering
        <5>. QED  BY <1>12, <4>1, <4>2, <5>1 DEF Fed
      <4>3. CASE k = 1
        <5>1. Served(s, downward') /\ \A j \in DOMAIN downward' : ~downward'[j].full
          BY <1>13, <1>14, <3>1, <4>1, <4>3
        <5>2. Served(board.samples, downward)'
          BY <1>2, <2>1, <5>1 DEF Served
        <5>. QED  BY <5>1, <5>2 DEF Fed
      <4>. QED  BY <4>2, <4>3
    <3>3. CASE (\A j \in DOMAIN downward : ~downward[j].full) /\ Served(board.samples, downward)
      <4>1. Served(s, downward') /\ \A j \in DOMAIN downward' : ~downward'[j].full
        BY <1>3, <1>14, <3>1, <3>3
      <4>2. Served(board.samples, downward)'
        BY <1>2, <2>1, <4>1 DEF Served
      <4>. QED  BY <4>1, <4>2 DEF Fed
    <3>. QED  BY <3>1, <3>2, <3>3 DEF DashboardKept, Fed
  <2>. QED  BY <2>3, <2>4, <2>6, <2>7 DEF DashboardKept
<1>15. CASE ~board.open
  <2>1. board' = board /\ ~Wanted
    BY <1>2, <1>15 DEF Wanted
  <2>2. ShownInTurn(board.samples, downward', taken)
    BY <1>7 DEF ShownInTurn
  <2>. QED  BY <1>7, <1>14, <2>1, <2>2
<1>16. CASE board.open /\ u.full
  <2>1. Updated(board.samples, u) = u.recent
    BY <1>4, <1>6, <1>16, DashboardAssumption, LenProperties DEF Updated, LastOf
  <2>2. board' = [board EXCEPT !.samples = u.recent]
    BY <1>2, <1>16, <2>1
  <2>3. ShownInTurn(u.recent, downward', taken)
    <3>1. ASSUME NEW x \in In(u.recent) PROVE x <= taken /\ \A j \in DOMAIN downward' : x <= downward'[j].latest
      <4>1. x \in Nat /\ x <= u.latest /\ u.latest <= taken /\ u.latest \in Nat /\ taken \in Nat
        BY <1>4, <1>6, <1>8 DEF DashboardKept, BoardTypes
      <4>2. \A j \in DOMAIN downward' : u.latest <= downward'[j].latest /\ downward'[j].latest \in Nat
        BY <1>3, <1>5, <1>6
      <4>. QED  BY <4>1, <4>2
    <3>. QED  BY <1>6, <3>1 DEF ShownInTurn
  <2>4. ASSUME Answering(1, downward) PROVE Served(u.recent, downward')
    <3>1. told = In(u.recent) \cup OnWay(downward')
      BY <1>13, <2>4
    <3>2. \A x \in told \ OnWay(downward'), y \in OnWay(downward') : x <= y
      BY <1>4, <1>6, <1>8, <1>11, <3>1
    <3>. QED  BY <3>1, <3>2 DEF Served
  <2>5. ~\A j \in DOMAIN downward : ~downward[j].full
    BY <1>3, <1>16 DEF u
  <2>. QED  BY <1>4, <1>14, <2>2, <2>3, <2>4, <2>5
<1>17. CASE board.open /\ ~u.full
  <2>. DEFINE x == u.latest
              old == board.samples
              l == LastOf(Append(Kept(old, Nat \ {x}), x), SampleLimit)
  <2>1. board' = [board EXCEPT !.samples = l]
    BY <1>2, <1>17 DEF Updated
  <2>2. /\ l \in Seq(Nat) /\ Rising(l) /\ Len(l) <= SampleLimit
        /\ In(l) \subseteq In(old) \cup {x} /\ x \in In(l)
        /\ Cardinality(In(l)) = SampleLimit \/ In(l) = In(old) \cup {x}
        /\ Cardinality(In(old)) = SampleLimit => Cardinality(In(l)) = SampleLimit
        /\ \A y \in In(old) \ In(l), z \in In(l) : y < z
    <3>. HIDE DEF x, old
    <3>1. old \in Seq(Nat) /\ Rising(old) /\ Len(old) <= SampleLimit /\ x \in Nat /\ \A y \in In(old) : y <= x
      BY <1>4, <1>7 DEF x, old
    <3>. QED  BY <3>1, UpdatedProperties, Zenon
  <2>. HIDE DEF l
  <2>3. ShownInTurn(l, downward', taken)
    BY <1>6, <1>7, <2>2 DEF ShownInTurn
  <2>4. ~Answering(1, downward)
    BY <1>13, <1>17
  <2>5. ASSUME Served(old, downward) PROVE Served(l, downward')
    <3>1. x \in told /\ In(l) \subseteq told /\ OnWay(downward') \subseteq told
      BY <1>10, <2>2, <2>5 DEF Served
    <3>2. ASSUME NEW y \in told \ (In(l) \cup OnWay(downward')), NEW z \in In(l) PROVE y < z
      <4>1. y # x /\ y \notin OnWay(downward)
        BY <1>10, <2>2, <3>2
      <4>2. CASE y \in In(old)
        BY <2>2, <3>2, <4>2
      <4>3. CASE y \notin In(old)
        <5>1. CASE z = x
          <6>1. y <= x /\ y \in Nat
            BY <1>1, <1>10, <2>5, <3>2, <4>1 DEF Served
          <6>. QED  BY <1>4, <4>1, <5>1, <6>1
        <5>2. CASE z # x
          BY <2>2, <2>5, <3>2, <4>1, <4>3, <5>2 DEF Served
        <5>. QED  BY <5>1, <5>2
      <4>. QED  BY <4>2, <4>3
    <3>3. ASSUME NEW y \in told \ OnWay(downward'), NEW z \in OnWay(downward') PROVE y <= z
      BY <1>10, <1>11, <2>5, <3>3 DEF Served
    <3>4. Cardinality(In(l)) = SampleLimit \/ told \ OnWay(downward') \subseteq In(l)
      <4>1. CASE told \ OnWay(downward) \subseteq In(old)
        BY <1>10, <2>2, <4>1
      <4>. QED  BY <2>2, <2>5, <4>1 DEF Served
    <3>. QED  BY <3>1, <3>2, <3>3, <3>4 DEF Served
  <2>. QED  BY <1>14, <2>1, <2>2, <2>3, <2>4, <2>5
<1>. QED  BY <1>4, <1>15, <1>16, <1>17

LEMMA SampleKeeps == ASSUME DashboardKept, TakeSample PROVE DashboardKept'
<1>1. taken' = taken + 1 /\ UNCHANGED <<board, wire, upward, downward, watching, known, told>> /\ taken \in Nat
  BY DEF DashboardKept, BoardTypes, TakeSample
<1>2. BoardTypes' /\ LinkKnown' /\ LastWord'
  BY <1>1 DEF DashboardKept, BoardTypes, LinkKnown, LastWord, Wanted
<1>3. Fed'
  BY <1>1 DEF DashboardKept, Fed, Wanted, Answering, Served
<1>4. \A x \in Nat : x <= taken => x <= taken'
  BY <1>1
<1>5. ShownInTurn(board.samples, downward, taken')
  <2>1. \A x \in In(board.samples) : x \in Nat
    BY ElementOfSeq, LenProperties DEF DashboardKept, BoardTypes, In
  <2>. QED  BY <1>4, <2>1 DEF DashboardKept, InTurn, ShownInTurn
<1>6. SentInTurn(downward, taken')
  <2>1. \A j \in DOMAIN downward : downward[j] \in Updates
    BY ElementOfSeq, LenProperties DEF DashboardKept, BoardTypes
  <2>2. \A j \in DOMAIN downward : downward[j].latest \in Nat
    BY <2>1 DEF Updates
  <2>. QED  BY <1>4, <2>2 DEF DashboardKept, InTurn, SentInTurn
<1>7. \A x \in told : x <= taken'
  BY <1>4 DEF DashboardKept, BoardTypes, InTurn
<1>8. InTurn'
  BY <1>1, <1>5, <1>6, <1>7 DEF InTurn
<1>. QED  BY <1>2, <1>3, <1>8 DEF DashboardKept

LEMMA LinkKeeps == ASSUME DashboardKept, LoseLink \/ NoticeLoss \/ Reconnect PROVE DashboardKept'
<1>1. CASE LoseLink
  <2>1. /\ wire.up /\ wire' = [wire EXCEPT !.up = FALSE] /\ upward' = << >> /\ downward' = << >>
        /\ UNCHANGED <<board, watching, known, taken, told>>
    BY <1>1 DEF LoseLink
  <2>2. /\ wire' \in [up: BOOLEAN, id: Nat, buffer: Seq(Signals)] /\ ~wire'.up /\ wire'.id = wire.id
        /\ wire'.buffer = wire.buffer /\ wire.buffer = << >>
    BY <2>1 DEF DashboardKept, BoardTypes, LinkKnown
  <2>3. BoardTypes'
    BY <2>1, <2>2, NoList DEF DashboardKept, BoardTypes
  <2>4. LinkKnown'
    BY <2>1, <2>2 DEF DashboardKept, LinkKnown
  <2>5. LastWord' /\ Fed'
    BY <2>1, <2>2 DEF LastWord, Fed
  <2>6. InTurn'
    BY <2>1, NoList DEF DashboardKept, InTurn, ShownInTurn, SentInTurn
  <2>. QED  BY <2>3, <2>4, <2>5, <2>6 DEF DashboardKept
<1>2. CASE NoticeLoss
  <2>1. PICK id \in known : (id = wire.id => ~wire.up) /\ known' = known \ {id} /\ watching' = watching \ {id}
    BY <1>2 DEF NoticeLoss
  <2>2. UNCHANGED <<board, wire, upward, downward, taken, told>>
    BY <1>2 DEF NoticeLoss
  <2>3. BoardTypes' /\ LinkKnown' /\ LastWord'
    BY <2>1, <2>2 DEF DashboardKept, BoardTypes, LinkKnown, LastWord, Wanted
  <2>4. InTurn' /\ Fed'
    BY <2>2 DEF DashboardKept, InTurn, Fed, Wanted, Answering, Served
  <2>. QED  BY <2>3, <2>4 DEF DashboardKept
<1>3. CASE Reconnect
  <2>1. /\ ~wire.up /\ wire' = [up |-> TRUE, id |-> wire.id + 1, buffer |-> << >>] /\ known' = known \cup {wire.id + 1}
        /\ upward' = wire.buffer \o SubscribeOf(board) /\ UNCHANGED <<board, downward, watching, taken, told>>
    BY <1>3 DEF Reconnect
  <2>2. wire \in [up: BOOLEAN, id: Nat, buffer: Seq(Signals)] /\ known \in SUBSET Nat /\ watching \in SUBSET known /\ \A id \in known : id <= wire.id
    BY DEF DashboardKept, BoardTypes, LinkKnown
  <2>3. /\ wire' \in [up: BOOLEAN, id: Nat, buffer: Seq(Signals)] /\ wire'.up /\ wire'.id = wire.id + 1 /\ wire'.buffer = << >>
        /\ wire.id + 1 \notin known /\ \A id \in known' : id <= wire.id + 1
    <3>1. wire.id \in Nat /\ wire.id + 1 \in Nat
      BY <2>2
    <3>2. wire' \in [up: BOOLEAN, id: Nat, buffer: Seq(Signals)]
      BY <2>1, <3>1, NoList
    <3>3. wire'.up /\ wire'.id = wire.id + 1 /\ wire'.buffer = << >>
      BY <2>1
    <3>4. wire.id + 1 \notin known /\ \A id \in known' : id <= wire.id + 1
      BY <2>1, <2>2, <3>1
    <3>. QED  BY <3>2, <3>3, <3>4
  <2>4. SubscribeOf(board) = IF Wanted THEN <<"subscribe">> ELSE << >>
    BY DEF SubscribeOf, Wanted
  <2>5. wire.buffer \in Seq(Signals) /\ wire.buffer \o << >> = wire.buffer
    BY <2>2, ConcatEmptySeq
  <2>6. Wanted => upward' \in Seq(Signals) /\ upward' # << >> /\ upward'[Len(upward')] = "subscribe"
    <3>1. "subscribe" \in Signals
      BY DEF Signals
    <3>. QED  BY <2>1, <2>4, <2>5, <3>1, SaidLast
  <2>7. ~Wanted => upward' = wire.buffer
    BY <2>1, <2>4, <2>5
  <2>8. BoardTypes' /\ LinkKnown'
    BY <2>1, <2>2, <2>3, <2>5, <2>6, <2>7 DEF DashboardKept, BoardTypes, LinkKnown
  <2>9. LastWord' /\ Wanted' = Wanted
    BY <2>1, <2>2, <2>3, <2>6, <2>7 DEF DashboardKept, LastWord, Wanted
  <2>10. InTurn' /\ Fed'
    BY <2>1, <2>6, <2>9 DEF DashboardKept, InTurn, Fed
  <2>. QED  BY <2>8, <2>9, <2>10 DEF DashboardKept
<1>. QED  BY <1>1, <1>2, <1>3

LEMMA DashboardInductive == DashboardKept /\ [DashboardNext]_dashboardVars => DashboardKept'
<1>. SUFFICES ASSUME DashboardKept, [DashboardNext]_dashboardVars PROVE DashboardKept'
  OBVIOUS
<1>1. CASE UNCHANGED dashboardVars
  <2>1. UNCHANGED <<board, wire, upward, downward, watching, known, taken, told>>
    BY <1>1 DEF dashboardVars
  <2>2. BoardTypes' /\ LinkKnown' /\ LastWord'
    BY <2>1 DEF DashboardKept, BoardTypes, LinkKnown, LastWord, Wanted
  <2>3. InTurn' /\ Fed'
    BY <2>1 DEF DashboardKept, InTurn, Fed, Wanted, Answering, Served
  <2>. QED  BY <2>2, <2>3 DEF DashboardKept
<1>. QED
  BY <1>1, UserOfPageDoes, UpdateKeeps, SampleKeeps, ReceiveKeeps, BroadcastKeeps, LinkKeeps DEF DashboardNext

-----------------------------------------------------------------------------
(* Sockets and watchers.  A user has one seat, whose socket is its own and open;  *)
(* what changes the number of those who look at a room tells its whole audience,  *)
(* or leaves those it does not tell in `untold`.                                  *)

Seatings == [Users -> [room: Tables \cup {Aside}, socket: Sockets \cup {Aside}, alive: BOOLEAN]]
OwnSeats(t) ==
    \A u \in Users : t[u].socket # Aside => User[t[u].socket] = u /\ t[u].room # Aside

WatchersTypes ==
    /\ link \in [Sockets -> {"none", "checked", "open"}] /\ counted \in [Origins -> SUBSET Sockets]
    /\ meters \in SUBSET Sockets /\ watches \in [Sockets -> Tables \cup {Aside}]
    /\ placed \in Seatings /\ OwnSeats(placed) /\ live \in SUBSET Tables

CheckedFrom(a) == {s \in Sockets : link[s] = "checked" /\ Address[s] = a}

\* While no two sockets of an address are verified at once, the one that is has room.
LimitsLookedAt ==
    \A a \in Origins :
        /\ IsFiniteSet(counted[a])
        /\ a \notin together => \A s, o \in CheckedFrom(a) : s = o
        /\ a \notin together /\ CheckedFrom(a) # {} => Cardinality(counted[a]) < MaxConnections

WatchersKept == WatchersTypes /\ SocketsCounted /\ LimitsLookedAt /\ CountIsShown

LEMMA SeatedAre ==
    ASSUME NEW t \in Seatings, OwnSeats(t), NEW r
    PROVE  /\ Seated(r, t) \subseteq Sockets
           /\ \A s \in Sockets : s \in Seated(r, t) <=> t[User[s]].room = r /\ t[User[s]].socket = s
<1>1. Seated(r, t) \subseteq Sockets
  BY DEF Seated, Seatings
<1>2. ASSUME NEW s \in Sockets PROVE s \in Seated(r, t) <=> t[User[s]].room = r /\ t[User[s]].socket = s
  <2>1. User[s] \in Users /\ s # Aside
    BY WatchersAssumption DEF Users
  <2>2. ASSUME s \in Seated(r, t) PROVE t[User[s]].room = r /\ t[User[s]].socket = s
    <3>1. PICK u \in Users : t[u].room = r /\ t[u].socket = s
      BY <2>2 DEF Seated
    <3>. QED  BY <2>1, <3>1 DEF OwnSeats
  <2>. QED  BY <2>1, <2>2 DEF Seated
<1>. QED  BY <1>1, <1>2

LEMMA AudienceAre ==
    ASSUME NEW t \in Seatings, OwnSeats(t), NEW r, NEW w
    PROVE  /\ Audience(r, w, t) \subseteq Sockets
           /\ \A s \in Sockets : s \in Audience(r, w, t) <=> w[s] = r \/ (t[User[s]].room = r /\ t[User[s]].socket = s)
BY SeatedAre DEF Audience, Looking

LEMMA ViewingAre ==
    ASSUME NEW t \in Seatings, OwnSeats(t), NEW r, NEW w, NEW on
    PROVE  /\ Viewing(r, w, t, on) \subseteq Sockets
           /\ \A s \in Sockets : s \in Viewing(r, w, t, on) <=>
                 w[s] = r \/ (t[User[s]].room = r /\ t[User[s]].socket = s /\ r \in on /\ ~t[User[s]].alive)
BY SeatedAre DEF Viewing, Looking

\* A room nobody watches, joins or leaves, nor is hit in, is seen as before.
LEMMA SameRoom ==
    ASSUME WatchersTypes, placed' \in Seatings, OwnSeats(placed'), NEW r,
           \A s \in Sockets : watches'[s] = r <=> watches[s] = r,
           \A u \in Users : placed'[u].room = r \/ placed[u].room = r => placed'[u] = placed[u],
           r \in live' <=> r \in live
    PROVE  /\ Audience(r, watches', placed') = Audience(r, watches, placed)
           /\ Viewing(r, watches', placed', live') = Viewing(r, watches, placed, live)
<1>1. placed \in Seatings /\ OwnSeats(placed) /\ \A s \in Sockets : User[s] \in Users
  BY DEF WatchersTypes, Users
<1>2. \A s \in Sockets : s \in Audience(r, watches', placed') <=> s \in Audience(r, watches, placed)
  BY <1>1, AudienceAre
<1>3. \A s \in Sockets : s \in Viewing(r, watches', placed', live') <=> s \in Viewing(r, watches, placed, live)
  BY <1>1, AudienceAre, ViewingAre
<1>4. /\ Audience(r, watches', placed') \subseteq Sockets /\ Audience(r, watches, placed) \subseteq Sockets
      /\ Viewing(r, watches', placed', live') \subseteq Sockets /\ Viewing(r, watches, placed, live) \subseteq Sockets
  BY <1>1, AudienceAre, ViewingAre
<1>5. Audience(r, watches', placed') = Audience(r, watches, placed)
  BY <1>2, <1>4
<1>6. Viewing(r, watches', placed', live') = Viewing(r, watches, placed, live)
  BY <1>3, <1>4
<1>. QED  BY <1>5, <1>6

\* Nor does it matter where those sit whose tank is not out.
LEMMA SameViewers ==
    ASSUME WatchersTypes, placed' \in Seatings, OwnSeats(placed'), live' = live, NEW r,
           \A s \in Sockets : watches'[s] = r <=> watches[s] = r,
           \A v \in Users : placed'[v] = placed[v] \/ (placed[v].alive /\ (placed'[v].room # r \/ placed'[v].alive))
    PROVE  /\ \A s \in Audience(r, watches', placed') :
                 s \in Audience(r, watches, placed) \/ placed'[User[s]] # placed[User[s]]
           /\ Viewing(r, watches', placed', live') = Viewing(r, watches, placed, live)
<1>1. placed \in Seatings /\ OwnSeats(placed) /\ \A s \in Sockets : User[s] \in Users
  BY DEF WatchersTypes, Users
<1>2. \A s \in Sockets : s \in Audience(r, watches', placed') => s \in Audience(r, watches, placed) \/ placed'[User[s]] # placed[User[s]]
  BY <1>1, AudienceAre
<1>3. ASSUME NEW s \in Sockets PROVE s \in Viewing(r, watches', placed', live') <=> s \in Viewing(r, watches, placed, live)
  BY <1>1, ViewingAre
<1>4. /\ Audience(r, watches', placed') \subseteq Sockets
      /\ Viewing(r, watches', placed', live') \subseteq Sockets /\ Viewing(r, watches, placed, live) \subseteq Sockets
  BY <1>1, AudienceAre, ViewingAre
<1>5. Viewing(r, watches', placed', live') = Viewing(r, watches, placed, live)
  BY <1>3, <1>4
<1>. QED  BY <1>2, <1>4, <1>5

\* Whoever sees a room after a step was told, is excused, or knew already.
LEMMA CountKeeps ==
    ASSUME WatchersKept, WatchersTypes', NEW gone, NEW heard,
           \A p \in Sockets \X Tables : p[1] \notin gone =>
               shown'[p] = IF p \in heard THEN Viewers(p[2], watches', placed', live') ELSE shown[p],
           \A r \in live' : \A s \in Audience(r, watches', placed') :
               /\ s \notin gone
               /\ \/ <<s, r>> \in heard \/ <<s, r>> \in untold'
                  \/ /\ r \in live /\ s \in Audience(r, watches, placed)
                     /\ <<s, r>> \in untold => <<s, r>> \in untold'
                     /\ Viewing(r, watches', placed', live') = Viewing(r, watches, placed, live)
    PROVE  CountIsShown'
<1>1. SUFFICES ASSUME NEW r \in live', NEW s \in Audience(r, watches', placed'), <<s, r>> \notin untold'
               PROVE  shown'[<<s, r>>] = Viewers(r, watches', placed', live')
  BY DEF CountIsShown
<1>2. s \in Sockets /\ r \in Tables
  BY AudienceAre DEF WatchersTypes
<1>3. shown'[<<s, r>>] = IF <<s, r>> \in heard THEN Viewers(r, watches', placed', live') ELSE shown[<<s, r>>]
  BY <1>2
<1>4. CASE <<s, r>> \in heard
  BY <1>3, <1>4
<1>5. CASE <<s, r>> \notin heard
  <2>1. /\ r \in live /\ s \in Audience(r, watches, placed) /\ <<s, r>> \notin untold
        /\ Viewing(r, watches', placed', live') = Viewing(r, watches, placed, live)
    BY <1>1, <1>5
  <2>2. shown[<<s, r>>] = Viewers(r, watches, placed, live)
    BY <2>1 DEF WatchersKept, CountIsShown
  <2>. QED  BY <1>3, <1>5, <2>1, <2>2 DEF Viewers
<1>. QED  BY <1>4, <1>5

LEMMA WatchersBegin == WatchersInit => WatchersKept
<1>1. SUFFICES ASSUME WatchersInit PROVE WatchersKept
  OBVIOUS
<1>2. WatchersTypes
  BY <1>1 DEF WatchersInit, WatchersTypes, Seatings, OwnSeats, Absent
<1>3. IsFiniteSet({}) /\ Cardinality({}) = 0
  BY FS_EmptySet
<1>4. SocketsCounted
  BY <1>1, <1>3, WatchersAssumption DEF WatchersInit, SocketsCounted, Absent
<1>5. LimitsLookedAt
  BY <1>1, <1>3 DEF WatchersInit, LimitsLookedAt, CheckedFrom
<1>6. CountIsShown
  BY <1>1 DEF WatchersInit, CountIsShown
<1>. QED  BY <1>2, <1>4, <1>5, <1>6 DEF WatchersKept

\* Nothing is said of a connection.
LEMMA CalmKeeps ==
    ASSUME WatchersKept, Calm, placed' \in Seatings, OwnSeats(placed'),
           \A u \in Users : placed'[u].socket # Aside => link[placed'[u].socket] = "open",
           watches' \in [Sockets -> Tables \cup {Aside}], live' \in SUBSET Tables, CountIsShown'
    PROVE  WatchersKept'
<1>1. UNCHANGED <<link, counted, meters, together>>
  BY DEF Calm
<1>2. WatchersTypes'
  BY <1>1 DEF WatchersKept, WatchersTypes
<1>3. SocketsCounted' /\ LimitsLookedAt'
  BY <1>1 DEF WatchersKept, SocketsCounted, LimitsLookedAt, CheckedFrom
<1>. QED  BY <1>2, <1>3 DEF WatchersKept

LEMMA HeardAre ==
    ASSUME NEW rs, NEW w, NEW t, NEW s \in Sockets, NEW r, r # Aside
    PROVE  <<s, r>> \in Hears(rs, w, t) <=> r \in rs /\ s \in Audience(r, w, t)
BY DEF Hears

\* A broadcast to rooms, when every other room is seen as before.
LEMMA BroadcastIsHeard ==
    ASSUME WatchersKept, WatchersTypes', NEW rs, Broadcast(rs, watches', placed', live'),
           \A r \in live' \ rs :
               /\ r \in live /\ Audience(r, watches', placed') = Audience(r, watches, placed)
               /\ Viewing(r, watches', placed', live') = Viewing(r, watches, placed, live)
    PROVE  CountIsShown'
<1>. DEFINE heard == Hears(rs, watches', placed')
<1>1. shown' = Told(heard, watches', placed', live') /\ untold' = untold \ heard
  BY DEF Broadcast
<1>2. \A p \in Sockets \X Tables :
         shown'[p] = IF p \in heard THEN Viewers(p[2], watches', placed', live') ELSE shown[p]
  BY <1>1 DEF Told
<1>3. ASSUME NEW r \in live', NEW s \in Audience(r, watches', placed'), <<s, r>> \notin heard
      PROVE  /\ r \in live /\ s \in Audience(r, watches, placed)
             /\ <<s, r>> \in untold => <<s, r>> \in untold'
             /\ Viewing(r, watches', placed', live') = Viewing(r, watches, placed, live)
  <2>1. s \in Sockets /\ r \in Tables /\ r # Aside
    BY AudienceAre, WatchersAssumption DEF WatchersTypes
  <2>2. r \notin rs
    BY <1>3, <2>1, HeardAre
  <2>. HIDE DEF heard
  <2>. QED  BY <1>1, <1>3, <2>2
<1>. DEFINE gone == {}
<1>4. \A p \in Sockets \X Tables : p[1] \notin gone =>
         shown'[p] = IF p \in heard THEN Viewers(p[2], watches', placed', live') ELSE shown[p]
  BY <1>2
<1>5. \A r \in live' : \A s \in Audience(r, watches', placed') :
         /\ s \notin gone
         /\ \/ <<s, r>> \in heard \/ <<s, r>> \in untold'
            \/ /\ r \in live /\ s \in Audience(r, watches, placed)
               /\ <<s, r>> \in untold => <<s, r>> \in untold'
               /\ Viewing(r, watches', placed', live') = Viewing(r, watches, placed, live)
  BY <1>3
<1>. HIDE DEF heard, gone
<1>. QED  BY <1>4, <1>5, CountKeeps

LEMMA RoundKeeps ==
    ASSUME WatchersKept, NEW r \in Tables, StartRound(r) \/ (\E released \in BOOLEAN : EndRound(r, released))
    PROVE  WatchersKept'
<1>1. /\ placed \in Seatings /\ OwnSeats(placed) /\ live \in SUBSET Tables /\ watches \in [Sockets -> Tables \cup {Aside}]
      /\ \A u \in Users : placed[u].socket # Aside => link[placed[u].socket] = "open"
      /\ r # Aside /\ WatchersTypes
  BY WatchersAssumption DEF WatchersKept, WatchersTypes, SocketsCounted
<1>2. CASE StartRound(r)
  <2>. DEFINE heard == Seated(r, placed) \X {r}
              gone  == {}
  <2>1. /\ live' = live \cup {r} /\ watches' = watches /\ Calm
        /\ placed' = [u \in Users |-> IF placed[u].room = r THEN [placed[u] EXCEPT !.alive = TRUE] ELSE placed[u]]
        /\ shown' = Told(heard, watches, placed', live')
        /\ untold' = (untold \cup (Looking(r, watches) \X {r})) \ heard
    BY <1>2 DEF StartRound
  <2>2. \A u \in Users : /\ placed'[u].room = placed[u].room /\ placed'[u].socket = placed[u].socket
                         /\ placed'[u] \in [room: Tables \cup {Aside}, socket: Sockets \cup {Aside}, alive: BOOLEAN]
                         /\ placed[u].room # r => placed'[u] = placed[u]
    BY <1>1, <2>1 DEF Seatings
  <2>3. placed' \in Seatings /\ OwnSeats(placed')
    BY <1>1, <2>1, <2>2 DEF Seatings, OwnSeats
  <2>4. WatchersTypes'
    BY <1>1, <2>1, <2>3 DEF WatchersTypes, Calm
  <2>5. \A p \in Sockets \X Tables : p[1] \notin gone =>
           shown'[p] = IF p \in heard THEN Viewers(p[2], watches', placed', live') ELSE shown[p]
    BY <2>1 DEF Told
  <2>6. ASSUME NEW q \in live', NEW s \in Audience(q, watches', placed'), <<s, q>> \notin heard, <<s, q>> \notin untold'
        PROVE  /\ q \in live /\ s \in Audience(q, watches, placed)
               /\ <<s, q>> \in untold => <<s, q>> \in untold'
               /\ Viewing(q, watches', placed', live') = Viewing(q, watches, placed, live)
    <3>1. CASE q = r
      <4>1. s \in Looking(r, watches)
        <5>1. Seated(r, placed') = Seated(r, placed)
          BY <2>2 DEF Seated
        <5>. QED  BY <2>1, <2>6, <3>1, <5>1 DEF Audience
      <4>. QED  BY <2>1, <2>6, <3>1, <4>1
    <3>2. CASE q # r
      <4>1. Audience(q, watches', placed') = Audience(q, watches, placed)
            /\ Viewing(q, watches', placed', live') = Viewing(q, watches, placed, live)
        BY <1>1, <2>1, <2>2, <2>3, <3>2, SameRoom
      <4>. QED  BY <2>1, <2>6, <3>2, <4>1
    <3>. QED  BY <3>1, <3>2
  <2>. HIDE DEF heard, gone
  <2>7. CountIsShown'
    <3>1. \A s : s \notin gone
      BY DEF gone
    <3>. QED  BY <2>4, <2>5, <2>6, <3>1, CountKeeps
  <2>8. \A u \in Users : placed'[u].socket # Aside => link[placed'[u].socket] = "open"
    BY <1>1, <2>2
  <2>. QED  BY <1>1, <2>1, <2>3, <2>7, <2>8, CalmKeeps
<1>3. ASSUME NEW released \in BOOLEAN, EndRound(r, released) PROVE WatchersKept'
  <2>1. /\ live' = live \ {r} /\ UNCHANGED <<watches, shown, untold>> /\ Calm
        /\ placed' = [u \in Users |-> IF released /\ placed[u].room = r THEN Absent ELSE placed[u]]
    BY <1>3 DEF EndRound
  <2>2. \A u \in Users : placed'[u] = placed[u] \/ (placed[u].room = r /\ placed'[u] = Absent)
    BY <2>1
  <2>3. placed' \in Seatings /\ OwnSeats(placed')
    BY <1>1, <2>1, <2>2 DEF Seatings, OwnSeats, Absent
  <2>4. ASSUME NEW q \in live' PROVE /\ q \in live /\ Audience(q, watches', placed') = Audience(q, watches, placed)
                                     /\ Viewing(q, watches', placed', live') = Viewing(q, watches, placed, live)
    <3>1. q # r /\ q # Aside /\ q \in live
      BY <1>1, <2>1, WatchersAssumption
    <3>2. \A u \in Users : placed'[u].room = q \/ placed[u].room = q => placed'[u] = placed[u]
      BY <2>2, <3>1 DEF Absent
    <3>. QED  BY <1>1, <2>1, <2>3, <3>1, <3>2, SameRoom
  <2>5. CountIsShown'
    BY <2>1, <2>4 DEF WatchersKept, CountIsShown, Viewers
  <2>6. \A u \in Users : placed'[u].socket # Aside => link[placed'[u].socket] = "open"
    BY <1>1, <2>2 DEF Absent
  <2>. QED  BY <1>1, <2>1, <2>3, <2>5, <2>6, CalmKeeps
<1>. QED  BY <1>2, <1>3

LEMMA BroadcastsKeep ==
    ASSUME WatchersKept,
           \/ \E s \in Sockets, r \in Tables : WatchGame(s, r) \/ TakeSeat(s, r)
           \/ \E u \in Users : Eliminated(u)
           \/ \E r \in Tables : Refresh(r)
    PROVE  WatchersKept'
<1>1. /\ placed \in Seatings /\ OwnSeats(placed) /\ live \in SUBSET Tables /\ watches \in [Sockets -> Tables \cup {Aside}]
      /\ \A u \in Users : placed[u].socket # Aside => link[placed[u].socket] = "open"
      /\ WatchersTypes /\ Aside \notin Tables /\ Aside \notin Sockets /\ \A s \in Sockets : User[s] \in Users
  BY WatchersAssumption DEF WatchersKept, WatchersTypes, SocketsCounted, Users
<1>2. ASSUME NEW s \in Sockets, NEW r \in Tables, WatchGame(s, r) PROVE WatchersKept'
  <2>1. /\ watches' = [watches EXCEPT ![s] = r] /\ Broadcast({watches[s], r}, watches', placed', live')
        /\ placed' = placed /\ live' = live /\ Calm
    BY <1>2 DEF WatchGame, Joins
  <2>2. watches' \in [Sockets -> Tables \cup {Aside}] /\ placed' \in Seatings /\ OwnSeats(placed') /\ live' \in SUBSET Tables
    BY <1>1, <2>1
  <2>3. WatchersTypes'
    BY <1>1, <2>1, <2>2 DEF WatchersTypes, Calm
  <2>4. ASSUME NEW q \in live' \ {watches[s], r}
        PROVE  /\ q \in live /\ Audience(q, watches', placed') = Audience(q, watches, placed)
               /\ Viewing(q, watches', placed', live') = Viewing(q, watches, placed, live)
    <3>1. \A o \in Sockets : watches'[o] = q <=> watches[o] = q
      BY <1>1, <2>1, <2>4
    <3>. QED  BY <1>1, <2>1, <2>2, <3>1, SameRoom
  <2>5. CountIsShown'
    BY <2>1, <2>3, <2>4, BroadcastIsHeard
  <2>. QED  BY <1>1, <2>1, <2>2, <2>5, CalmKeeps
<1>3. ASSUME NEW s \in Sockets, NEW r \in Tables, TakeSeat(s, r) PROVE WatchersKept'
  <2>. DEFINE u == User[s]
  <2>1. /\ link[s] = "open" /\ placed[u].room = Aside /\ r \notin live /\ u \in Users
        /\ watches' = [watches EXCEPT ![s] = Aside]
        /\ placed' = [placed EXCEPT ![u] = [room |-> r, socket |-> s, alive |-> TRUE]]
        /\ Broadcast({watches[s]}, watches', placed', live') /\ live' = live /\ Calm
    BY <1>1, <1>3 DEF TakeSeat
  <2>2. watches' \in [Sockets -> Tables \cup {Aside}] /\ live' \in SUBSET Tables
    BY <1>1, <2>1
  <2>3. placed' \in Seatings /\ (\A v \in Users \ {u} : placed'[v] = placed[v]) /\ placed'[u] = [room |-> r, socket |-> s, alive |-> TRUE]
    BY <1>1, <2>1 DEF Seatings
  <2>4. OwnSeats(placed') /\ \A v \in Users : placed'[v].socket # Aside => link[placed'[v].socket] = "open"
    BY <1>1, <2>1, <2>3 DEF OwnSeats
  <2>5. WatchersTypes'
    BY <1>1, <2>1, <2>2, <2>3, <2>4 DEF WatchersTypes, Calm
  <2>6. ASSUME NEW q \in live' \ {watches[s]}
        PROVE  /\ q \in live /\ Audience(q, watches', placed') = Audience(q, watches, placed)
               /\ Viewing(q, watches', placed', live') = Viewing(q, watches, placed, live)
    <3>1. (\A o \in Sockets : watches'[o] = q <=> watches[o] = q) /\ q # Aside /\ q # r
      BY <1>1, <2>1, <2>6
    <3>2. \A v \in Users : placed'[v].room = q \/ placed[v].room = q => placed'[v] = placed[v]
      BY <2>1, <2>3, <3>1
    <3>. QED  BY <1>1, <2>1, <2>3, <2>4, <3>1, <3>2, SameRoom
  <2>7. CountIsShown'
    BY <2>1, <2>5, <2>6, BroadcastIsHeard
  <2>. QED  BY <2>1, <2>2, <2>3, <2>4, <2>7, CalmKeeps
<1>4. ASSUME NEW u \in Users, Eliminated(u) PROVE WatchersKept'
  <2>. DEFINE r == placed[u].room
  <2>1. /\ r \in live /\ placed' = [placed EXCEPT ![u].alive = FALSE]
        /\ Broadcast({r}, watches', placed', live') /\ live' = live /\ watches' = watches /\ Calm
    BY <1>4 DEF Eliminated
  <2>2. /\ placed' \in Seatings /\ (\A v \in Users \ {u} : placed'[v] = placed[v])
        /\ \A v \in Users : placed'[v].room = placed[v].room /\ placed'[v].socket = placed[v].socket
    BY <1>1, <2>1 DEF Seatings
  <2>3. OwnSeats(placed') /\ \A v \in Users : placed'[v].socket # Aside => link[placed'[v].socket] = "open"
    BY <1>1, <2>2 DEF OwnSeats
  <2>4. WatchersTypes'
    BY <1>1, <2>1, <2>2, <2>3 DEF WatchersTypes, Calm
  <2>5. ASSUME NEW q \in live' \ {r}
        PROVE  /\ q \in live /\ Audience(q, watches', placed') = Audience(q, watches, placed)
               /\ Viewing(q, watches', placed', live') = Viewing(q, watches, placed, live)
    <3>1. \A v \in Users : placed'[v].room = q \/ placed[v].room = q => placed'[v] = placed[v]
      BY <2>2, <2>5
    <3>. QED  BY <1>1, <2>1, <2>2, <2>3, <3>1, SameRoom
  <2>6. CountIsShown'
    BY <2>1, <2>4, <2>5, BroadcastIsHeard
  <2>. QED  BY <1>1, <2>1, <2>2, <2>3, <2>6, CalmKeeps
<1>5. ASSUME NEW r \in Tables, Refresh(r) PROVE WatchersKept'
  <2>1. Broadcast({r}, watches', placed', live') /\ UNCHANGED <<watches, placed, live>> /\ Calm
    BY <1>5 DEF Refresh
  <2>2. WatchersTypes'
    BY <1>1, <2>1 DEF WatchersTypes, Calm
  <2>3. CountIsShown'
    BY <2>1, <2>2, BroadcastIsHeard
  <2>. QED  BY <1>1, <2>1, <2>3, CalmKeeps
<1>. QED  BY <1>2, <1>3, <1>4, <1>5

LEMMA LeaveKeeps == ASSUME WatchersKept, NEW u \in Users, LeaveTable(u) PROVE WatchersKept'
<1>. DEFINE r == placed[u].room
            unheard == IF placed[u].alive THEN {} ELSE Audience(r, watches, placed') \X {r}
            gone == {}
            heard == {}
<1>1. /\ placed \in Seatings /\ OwnSeats(placed) /\ live \in SUBSET Tables /\ watches \in [Sockets -> Tables \cup {Aside}]
      /\ \A v \in Users : placed[v].socket # Aside => link[placed[v].socket] = "open"
      /\ WatchersTypes /\ Aside \notin Tables /\ Aside \notin Sockets
  BY WatchersAssumption DEF WatchersKept, WatchersTypes, SocketsCounted
<1>2. /\ r # Aside /\ placed' = [placed EXCEPT ![u] = Absent] /\ untold' = untold \cup unheard
      /\ UNCHANGED <<watches, live, shown>> /\ Calm
  BY DEF LeaveTable
<1>3. placed' \in Seatings /\ (\A v \in Users \ {u} : placed'[v] = placed[v]) /\ placed'[u] = Absent
  BY <1>1, <1>2 DEF Seatings, Absent
<1>4. OwnSeats(placed') /\ \A v \in Users : placed'[v].socket # Aside => link[placed'[v].socket] = "open"
  BY <1>1, <1>3 DEF OwnSeats, Absent
<1>5. WatchersTypes'
  BY <1>1, <1>2, <1>3, <1>4 DEF WatchersTypes, Calm
<1>6. ASSUME NEW q \in live', NEW s \in Audience(q, watches', placed'), <<s, q>> \notin untold'
      PROVE  /\ q \in live /\ s \in Audience(q, watches, placed) /\ <<s, q>> \notin untold
             /\ Viewing(q, watches', placed', live') = Viewing(q, watches, placed, live)
  <2>1. q # Aside /\ q \in live
    BY <1>1, <1>2
  <2>2. CASE q # r
    <3>1. \A v \in Users : placed'[v].room = q \/ placed[v].room = q => placed'[v] = placed[v]
      BY <1>3, <2>1, <2>2 DEF Absent
    <3>2. Audience(q, watches', placed') = Audience(q, watches, placed)
          /\ Viewing(q, watches', placed', live') = Viewing(q, watches, placed, live)
      BY <1>1, <1>2, <1>3, <1>4, <3>1, SameRoom
    <3>. QED  BY <1>2, <1>6, <2>1, <3>2
  <2>3. CASE q = r
    <3>1. placed[u].alive
      BY <1>2, <1>6, <2>3
    <3>2. placed'[u].room # q /\ placed'[u].socket = Aside
      BY <1>3, <2>1 DEF Absent
    <3>3. \A v \in Users : placed'[v] = placed[v] \/ (placed[v].alive /\ (placed'[v].room # q \/ placed'[v].alive))
      BY <1>3, <3>1, <3>2
    <3>4. \A x \in Sockets : watches'[x] = q <=> watches[x] = q
      BY <1>2
    <3>5. /\ s \in Audience(q, watches, placed) \/ placed'[User[s]] # placed[User[s]]
          /\ Viewing(q, watches', placed', live') = Viewing(q, watches, placed, live)
      BY <1>1, <1>2, <1>3, <1>4, <1>6, <3>3, <3>4, SameViewers
    <3>6. s \in Sockets /\ User[s] \in Users
      BY <1>2, <1>3, <1>4, <1>6, AudienceAre DEF Users
    <3>7. watches[s] = q \/ (placed'[User[s]].room = q /\ placed'[User[s]].socket = s)
      <4>1. placed' \in Seatings /\ OwnSeats(placed') /\ s \in Audience(q, watches', placed') /\ watches' = watches
        BY <1>2, <1>3, <1>4, <1>6
      <4>2. s \in Audience(q, watches', placed') <=> watches'[s] = q \/ (placed'[User[s]].room = q /\ placed'[User[s]].socket = s)
        BY <3>6, <4>1, AudienceAre
      <4>. QED  BY <4>1, <4>2
    <3>8. s \in Audience(q, watches, placed)
      <4>1. User[s] # u \/ watches[s] = q
        BY <3>2, <3>7
      <4>. QED  BY <1>1, <1>3, <3>5, <3>6, <3>7, <4>1, AudienceAre
    <3>. QED  BY <1>2, <1>6, <2>1, <3>5, <3>8
  <2>. QED  BY <2>2, <2>3
<1>7. CountIsShown'
  BY <1>2, <1>6 DEF WatchersKept, CountIsShown, Viewers
<1>. QED  BY <1>1, <1>2, <1>3, <1>4, <1>7, CalmKeeps

LEMMA SubscriptionKeeps ==
    ASSUME WatchersKept, NEW s \in Sockets, SubscribeStats(s) \/ UnsubscribeStats(s)
    PROVE  WatchersKept'
<1>1. /\ meters' \subseteq meters \/ (link[s] = "open" /\ meters' = meters \cup {s})
      /\ UNCHANGED <<link, counted, watches, placed, live, shown, due, starts, untold, together>>
  BY DEF SubscribeStats, UnsubscribeStats
<1>2. WatchersTypes' /\ SocketsCounted'
  BY <1>1 DEF WatchersKept, WatchersTypes, SocketsCounted
<1>3. LimitsLookedAt' /\ CountIsShown'
  BY <1>1 DEF WatchersKept, LimitsLookedAt, CheckedFrom, CountIsShown
<1>. QED  BY <1>2, <1>3 DEF WatchersKept

LEMMA ConnectKeeps == ASSUME WatchersKept, NEW s \in Sockets, ConnectSocket(s) PROVE WatchersKept'
<1>. DEFINE a == Address[s]
<1>1. /\ link[s] = "none" /\ Cardinality(counted[a]) < MaxConnections /\ link' = [link EXCEPT ![s] = "checked"]
      /\ together' = IF \E o \in Sockets : link[o] = "checked" /\ Address[o] = a
                     THEN together \cup {a} ELSE together
      /\ UNCHANGED <<counted, meters, watches, placed, live, shown, due, starts, untold>>
  BY DEF ConnectSocket, ConnectionAllowed
<1>2. link \in [Sockets -> {"none", "checked", "open"}] /\ a \in Origins
  BY DEF WatchersKept, WatchersTypes, Origins
<1>3. \A o \in Sockets : o # s => link'[o] = link[o]
  BY <1>1, <1>2
<1>4. link'[s] = "checked" /\ \A o \in Sockets : link'[o] = "open" <=> link[o] = "open"
  BY <1>1, <1>2, <1>3
<1>5. WatchersTypes'
  BY <1>1, <1>2 DEF WatchersKept, WatchersTypes
<1>6. SocketsCounted'
  <2>1. placed \in Seatings
    BY DEF WatchersKept, WatchersTypes
  <2>2. \A u \in Users : placed[u].socket \in Sockets \cup {Aside}
    BY <2>1 DEF Seatings
  <2>. QED  BY <1>1, <1>4, <2>2 DEF WatchersKept, WatchersTypes, SocketsCounted
<1>7. ASSUME NEW b \in Origins, b # a PROVE CheckedFrom(b)' = CheckedFrom(b)
  BY <1>3, <1>7 DEF CheckedFrom
<1>8. a \notin together' => CheckedFrom(a)' = {s}
  <2>1. SUFFICES ASSUME a \notin together' PROVE \A o \in Sockets : o # s => ~(link'[o] = "checked" /\ Address[o] = a)
    BY <1>4 DEF CheckedFrom
  <2>. QED  BY <1>1, <1>3, <2>1
<1>9. LimitsLookedAt'
  <2>1. \A b \in Origins : b \notin together' => b \notin together
    BY <1>1
  <2>2. ASSUME NEW b \in Origins
        PROVE  /\ IsFiniteSet(counted'[b])
               /\ b \notin together' => \A x, y \in CheckedFrom(b)' : x = y
               /\ b \notin together' /\ CheckedFrom(b)' # {} => Cardinality(counted'[b]) < MaxConnections
    <3>1. CASE b = a
      BY <1>1, <1>8, <2>2, <3>1 DEF WatchersKept, LimitsLookedAt
    <3>2. CASE b # a
      BY <1>1, <1>7, <2>1, <2>2, <3>2 DEF WatchersKept, LimitsLookedAt
    <3>. QED  BY <3>1, <3>2
  <2>. QED  BY <2>2 DEF LimitsLookedAt
<1>10. CountIsShown'
  BY <1>1 DEF WatchersKept, CountIsShown
<1>. QED  BY <1>5, <1>6, <1>9, <1>10 DEF WatchersKept

LEMMA TokenKeeps == ASSUME WatchersKept, NEW s \in Sockets, NEW ok \in BOOLEAN, TokenChecked(s, ok) PROVE WatchersKept'
<1>. DEFINE a == Address[s]
<1>1. /\ link[s] = "checked" /\ link' = [link EXCEPT ![s] = IF ok THEN "open" ELSE "none"]
      /\ counted' = IF ok THEN [counted EXCEPT ![a] = counted[a] \cup {s}] ELSE counted
      /\ UNCHANGED <<meters, watches, placed, live, shown, due, starts, untold, together>>
  BY DEF TokenChecked, WithConnection
<1>2. link \in [Sockets -> {"none", "checked", "open"}] /\ a \in Origins /\ counted \in [Origins -> SUBSET Sockets]
  BY DEF WatchersKept, WatchersTypes, Origins
<1>3. \A o \in Sockets : o # s => link'[o] = link[o]
  BY <1>1, <1>2
<1>4. link'[s] = (IF ok THEN "open" ELSE "none") /\ link' \in [Sockets -> {"none", "checked", "open"}]
  BY <1>1, <1>2
<1>5. \A b \in Origins : b # a => counted'[b] = counted[b]
  BY <1>1, <1>2
<1>6. counted'[a] = (IF ok THEN counted[a] \cup {s} ELSE counted[a]) /\ counted' \in [Origins -> SUBSET Sockets]
  BY <1>1, <1>2
<1>7. WatchersTypes'
  BY <1>1, <1>4, <1>6 DEF WatchersKept, WatchersTypes
<1>8. \A b \in Origins : CheckedFrom(b)' \subseteq CheckedFrom(b)
  BY <1>3, <1>4 DEF CheckedFrom
<1>9. a \notin together => CheckedFrom(a)' = {}
  <2>1. s \in CheckedFrom(a)
    BY <1>1 DEF CheckedFrom
  <2>2. a \notin together => \A o \in CheckedFrom(a) : o = s
    BY <1>2, <2>1 DEF WatchersKept, LimitsLookedAt
  <2>3. s \notin CheckedFrom(a)'
    BY <1>4 DEF CheckedFrom
  <2>. QED  BY <1>2, <1>8, <2>2, <2>3
<1>10. IsFiniteSet(counted[a]) /\ IsFiniteSet(counted'[a]) /\ Cardinality(counted[a]) \in Nat
       /\ Cardinality(counted'[a]) \in Nat /\ Cardinality(counted'[a]) <= Cardinality(counted[a]) + 1
  <2>1. IsFiniteSet(counted[a])
    BY <1>2 DEF WatchersKept, LimitsLookedAt
  <2>2. Cardinality(counted[a]) \in Nat
    BY <2>1, FS_CardinalityType
  <2>3. IsFiniteSet(counted[a] \cup {s}) /\ Cardinality(counted[a] \cup {s}) \in Nat
        /\ Cardinality(counted[a] \cup {s}) <= Cardinality(counted[a]) + 1
    BY <2>1, <2>2, FS_AddElement, FS_CardinalityType
  <2>. QED  BY <1>6, <2>1, <2>2, <2>3
<1>11. LimitsLookedAt'
  <2>1. ASSUME NEW b \in Origins
        PROVE  /\ IsFiniteSet(counted'[b])
               /\ b \notin together' => \A x, y \in CheckedFrom(b)' : x = y
               /\ b \notin together' /\ CheckedFrom(b)' # {} => Cardinality(counted'[b]) < MaxConnections
    <3>1. CASE b = a
      BY <1>1, <1>9, <1>10, <3>1
    <3>2. CASE b # a
      BY <1>1, <1>5, <1>8, <2>1, <3>2 DEF WatchersKept, LimitsLookedAt
    <3>. QED  BY <3>1, <3>2
  <2>. QED  BY <2>1 DEF LimitsLookedAt
<1>12. SocketsCounted'
  <2>1. \A b \in Origins : counted'[b] = {o \in Sockets : link'[o] = "open" /\ Address[o] = b}
    <3>1. \A b \in Origins : counted[b] = {o \in Sockets : link[o] = "open" /\ Address[o] = b}
      BY DEF WatchersKept, SocketsCounted
    <3>2. ASSUME NEW b \in Origins, NEW o \in Sockets PROVE o \in counted'[b] <=> link'[o] = "open" /\ Address[o] = b
      <4>1. CASE o = s
        BY <1>1, <1>2, <1>4, <1>5, <1>6, <3>1, <4>1
      <4>2. CASE o # s
        BY <1>3, <1>5, <1>6, <3>1, <4>2
      <4>. QED  BY <4>1, <4>2
    <3>3. \A b \in Origins : counted'[b] \subseteq Sockets
      BY <1>6
    <3>. QED  BY <3>2, <3>3
  <2>2. \A o \in Sockets : link[o] = "open" => link'[o] = "open"
    BY <1>1, <1>3
  <2>3. placed \in Seatings /\ meters \in SUBSET Sockets
    BY DEF WatchersKept, WatchersTypes
  <2>4. \A u \in Users : placed[u].socket \in Sockets \cup {Aside}
    BY <2>3 DEF Seatings
  <2>5. \A b \in Origins : Cardinality(counted'[b]) <= MaxConnections \/ b \in together
    <3>1. ASSUME NEW b \in Origins, b # a PROVE Cardinality(counted'[b]) <= MaxConnections \/ b \in together
      BY <1>5, <3>1 DEF WatchersKept, SocketsCounted
    <3>2. a \in together \/ Cardinality(counted[a]) < MaxConnections
      <4>1. s \in CheckedFrom(a)
        BY <1>1 DEF CheckedFrom
      <4>. QED  BY <1>2, <4>1 DEF WatchersKept, LimitsLookedAt
    <3>3. Cardinality(counted'[a]) <= MaxConnections \/ a \in together
      BY <1>10, <3>2, WatchersAssumption
    <3>. QED  BY <3>1, <3>3
  <2>. QED  BY <1>1, <2>1, <2>2, <2>3, <2>4, <2>5 DEF WatchersKept, SocketsCounted
<1>13. CountIsShown'
  BY <1>1 DEF WatchersKept, CountIsShown
<1>. QED  BY <1>7, <1>11, <1>12, <1>13 DEF WatchersKept

LEMMA ForgottenKeeps ==
    ASSUME WatchersKept, NEW s \in Sockets, link[s] = "open", Forgotten(s), together' = together,
           \A u \in Users : placed'[u].socket # Aside =>
               placed'[u].socket # s /\ placed'[u].socket \in Sockets /\ link[placed'[u].socket] = "open"
    PROVE  /\ SocketsCounted' /\ LimitsLookedAt' /\ link' \in [Sockets -> {"none", "checked", "open"}]
           /\ counted' \in [Origins -> SUBSET Sockets] /\ meters' \in SUBSET Sockets
<1>. DEFINE a == Address[s]
<1>1. /\ link' = [link EXCEPT ![s] = "none"] /\ meters' = meters \ {s}
      /\ counted' = [counted EXCEPT ![a] = counted[a] \ {s}]
  BY DEF Forgotten
<1>2. /\ link \in [Sockets -> {"none", "checked", "open"}] /\ a \in Origins /\ counted \in [Origins -> SUBSET Sockets]
      /\ meters \in SUBSET Sockets
  BY DEF WatchersKept, WatchersTypes, Origins
<1>3. (\A o \in Sockets : o # s => link'[o] = link[o]) /\ link'[s] = "none" /\ link' \in [Sockets -> {"none", "checked", "open"}]
  BY <1>1, <1>2
<1>4. /\ counted' \in [Origins -> SUBSET Sockets] /\ \A b \in Origins : b # a => counted'[b] = counted[b]
      /\ counted'[a] = counted[a] \ {s}
  BY <1>1, <1>2
<1>5. \A b \in Origins : counted[b] = {o \in Sockets : link[o] = "open" /\ Address[o] = b}
  BY DEF WatchersKept, SocketsCounted
<1>6. \A b \in Origins : counted'[b] = {o \in Sockets : link'[o] = "open" /\ Address[o] = b}
  BY <1>3, <1>4, <1>5
<1>7. ASSUME NEW b \in Origins
      PROVE  /\ IsFiniteSet(counted[b]) /\ IsFiniteSet(counted'[b])
             /\ Cardinality(counted'[b]) \in Nat /\ Cardinality(counted[b]) \in Nat
             /\ Cardinality(counted'[b]) <= Cardinality(counted[b])
  <2>1. IsFiniteSet(counted[b]) /\ counted'[b] \subseteq counted[b]
    BY <1>4 DEF WatchersKept, LimitsLookedAt
  <2>. QED  BY <2>1, FS_Subset, FS_CardinalityType
<1>8. \A b \in Origins : CheckedFrom(b)' = CheckedFrom(b)
  BY <1>3 DEF CheckedFrom
<1>9. LimitsLookedAt'
  BY <1>7, <1>8, WatchersAssumption DEF WatchersKept, LimitsLookedAt
<1>10. SocketsCounted'
  <2>1. \A b \in Origins : Cardinality(counted'[b]) <= MaxConnections \/ b \in together'
    BY <1>7, WatchersAssumption DEF WatchersKept, SocketsCounted
  <2>2. \A o \in meters' : link'[o] = "open"
    BY <1>1, <1>2, <1>3 DEF WatchersKept, SocketsCounted
  <2>3. \A u \in Users : placed'[u].socket # Aside => link'[placed'[u].socket] = "open"
    BY <1>3
  <2>. QED  BY <1>6, <2>1, <2>2, <2>3 DEF SocketsCounted
<1>. QED  BY <1>1, <1>2, <1>3, <1>4, <1>9, <1>10

LEMMA DisconnectKeeps == ASSUME WatchersKept, NEW s \in Sockets, DisconnectSocket(s) PROVE WatchersKept'
<1>. DEFINE u == User[s]
            r == placed[u].room
            heard == Hears({watches[s]}, watches', placed')
            unheard == IF placed[u].socket = s /\ ~placed[u].alive THEN Audience(r, watches', placed') \X {r} ELSE {}
            gone == {s}
<1>1. /\ placed \in Seatings /\ OwnSeats(placed) /\ live \in SUBSET Tables /\ watches \in [Sockets -> Tables \cup {Aside}]
      /\ \A v \in Users : placed[v].socket # Aside => link[placed[v].socket] = "open"
      /\ WatchersTypes /\ Aside \notin Tables /\ Aside \notin Sockets /\ u \in Users
  BY WatchersAssumption DEF WatchersKept, WatchersTypes, SocketsCounted, Users
<1>2. /\ link[s] = "open" /\ Forgotten(s) /\ together' = together /\ live' = live
      /\ watches' = [watches EXCEPT ![s] = Aside]
      /\ placed' = IF placed[u].socket = s THEN [placed EXCEPT ![u] = [placed[u] EXCEPT !.socket = Aside]] ELSE placed
      /\ shown' = PagesGone(gone, Told(heard, watches', placed', live'))
      /\ untold' = ((untold \cup unheard) \ heard) \ ({s} \X Tables)
  BY DEF DisconnectSocket
<1>3. /\ placed' \in Seatings /\ (\A v \in Users : v # u => placed'[v] = placed[v])
      /\ placed'[u].room = r /\ placed'[u].alive = placed[u].alive /\ placed'[u].socket # s
      /\ placed'[u].socket = Aside \/ placed'[u] = placed[u]
      /\ placed[u].socket # s => placed' = placed
  <2>1. CASE placed[u].socket = s
    BY <1>1, <1>2, <2>1 DEF Seatings
  <2>2. CASE placed[u].socket # s
    BY <1>1, <1>2, <2>2
  <2>. QED  BY <2>1, <2>2
<1>4. OwnSeats(placed')
  BY <1>1, <1>3 DEF OwnSeats
<1>5. ASSUME NEW v \in Users, placed'[v].socket # Aside
      PROVE  placed'[v].socket # s /\ placed'[v].socket \in Sockets /\ link[placed'[v].socket] = "open"
  <2>1. placed'[v] = placed[v]
    BY <1>3, <1>5
  <2>2. placed'[v].socket \in Sockets
    BY <1>3, <1>5 DEF Seatings
  <2>3. placed'[v].socket # s
    BY <1>3, <1>4, <1>5 DEF OwnSeats
  <2>. QED  BY <1>1, <1>5, <2>1, <2>2, <2>3
<1>6. /\ SocketsCounted' /\ LimitsLookedAt' /\ link' \in [Sockets -> {"none", "checked", "open"}]
      /\ counted' \in [Origins -> SUBSET Sockets] /\ meters' \in SUBSET Sockets
  BY <1>2, <1>5, ForgottenKeeps
<1>7. watches' \in [Sockets -> Tables \cup {Aside}] /\ watches'[s] = Aside /\ \A o \in Sockets : o # s => watches'[o] = watches[o]
  BY <1>1, <1>2
<1>8. WatchersTypes'
  BY <1>1, <1>2, <1>3, <1>4, <1>6, <1>7 DEF WatchersTypes
<1>9. \A p \in Sockets \X Tables : p[1] \notin gone =>
         shown'[p] = IF p \in heard THEN Viewers(p[2], watches', placed', live') ELSE shown[p]
  BY <1>2 DEF PagesGone, Told
<1>10. ASSUME NEW q \in live', NEW o \in Audience(q, watches', placed') PROVE o \in Sockets /\ o # s /\ q \in Tables /\ q # Aside
  <2>. HIDE DEF heard, unheard, gone, r
  <2>1. q \in Tables /\ q # Aside
    BY <1>1, <1>2, <1>10
  <2>2. o \in Sockets
    BY <1>3, <1>4, <1>10, AudienceAre
  <2>3. watches'[o] = q \/ (placed'[User[o]].room = q /\ placed'[User[o]].socket = o)
    BY <1>3, <1>4, <1>10, <2>2, AudienceAre
  <2>. QED  BY <1>3, <1>7, <2>1, <2>2, <2>3
<1>11. ASSUME NEW q \in live', NEW o \in Audience(q, watches', placed'), <<o, q>> \notin heard, <<o, q>> \notin untold'
       PROVE  /\ q \in live /\ o \in Audience(q, watches, placed)
              /\ <<o, q>> \in untold => <<o, q>> \in untold'
              /\ Viewing(q, watches', placed', live') = Viewing(q, watches, placed, live)
  <2>1. q # watches[s]
    BY <1>10, <1>11, HeardAre
  <2>2. \A x \in Sockets : watches'[x] = q <=> watches[x] = q
    BY <1>7, <1>10, <1>11, <2>1
  <2>3. <<o, q>> \in untold => <<o, q>> \in untold'
    BY <1>2, <1>10, <1>11
  <2>4. CASE placed[u].socket # s \/ q # r
    <3>1. \A v \in Users : placed'[v].room = q \/ placed[v].room = q => placed'[v] = placed[v]
      BY <1>3, <2>4
    <3>2. Audience(q, watches', placed') = Audience(q, watches, placed)
          /\ Viewing(q, watches', placed', live') = Viewing(q, watches, placed, live)
      BY <1>1, <1>2, <1>3, <1>4, <2>2, <3>1, SameRoom
    <3>. QED  BY <1>2, <1>11, <2>3, <3>2
  <2>5. CASE placed[u].socket = s /\ q = r
    <3>1. placed[u].alive
      BY <1>2, <1>10, <1>11, <2>5
    <3>2. \A v \in Users : placed'[v] = placed[v] \/ (placed[v].alive /\ (placed'[v].room # q \/ placed'[v].alive))
      BY <1>3, <3>1
    <3>. HIDE DEF heard, unheard, gone
    <3>3. /\ o \in Audience(q, watches, placed) \/ placed'[User[o]] # placed[User[o]]
          /\ Viewing(q, watches', placed', live') = Viewing(q, watches, placed, live)
      BY <1>1, <1>2, <1>3, <1>4, <1>11, <2>2, <3>2, SameViewers
    <3>4. placed'[u].socket = Aside
      BY <1>3, <2>5
    <3>5. o \in Sockets /\ o # Aside /\ User[o] \in Users
      BY <1>1, <1>10, <1>11 DEF Users
    <3>6. o \in Audience(q, watches, placed)
      <4>1. watches[o] = q \/ (placed'[User[o]].room = q /\ placed'[User[o]].socket = o)
        BY <1>3, <1>4, <1>11, <2>2, <3>5, AudienceAre
      <4>2. User[o] # u \/ watches[o] = q
        BY <3>4, <3>5, <4>1
      <4>. QED  BY <1>1, <1>3, <3>3, <3>5, <4>1, <4>2, AudienceAre
    <3>. QED  BY <1>2, <1>11, <2>3, <3>3, <3>6
  <2>. QED  BY <2>4, <2>5
<1>12. CountIsShown'
  <2>1. \A q \in live' : \A o \in Audience(q, watches', placed') : o \notin gone
    BY <1>10
  <2>. HIDE DEF heard, gone
  <2>. QED  BY <1>8, <1>9, <1>11, <2>1, CountKeeps
<1>. QED  BY <1>6, <1>8, <1>12 DEF WatchersKept

LEMMA ReturnKeeps == ASSUME WatchersKept, NEW s \in Sockets, ReturnToSeat(s) PROVE WatchersKept'
<1>. DEFINE u == User[s]
            r == placed[u].room
            old == placed[u].socket
            rooms == {watches[o] : o \in {s, old} \ {Aside}}
            heard == Hears(rooms, watches', placed') \cup (IF r \in live THEN {<<s, r>>} ELSE {})
            unheard == IF placed[u].alive THEN {} ELSE Audience(r, watches', placed') \X {r}
            gone == {old}
<1>1. /\ placed \in Seatings /\ OwnSeats(placed) /\ live \in SUBSET Tables /\ watches \in [Sockets -> Tables \cup {Aside}]
      /\ \A v \in Users : placed[v].socket # Aside => link[placed[v].socket] = "open"
      /\ WatchersTypes /\ Aside \notin Tables /\ Aside \notin Sockets /\ u \in Users
  BY WatchersAssumption DEF WatchersKept, WatchersTypes, SocketsCounted, Users
<1>2. /\ link[s] = "open" /\ r # Aside /\ old # s /\ together' = together /\ live' = live
      /\ watches' = [o \in Sockets |-> IF o \in {s, old} THEN Aside ELSE watches[o]]
      /\ placed' = [placed EXCEPT ![u] = [placed[u] EXCEPT !.socket = s]]
      /\ old = Aside => UNCHANGED <<link, counted, meters>>
      /\ old # Aside => Forgotten(old)
      /\ shown' = PagesGone(gone, Told(heard, watches', placed', live'))
      /\ untold' = ((untold \cup unheard) \ heard) \ ({old} \X Tables)
  BY DEF ReturnToSeat
<1>3. /\ placed' \in Seatings /\ (\A v \in Users : v # u => placed'[v] = placed[v])
      /\ placed'[u].room = r /\ placed'[u].alive = placed[u].alive /\ placed'[u].socket = s
      /\ old \in Sockets \cup {Aside}
  BY <1>1, <1>2 DEF Seatings
<1>4. OwnSeats(placed')
  BY <1>1, <1>2, <1>3 DEF OwnSeats
<1>5. ASSUME NEW v \in Users, placed'[v].socket # Aside
      PROVE  placed'[v].socket # old /\ placed'[v].socket \in Sockets /\ link[placed'[v].socket] = "open"
  <2>1. placed'[v].socket \in Sockets
    BY <1>3, <1>5 DEF Seatings
  <2>2. CASE v = u
    BY <1>2, <1>3, <2>1, <2>2
  <2>3. CASE v # u
    <3>1. placed'[v] = placed[v]
      BY <1>3, <2>3
    <3>2. old = Aside \/ User[old] = u
      BY <1>1 DEF OwnSeats
    <3>3. User[placed[v].socket] = v
      BY <1>1, <1>5, <3>1 DEF OwnSeats
    <3>. QED  BY <1>1, <1>5, <2>1, <2>3, <3>1, <3>2, <3>3
  <2>. QED  BY <2>2, <2>3
<1>6. /\ SocketsCounted' /\ LimitsLookedAt' /\ link' \in [Sockets -> {"none", "checked", "open"}]
      /\ counted' \in [Origins -> SUBSET Sockets] /\ meters' \in SUBSET Sockets
  <2>1. CASE old = Aside
    <3>1. UNCHANGED <<link, counted, meters, together>>
      BY <1>2, <2>1
    <3>2. SocketsCounted' /\ LimitsLookedAt'
      BY <1>5, <3>1 DEF WatchersKept, SocketsCounted, LimitsLookedAt, CheckedFrom
    <3>. QED  BY <3>1, <3>2 DEF WatchersKept, WatchersTypes
  <2>2. CASE old # Aside
    <3>1. old \in Sockets /\ link[old] = "open" /\ Forgotten(old)
      BY <1>1, <1>2, <1>3, <2>2
    <3>. HIDE DEF old
    <3>. QED  BY <1>2, <1>5, <3>1, ForgottenKeeps
  <2>. QED  BY <2>1, <2>2
<1>7. /\ watches' \in [Sockets -> Tables \cup {Aside}]
      /\ \A o \in Sockets : watches'[o] = IF o \in {s, old} THEN Aside ELSE watches[o]
  BY <1>1, <1>2
<1>8. WatchersTypes'
  BY <1>1, <1>2, <1>3, <1>4, <1>6, <1>7 DEF WatchersTypes
<1>9. \A p \in Sockets \X Tables : p[1] \notin gone =>
         shown'[p] = IF p \in heard THEN Viewers(p[2], watches', placed', live') ELSE shown[p]
  BY <1>2 DEF PagesGone, Told
<1>10. ASSUME NEW q \in live', NEW o \in Audience(q, watches', placed') PROVE o \in Sockets /\ o # old /\ q \in Tables /\ q # Aside
  <2>1. o \in Sockets /\ q \in Tables /\ q # Aside
    <3>. HIDE DEF heard, unheard, gone, rooms, old, r, u
    <3>1. q \in Tables /\ q # Aside
      BY <1>1, <1>2, <1>10
    <3>2. o \in Sockets
      BY <1>3, <1>4, <1>10, AudienceAre
    <3>. QED  BY <3>1, <3>2
  <2>2. watches'[o] = q \/ (placed'[User[o]].room = q /\ placed'[User[o]].socket = o)
    BY <1>3, <1>4, <1>10, <2>1, AudienceAre
  <2>3. User[o] \in Users /\ o # Aside
    BY <1>1, <2>1 DEF Users
  <2>. QED  BY <1>5, <1>7, <2>1, <2>2, <2>3
<1>11. ASSUME NEW q \in live', NEW o \in Audience(q, watches', placed'), <<o, q>> \notin heard, <<o, q>> \notin untold'
       PROVE  /\ q \in live /\ o \in Audience(q, watches, placed)
              /\ <<o, q>> \in untold => <<o, q>> \in untold'
              /\ Viewing(q, watches', placed', live') = Viewing(q, watches, placed, live)
  <2>1. q \notin rooms
    <3>1. <<o, q>> \notin Hears(rooms, watches', placed')
      BY <1>11
    <3>. HIDE DEF rooms
    <3>. QED  BY <1>10, <1>11, <3>1, HeardAre
  <2>2. \A x \in Sockets : watches'[x] = q <=> watches[x] = q
    <3>1. \A x \in Sockets : x \in {s, old} => watches[x] # q
      BY <1>1, <2>1
    <3>. QED  BY <1>7, <1>10, <1>11, <3>1
  <2>3. <<o, q>> \in untold => <<o, q>> \in untold'
    <3>. HIDE DEF heard
    <3>. QED  BY <1>2, <1>10, <1>11
  <2>4. CASE q # r
    <3>1. \A v \in Users : placed'[v].room = q \/ placed[v].room = q => placed'[v] = placed[v]
      BY <1>3, <2>4
    <3>2. Audience(q, watches', placed') = Audience(q, watches, placed)
          /\ Viewing(q, watches', placed', live') = Viewing(q, watches, placed, live)
      BY <1>1, <1>2, <1>3, <1>4, <2>2, <3>1, SameRoom
    <3>. QED  BY <1>2, <1>11, <2>3, <3>2
  <2>5. CASE q = r
    <3>1. placed[u].alive
      <4>1. <<o, q>> \notin unheard
        <5>. HIDE DEF heard, unheard
        <5>. QED  BY <1>2, <1>10, <1>11
      <4>. QED  BY <1>11, <2>5, <4>1
    <3>2. o # s
      BY <1>2, <1>11, <2>5
    <3>3. \A v \in Users : placed'[v] = placed[v] \/ (placed[v].alive /\ (placed'[v].room # q \/ placed'[v].alive))
      BY <1>3, <3>1
    <3>. HIDE DEF heard, unheard, gone, rooms, old
    <3>4. /\ o \in Audience(q, watches, placed) \/ placed'[User[o]] # placed[User[o]]
          /\ Viewing(q, watches', placed', live') = Viewing(q, watches, placed, live)
      BY <1>1, <1>2, <1>3, <1>4, <1>11, <2>2, <3>3, SameViewers
    <3>5. o \in Sockets /\ User[o] \in Users
      BY <1>1, <1>10, <1>11 DEF Users
    <3>6. o \in Audience(q, watches, placed)
      <4>1. watches[o] = q \/ (placed'[User[o]].room = q /\ placed'[User[o]].socket = o)
        BY <1>3, <1>4, <1>11, <2>2, <3>5, AudienceAre
      <4>2. User[o] # u \/ watches[o] = q
        BY <1>3, <3>2, <4>1
      <4>. QED  BY <1>1, <1>3, <3>4, <3>5, <4>1, <4>2, AudienceAre
    <3>. QED  BY <1>2, <1>11, <2>3, <3>4, <3>6
  <2>. QED  BY <2>4, <2>5
<1>12. CountIsShown'
  <2>1. \A q \in live' : \A o \in Audience(q, watches', placed') : o \notin gone
    BY <1>10
  <2>. HIDE DEF heard, gone
  <2>. QED  BY <1>8, <1>9, <1>11, <2>1, CountKeeps
<1>. QED  BY <1>6, <1>8, <1>12 DEF WatchersKept

LEMMA WatchersInductive == WatchersKept /\ [WatchersNext]_watchersVars => WatchersKept'
<1>. SUFFICES ASSUME WatchersKept, [WatchersNext]_watchersVars PROVE WatchersKept'
  OBVIOUS
<1>1. CASE UNCHANGED watchersVars
  <2>1. UNCHANGED <<link, counted, meters, watches, placed, live, shown, due, starts, untold, together>>
    BY <1>1 DEF watchersVars
  <2>2. WatchersTypes' /\ SocketsCounted' /\ LimitsLookedAt' /\ CountIsShown'
    BY <2>1 DEF WatchersKept, WatchersTypes, SocketsCounted, LimitsLookedAt, CheckedFrom, CountIsShown
  <2>. QED  BY <2>2 DEF WatchersKept
<1>. QED
  BY <1>1, BroadcastsKeep, RoundKeeps, LeaveKeeps, SubscriptionKeeps, ConnectKeeps, TokenKeeps, DisconnectKeeps,
     ReturnKeeps DEF WatchersNext

\* Sockets are counted as long as they are there, and everybody knows what it was told to
\* ask for: how many look at a round, and the samples of an administrator's page, for any
\* number of sockets, users, addresses and rooms, and however connections come and go.
THEOREM SocketsHold == ServicesSpec => []SocketsAgree
<1>. DEFINE BothKept == WatchersKept /\ DashboardKept
<1>1. ServicesInit => BothKept
  BY WatchersBegin, DashboardBegins DEF ServicesInit
<1>2. BothKept /\ [ServicesNext]_servicesVars => BothKept'
  BY StepsOfParts, WatchersInductive, DashboardInductive
<1>3. BothKept => SocketsAgree
  BY DashboardKeptServes DEF WatchersKept, SocketsAgree
<1>. QED  BY <1>1, <1>2, <1>3, PTL DEF ServicesSpec

-----------------------------------------------------------------------------
(* The lobby.  What the messages under way will have made of the page and of    *)
(* the floating panel is what the server holds, unless an answer that awaits    *)
(* Redis is still to say so, or the state is going to be asked for.             *)

RoomWords    == [is: {"joined", "state", "countdown", "started", "closed", "left", "replaced", "error"},
                 room: MaybeRoom]
RedisAnswers == [is: {"joined", "left", "away"}, room: MaybeRoom, live: BOOLEAN]
Views        == [open: BOOLEAN, room: MaybeRoom, queued: MaybeRoom]
Asked        == {"getState", "quickPlay", "create", "join", "leave", "start"}

\* What is shown, and what a message makes of it.
Viewed == [open |-> page.open, room |-> page.room, queued |-> queue.room]

After(v, m) ==
    CASE m.is \in {"joined", "countdown"} ->
            [v EXCEPT !.room = IF v.open THEN m.room ELSE v.room, !.queued = m.room]
      [] m.is = "state" ->
            [v EXCEPT !.room = IF v.room # Nowhere /\ v.room.id = m.room.id THEN m.room ELSE v.room,
                      !.queued = m.room]
      [] m.is = "started" -> [open |-> FALSE, room |-> Nowhere, queued |-> m.room]
      [] m.is \in {"closed", "left", "replaced"} -> [v EXCEPT !.room = Nowhere, !.queued = Nowhere]
      [] OTHER -> v

\* The messages of q, one after the other, make g of v.
MakeOf(v, q, g) ==
    \E d \in [0 .. Len(q) -> Views] :
        /\ d[0] = v /\ d[Len(q)] = g
        /\ \A i \in 1 .. Len(q) : d[i] = After(d[i - 1], q[i])

PageFields ==
    {"open", "room", "searching", "preparing", "awaited", "canceled", "dialog", "pending", "starting", "error"}

LobbyTypes ==
    /\ net \in [conn: {"off", "on", "closing", "closed"}, up: Seq(Asked), down: Seq(RoomWords)]
    /\ DOMAIN page = PageFields /\ page.open \in BOOLEAN /\ page.room \in MaybeRoom
    /\ page.dialog \in {"none", "create", "join"}
    /\ queue \in [room: MaybeRoom, starting: BOOLEAN]
    /\ seat \in [room: MaybeRoom, by: {"nobody", "current", "old", "other"}]
    /\ hashing \in [kind: {"none", "create", "join"}, live: BOOLEAN]
    /\ replies \in Seq(RedisAnswers) /\ crossed \in BOOLEAN

\* A socket that is off has nothing under way, and one that is on was not replaced.
LobbyLinked ==
    /\ seat.room = Nowhere => seat.by = "nobody"
    /\ net.conn \in {"off", "closed"} => net.down = << >>
    /\ net.conn = "on" => \A i \in 1 .. Len(net.down) : net.down[i].is # "replaced"

Steady == net.conn = "on" /\ ~crossed /\ \A i \in 1 .. Len(net.up) : net.up[i] # "getState"

Agrees(room, view) == view.queued = room /\ (view.open => view.room = room)
Knows == \E g \in Views : MakeOf(Viewed, net.down, g) /\ Agrees(seat.room, g)

\* The member is this socket's, and what is under way is right or will be set right.
RoomKnown ==
    Steady => /\ seat.room # Nowhere => seat.by = "current"
              /\ Knows \/ Outstanding(seat.room, replies)

LobbyKept == LobbyTypes /\ LobbyLinked /\ RoomKnown

LEMMA StepsReach ==
    ASSUME NEW S, NEW n \in Nat, 0 \in S, \A i \in 1 .. n : i - 1 \in S => i \in S
    PROVE  n \in S
<1>. DEFINE T == {i \in 0 .. n : i \notin S}
            below == {p \in Nat \X Nat : p[1] < p[2]}
<1>1. SUFFICES ASSUME T # {} PROVE FALSE
  OBVIOUS
<1>2. OpToRel(<, Nat) = below
  BY Zenon DEF OpToRel
<1>3. IsWellFoundedOn(below, Nat)
  BY <1>2, NatLessThanWellFounded, Zenon
<1>4. T \subseteq Nat
  OBVIOUS
<1>5. PICK m \in T : \A x \in T : ~(<<x, m>> \in below)
  BY <1>1, <1>3, <1>4, WFMin
<1>6. m \in 0 .. n /\ m \notin S /\ m # 0 /\ m - 1 \in 0 .. n /\ m \in 1 .. n
  BY <1>5
<1>7. m - 1 \notin S
  BY <1>6
<1>8. m - 1 \in T /\ <<m - 1, m>> \in below
  BY <1>6, <1>7
<1>. QED  BY <1>5, <1>8

LEMMA AfterIs ==
    ASSUME NEW v \in Views, NEW m \in RoomWords
    PROVE  /\ After(v, m) \in Views
           /\ m.is \in {"joined", "countdown"} =>
                 After(v, m) = [open |-> v.open, room |-> IF v.open THEN m.room ELSE v.room, queued |-> m.room]
           /\ m.is = "state" =>
                 After(v, m) = [open   |-> v.open, queued |-> m.room,
                                room   |-> IF v.room # Nowhere /\ v.room.id = m.room.id THEN m.room ELSE v.room]
           /\ m.is = "started" => After(v, m) = [open |-> FALSE, room |-> Nowhere, queued |-> m.room]
           /\ m.is \in {"closed", "left", "replaced"} =>
                 After(v, m) = [open |-> v.open, room |-> Nowhere, queued |-> Nowhere]
           /\ m.is = "error" => After(v, m) = v
<1>1. v.open \in BOOLEAN /\ v.room \in MaybeRoom /\ v.queued \in MaybeRoom /\ Nowhere \in MaybeRoom
  BY DEF Views, MaybeRoom
<1>2. /\ m.is \in {"joined", "state", "countdown", "started", "closed", "left", "replaced", "error"}
      /\ m.room \in MaybeRoom
  BY DEF RoomWords
<1>3. v = [open |-> v.open, room |-> v.room, queued |-> v.queued]
  BY DEF Views
<1>4. CASE m.is \in {"joined", "countdown"}
  <2>1. After(v, m) = [open |-> v.open, room |-> IF v.open THEN m.room ELSE v.room, queued |-> m.room]
    BY <1>3, <1>4 DEF After
  <2>. QED  BY <1>1, <1>2, <1>4, <2>1 DEF Views
<1>5. CASE m.is = "state"
  <2>1. After(v, m) = [open   |-> v.open, queued |-> m.room,
                       room   |-> IF v.room # Nowhere /\ v.room.id = m.room.id THEN m.room ELSE v.room]
    BY <1>3, <1>5 DEF After
  <2>. QED  BY <1>1, <1>2, <1>5, <2>1 DEF Views
<1>6. CASE m.is = "started"
  <2>1. After(v, m) = [open |-> FALSE, room |-> Nowhere, queued |-> m.room]
    BY <1>6 DEF After
  <2>. QED  BY <1>1, <1>2, <1>6, <2>1 DEF Views
<1>7. CASE m.is \in {"closed", "left", "replaced"}
  <2>1. After(v, m) = [open |-> v.open, room |-> Nowhere, queued |-> Nowhere]
    BY <1>3, <1>7 DEF After
  <2>. QED  BY <1>1, <1>2, <1>7, <2>1 DEF Views
<1>8. CASE m.is = "error"
  <2>1. After(v, m) = v
    BY <1>8 DEF After
  <2>. QED  BY <1>8, <2>1
<1>. QED  BY <1>2, <1>4, <1>5, <1>6, <1>7, <1>8

LEMMA MadeOfNothing ==
    ASSUME NEW v \in Views
    PROVE  /\ MakeOf(v, << >>, v)
           /\ \A g : MakeOf(v, << >>, g) => g = v
<1>. DEFINE d == [i \in 0 .. 0 |-> v]
<1>1. d \in [0 .. 0 -> Views] /\ d[0] = v /\ Len(<< >>) = 0 /\ \A i \in 1 .. 0 : FALSE
  OBVIOUS
<1>. HIDE DEF d
<1>2. MakeOf(v, << >>, v)
  BY <1>1 DEF MakeOf
<1>3. ASSUME NEW g, MakeOf(v, << >>, g) PROVE g = v
  BY <1>1, <1>3 DEF MakeOf
<1>. QED  BY <1>2, <1>3

LEMMA MadeOn ==
    ASSUME NEW v, NEW g \in Views, NEW q \in Seq(RoomWords), NEW m \in RoomWords, MakeOf(v, q, g)
    PROVE  MakeOf(v, Append(q, m), After(g, m))
<1>. DEFINE n == Len(q)  t == Append(q, m)
<1>1. /\ n \in Nat /\ t \in Seq(RoomWords) /\ Len(t) = n + 1
      /\ t[n + 1] = m /\ \A i \in 1 .. n : t[i] = q[i]
  OBVIOUS
<1>2. PICK d \in [0 .. n -> Views] :
        d[0] = v /\ d[n] = g /\ \A i \in 1 .. n : d[i] = After(d[i - 1], q[i])
  BY DEF MakeOf
<1>. DEFINE e == [i \in 0 .. n + 1 |-> IF i = n + 1 THEN After(g, m) ELSE d[i]]
<1>3. After(g, m) \in Views
  BY AfterIs
<1>. HIDE DEF n, t
<1>4. e \in [0 .. n + 1 -> Views]
  BY <1>1, <1>2, <1>3
<1>5. e[0] = v /\ e[n + 1] = After(g, m)
  BY <1>1, <1>2
<1>6. ASSUME NEW i \in 1 .. n + 1 PROVE e[i] = After(e[i - 1], t[i])
  <2>1. CASE i = n + 1
    <3>1. e[i - 1] = d[n]
      BY <1>1, <2>1
    <3>. QED  BY <1>1, <1>2, <1>5, <2>1, <3>1
  <2>2. CASE i # n + 1
    <3>1. i \in 1 .. n /\ i - 1 \in 0 .. n /\ i \in 0 .. n + 1 /\ i - 1 \in 0 .. n + 1 /\ i - 1 # n + 1
      BY <1>1, <2>2
    <3>2. e[i] = d[i] /\ e[i - 1] = d[i - 1]
      BY <2>2, <3>1
    <3>. QED  BY <1>1, <1>2, <3>1, <3>2
  <2>. QED  BY <2>1, <2>2
<1>. HIDE DEF e
<1>7. MakeOf(v, t, After(g, m))
  BY <1>1, <1>4, <1>5, <1>6 DEF MakeOf
<1>. QED  BY <1>7 DEF t

LEMMA MadeOfTail ==
    ASSUME NEW v, NEW g, NEW q \in Seq(RoomWords), q # << >>, MakeOf(v, q, g)
    PROVE  MakeOf(After(v, Head(q)), Tail(q), g)
<1>. DEFINE n == Len(q)  t == Tail(q)
<1>1. /\ n \in Nat /\ n >= 1 /\ t \in Seq(RoomWords) /\ Len(t) = n - 1 /\ Head(q) = q[1]
      /\ \A i \in 1 .. n - 1 : t[i] = q[i + 1]
  OBVIOUS
<1>2. PICK d \in [0 .. n -> Views] :
        d[0] = v /\ d[n] = g /\ \A i \in 1 .. n : d[i] = After(d[i - 1], q[i])
  BY DEF MakeOf
<1>. DEFINE e == [i \in 0 .. n - 1 |-> d[i + 1]]
<1>. HIDE DEF n, t
<1>3. e \in [0 .. n - 1 -> Views] /\ e[0] = d[1] /\ e[n - 1] = d[n]
  BY <1>1, <1>2
<1>4. d[1] = After(v, Head(q))
  BY <1>1, <1>2
<1>5. ASSUME NEW i \in 1 .. n - 1 PROVE e[i] = After(e[i - 1], t[i])
  <2>1. i + 1 \in 1 .. n /\ i - 1 \in 0 .. n - 1 /\ (i - 1) + 1 = i /\ (i + 1) - 1 = i
    BY <1>1
  <2>2. e[i] = d[i + 1] /\ e[i - 1] = d[i]
    BY <2>1
  <2>3. d[i + 1] = After(d[i], q[i + 1])
    BY <1>2, <2>1
  <2>. QED  BY <1>1, <2>2, <2>3
<1>. HIDE DEF e
<1>6. MakeOf(After(v, Head(q)), t, g)
  BY <1>1, <1>2, <1>3, <1>4, <1>5 DEF MakeOf
<1>. QED  BY <1>6 DEF t

\* Whatever is under way makes something of what is shown.
LEMMA MadeOfAny ==
    ASSUME NEW v \in Views, NEW q \in Seq(RoomWords)
    PROVE  \E g \in Views : MakeOf(v, q, g)
<1>. DEFINE Reaches(d, i) == d[0] = v /\ \A j \in 1 .. i : d[j] = After(d[j - 1], q[j])
            S == {i \in Nat : \E d \in [0 .. i -> Views] : Reaches(d, i)}
<1>1. 0 \in S
  <2>. DEFINE d == [i \in 0 .. 0 |-> v]
  <2>1. d \in [0 .. 0 -> Views] /\ Reaches(d, 0)
    OBVIOUS
  <2>. HIDE DEF d, Reaches
  <2>. QED  BY <2>1
<1>2. ASSUME NEW i \in 1 .. Len(q), i - 1 \in S PROVE i \in S
  <2>1. PICK d \in [0 .. i - 1 -> Views] : Reaches(d, i - 1)
    BY <1>2
  <2>. DEFINE e == [j \in 0 .. i |-> IF j = i THEN After(d[i - 1], q[i]) ELSE d[j]]
  <2>2. i \in Nat /\ i - 1 \in 0 .. i - 1 /\ q[i] \in RoomWords
    OBVIOUS
  <2>3. After(d[i - 1], q[i]) \in Views
    BY <2>1, <2>2, AfterIs
  <2>4. e \in [0 .. i -> Views] /\ e[0] = d[0] /\ e[i] = After(d[i - 1], q[i])
    BY <2>2, <2>3
  <2>5. ASSUME NEW j \in 1 .. i PROVE e[j] = After(e[j - 1], q[j])
    <3>1. j - 1 \in 0 .. i /\ j - 1 # i /\ e[j - 1] = d[j - 1]
      BY <2>2
    <3>2. CASE j = i
      BY <2>4, <3>1, <3>2
    <3>3. CASE j # i
      <4>1. j \in 1 .. i - 1 /\ e[j] = d[j]
        BY <2>2, <3>3
      <4>. QED  BY <2>1, <3>1, <4>1
    <3>. QED  BY <3>2, <3>3
  <2>. HIDE DEF e
  <2>6. Reaches(e, i)
    BY <2>1, <2>4, <2>5
  <2>. HIDE DEF Reaches
  <2>. QED  BY <2>2, <2>4, <2>6
<1>3. Len(q) \in Nat
  OBVIOUS
<1>. HIDE DEF S
<1>4. Len(q) \in S
  BY <1>1, <1>2, <1>3, StepsReach
<1>5. PICK d \in [0 .. Len(q) -> Views] : Reaches(d, Len(q))
  BY <1>4 DEF S
<1>6. d[Len(q)] \in Views
  BY <1>3, <1>5
<1>. QED  BY <1>5, <1>6 DEF MakeOf

\* A page that is left is told as little as one that was never open.
LEMMA MadeClosed ==
    ASSUME NEW v \in Views, NEW g \in Views, NEW q \in Seq(RoomWords), MakeOf(v, q, g)
    PROVE  MakeOf([open |-> FALSE, room |-> Nowhere, queued |-> v.queued], q,
                  [open |-> FALSE, room |-> Nowhere, queued |-> g.queued])
<1>. DEFINE Shut(w) == [open |-> FALSE, room |-> Nowhere, queued |-> w.queued]
            n == Len(q)
<1>1. PICK d \in [0 .. n -> Views] :
        d[0] = v /\ d[n] = g /\ \A i \in 1 .. n : d[i] = After(d[i - 1], q[i])
  BY DEF MakeOf
<1>. DEFINE e == [i \in 0 .. n |-> Shut(d[i])]
<1>2. n \in Nat /\ \A i \in 1 .. n : q[i] \in RoomWords
  OBVIOUS
<1>3. ASSUME NEW w \in Views PROVE Shut(w) \in Views
  BY DEF Views, MaybeRoom
<1>4. ASSUME NEW w \in Views, NEW m \in RoomWords PROVE Shut(After(w, m)) = After(Shut(w), m)
  <2>1. Shut(w) \in Views /\ Shut(w).open = FALSE /\ Shut(w).room = Nowhere /\ Shut(w).queued = w.queued
    BY <1>3
  <2>2. m.is \in {"joined", "state", "countdown", "started", "closed", "left", "replaced", "error"}
    BY DEF RoomWords
  <2>. HIDE DEF Shut
  <2>3. /\ m.is \in {"joined", "countdown", "state", "started"} =>
              After(Shut(w), m) = [open |-> FALSE, room |-> Nowhere, queued |-> m.room] /\ After(w, m).queued = m.room
        /\ m.is \in {"closed", "left", "replaced"} =>
              After(Shut(w), m) = [open |-> FALSE, room |-> Nowhere, queued |-> Nowhere] /\ After(w, m).queued = Nowhere
        /\ m.is = "error" => After(Shut(w), m) = Shut(w) /\ After(w, m) = w
    BY <2>1, <2>2, AfterIs
  <2>. QED  BY <2>2, <2>3 DEF Shut
<1>. HIDE DEF n
<1>5. \A i \in 0 .. n : d[i] \in Views
  BY <1>1
<1>6. e \in [0 .. n -> Views] /\ e[0] = Shut(v) /\ e[n] = Shut(g)
  <2>. HIDE DEF Shut
  <2>. QED  BY <1>1, <1>2, <1>3, <1>5
<1>7. ASSUME NEW i \in 1 .. n PROVE e[i] = After(e[i - 1], q[i])
  <2>1. i \in 0 .. n /\ i - 1 \in 0 .. n
    BY <1>2
  <2>. HIDE DEF Shut
  <2>2. e[i] = Shut(d[i]) /\ e[i - 1] = Shut(d[i - 1])
    BY <2>1
  <2>. QED  BY <1>1, <1>2, <1>4, <1>5, <2>1, <2>2
<1>. HIDE DEF e, Shut
<1>8. MakeOf(Shut(v), q, Shut(g))
  BY <1>6, <1>7 DEF MakeOf, n
<1>. QED  BY <1>8 DEF Shut

-----------------------------------------------------------------------------
(* What a message does to what is known. *)

LEMMA ViewedIs ==
    LobbyTypes => Viewed \in Views /\ net.down \in Seq(RoomWords)
BY DEF LobbyTypes, Viewed, Views

LEMMA ToldAll ==
    ASSUME LobbyTypes, NEW m \in RoomWords, net'.down = Append(net.down, m), UNCHANGED <<page, queue>>,
           m.is \in {"joined", "countdown", "left", "closed", "started"}, m.room = seat'.room,
           m.is \in {"left", "closed"} => m.room = Nowhere
    PROVE  Knows'
<1>1. Viewed \in Views /\ Viewed' = Viewed /\ net.down \in Seq(RoomWords)
  BY ViewedIs DEF Viewed
<1>2. PICK g \in Views : MakeOf(Viewed, net.down, g)
  BY <1>1, MadeOfAny
<1>3. MakeOf(Viewed', net'.down, After(g, m)) /\ After(g, m) \in Views
  BY <1>1, <1>2, MadeOn, AfterIs
<1>4. After(g, m).queued = m.room /\ (After(g, m).open => After(g, m).room = m.room)
  BY AfterIs DEF Views
<1>. QED  BY <1>3, <1>4 DEF Knows, Agrees

LEMMA ToldState ==
    ASSUME LobbyTypes, NEW m \in RoomWords, net'.down = Append(net.down, m), UNCHANGED <<page, queue>>,
           m.is = "state", m.room = seat'.room, seat.room # Nowhere, seat.room.id = m.room.id, Knows
    PROVE  Knows'
<1>1. Viewed \in Views /\ Viewed' = Viewed /\ net.down \in Seq(RoomWords)
  BY ViewedIs DEF Viewed
<1>2. PICK g \in Views : MakeOf(Viewed, net.down, g) /\ Agrees(seat.room, g)
  BY DEF Knows
<1>3. MakeOf(Viewed', net'.down, After(g, m)) /\ After(g, m) \in Views
  BY <1>1, <1>2, MadeOn, AfterIs
<1>4. After(g, m).queued = m.room /\ (After(g, m).open => After(g, m).room = m.room)
  BY <1>2, AfterIs DEF Agrees
<1>. QED  BY <1>3, <1>4 DEF Knows, Agrees

LEMMA ToldError ==
    ASSUME LobbyTypes, NEW m \in RoomWords, net'.down = Append(net.down, m), UNCHANGED <<page, queue>>,
           m.is = "error", seat'.room = seat.room, Knows
    PROVE  Knows'
<1>1. Viewed \in Views /\ Viewed' = Viewed /\ net.down \in Seq(RoomWords)
  BY ViewedIs DEF Viewed
<1>2. PICK g \in Views : MakeOf(Viewed, net.down, g) /\ Agrees(seat.room, g)
  BY DEF Knows
<1>3. MakeOf(Viewed', net'.down, After(g, m)) /\ After(g, m) = g
  BY <1>1, <1>2, MadeOn, AfterIs
<1>. QED  BY <1>2, <1>3 DEF Knows

LEMMA ToldNothing ==
    ASSUME net'.down = net.down, Viewed' = Viewed, seat'.room = seat.room, Knows
    PROVE  Knows'
BY DEF Knows

LEMMA SaidIs ==
    ASSUME LobbyTypes, NEW is, NEW room \in MaybeRoom,
           is \in {"joined", "state", "countdown", "started", "closed", "left", "replaced", "error"}
    PROVE  /\ [is |-> is, room |-> room] \in RoomWords
           /\ Says(is, room) = Append(net.down, [is |-> is, room |-> room]) /\ Says(is, room) \in Seq(RoomWords)
           /\ (\A i \in 1 .. Len(net.down) : net.down[i].is # "replaced") /\ is # "replaced" =>
                 \A i \in 1 .. Len(Says(is, room)) : Says(is, room)[i].is # "replaced"
<1>. DEFINE m == [is |-> is, room |-> room]
<1>1. m \in RoomWords /\ m.is = is /\ net.down \in Seq(RoomWords)
  BY DEF RoomWords, LobbyTypes
<1>2. Says(is, room) = Append(net.down, m)
  BY DEF Says
<1>. HIDE DEF m
<1>3. Append(net.down, m) \in Seq(RoomWords) /\ Len(Append(net.down, m)) = Len(net.down) + 1
  BY <1>1
<1>4. ASSUME NEW i \in 1 .. Len(net.down) + 1
      PROVE  Append(net.down, m)[i] = IF i = Len(net.down) + 1 THEN m ELSE net.down[i]
  BY <1>1
<1>5. (\A i \in 1 .. Len(net.down) : net.down[i].is # "replaced") /\ is # "replaced" =>
                 \A i \in 1 .. Len(Says(is, room)) : Says(is, room)[i].is # "replaced"
  <2>1. Len(net.down) \in Nat
    BY <1>1
  <2>. QED  BY <1>1, <1>2, <1>3, <1>4, <2>1
<1>. QED  BY <1>1, <1>2, <1>3, <1>5 DEF m

-----------------------------------------------------------------------------
(* Steps of the page. *)

LEMMA Emitted ==
    ASSUME LobbyTypes, NEW m \in Asked, Emits(m), UNCHANGED crossed
    PROVE  /\ net' \in [conn: {"off", "on", "closing", "closed"}, up: Seq(Asked), down: Seq(RoomWords)]
           /\ net'.conn = net.conn /\ net'.down = net.down /\ (Steady' => Steady)
<1>1. net' = [net EXCEPT !.up = Append(net.up, m)] /\ net.up \in Seq(Asked)
  BY DEF Emits, LobbyTypes
<1>2. net'.conn = net.conn /\ net'.down = net.down /\ net'.up = Append(net.up, m) /\ Append(net.up, m) \in Seq(Asked)
  BY <1>1 DEF LobbyTypes
<1>3. \A i \in 1 .. Len(net.up) : i \in 1 .. Len(Append(net.up, m)) /\ Append(net.up, m)[i] = net.up[i]
  BY <1>1
<1>4. Steady' => Steady
  BY <1>2, <1>3 DEF Steady
<1>5. net' \in [conn: {"off", "on", "closing", "closed"}, up: Seq(Asked), down: Seq(RoomWords)]
  BY <1>1, <1>2 DEF LobbyTypes
<1>. QED  BY <1>2, <1>4, <1>5

LEMMA PageKeeps ==
    ASSUME LobbyKept, LobbyTypes', UNCHANGED <<seat, replies, crossed>>, Viewed' = Viewed,
           net'.conn = net.conn, net'.down = net.down, Steady' => Steady
    PROVE  LobbyKept'
<1>1. LobbyLinked'
  BY DEF LobbyKept, LobbyLinked
<1>2. Knows => Knows'
  BY ToldNothing
<1>3. RoomKnown'
  BY <1>2 DEF LobbyKept, RoomKnown, Outstanding
<1>. QED  BY <1>1, <1>3 DEF LobbyKept

\* The page changes other fields than those it shows of the room.
LobbyGoesOn ==
    /\ DOMAIN page' = PageFields /\ page'.open = page.open /\ page'.room = page.room
    /\ page'.dialog \in {"none", "create", "join"}

LEMMA LobbyGoesOnKeeps ==
    ASSUME LobbyKept, LobbyGoesOn, UNCHANGED <<serverVars>>, queue' \in [room: MaybeRoom, starting: BOOLEAN],
           queue'.room = queue.room, UNCHANGED net \/ \E m \in Asked : Emits(m)
    PROVE  LobbyKept'
<1>1. LobbyTypes /\ UNCHANGED crossed
  BY DEF LobbyKept, serverVars
<1>2. /\ net' \in [conn: {"off", "on", "closing", "closed"}, up: Seq(Asked), down: Seq(RoomWords)]
      /\ net'.conn = net.conn /\ net'.down = net.down /\ (Steady' => Steady)
  <2>1. CASE UNCHANGED net
    BY <1>1, <2>1 DEF LobbyTypes, Steady
  <2>2. CASE \E m \in Asked : Emits(m)
    BY <1>1, <2>2, Emitted
  <2>. QED  BY <2>1, <2>2
<1>3. LobbyTypes'
  BY <1>1, <1>2 DEF LobbyTypes, LobbyGoesOn, serverVars
<1>4. Viewed' = Viewed /\ UNCHANGED <<seat, replies, crossed>>
  BY DEF Viewed, LobbyGoesOn, serverVars
<1>. QED  BY <1>2, <1>3, <1>4, PageKeeps

LEMMA SameQueue ==
    ASSUME LobbyKept, UNCHANGED queue
    PROVE  queue' \in [room: MaybeRoom, starting: BOOLEAN] /\ queue'.room = queue.room
BY DEF LobbyKept, LobbyTypes

LEMMA PageIs ==
    ASSUME LobbyKept
    PROVE  /\ DOMAIN page = PageFields /\ page.dialog \in {"none", "create", "join"}
           /\ queue \in [room: MaybeRoom, starting: BOOLEAN]
BY DEF LobbyKept, LobbyTypes

LEMMA PreparationKeeps ==
    ASSUME LobbyKept, NEW p \in Preparations, NEW ok \in BOOLEAN, PreparationEnds(p, ok)
    PROVE  LobbyKept'
<1>1. LobbyGoesOn
  BY PageIs DEF PreparationEnds, LobbyGoesOn, PageFields, LobbyKept, LobbyTypes
<1>2. UNCHANGED net \/ \E m \in Asked : Emits(m)
  BY DEF PreparationEnds, Asked
<1>. QED  BY <1>1, <1>2, SameQueue, LobbyGoesOnKeeps DEF PreparationEnds

LEMMA QuickPlayKeeps == ASSUME LobbyKept, QuickPlay PROVE LobbyKept'
<1>1. LobbyGoesOn
  BY PageIs DEF QuickPlay, LobbyGoesOn, PageFields
<1>2. UNCHANGED net \/ \E m \in Asked : Emits(m)
  BY DEF QuickPlay, Asked
<1>. QED  BY <1>1, <1>2, SameQueue, LobbyGoesOnKeeps DEF QuickPlay

LEMMA DialogKeeps ==
    ASSUME LobbyKept, NEW mode \in {"create", "join", "none"}, Dialog(mode) \/ SubmitRoomAction
    PROVE  LobbyKept'
<1>1. LobbyGoesOn
  BY PageIs DEF Dialog, SubmitRoomAction, LobbyGoesOn, PageFields
<1>2. UNCHANGED net \/ \E m \in Asked : Emits(m)
  BY PageIs DEF Dialog, SubmitRoomAction, Asked
<1>. QED  BY <1>1, <1>2, SameQueue, LobbyGoesOnKeeps DEF Dialog, SubmitRoomAction

LEMMA StartKeeps == ASSUME LobbyKept, StartPrivateRoom PROVE LobbyKept'
<1>1. LobbyGoesOn
  BY PageIs DEF StartPrivateRoom, LobbyGoesOn, PageFields
<1>2. UNCHANGED net \/ \E m \in Asked : Emits(m)
  BY DEF StartPrivateRoom, Asked
<1>3. queue' \in [room: MaybeRoom, starting: BOOLEAN] /\ queue'.room = queue.room
  BY PageIs DEF StartPrivateRoom
<1>. QED  BY <1>1, <1>2, <1>3, LobbyGoesOnKeeps DEF StartPrivateRoom

LEMMA LeaveRoomKeeps == ASSUME LobbyKept, LeaveRoom PROVE LobbyKept'
<1>1. LobbyGoesOn
  BY PageIs DEF LeaveRoom, LobbyGoesOn, PageFields
<1>2. UNCHANGED net \/ \E m \in Asked : Emits(m)
  BY DEF LeaveRoom, Asked
<1>. QED  BY <1>1, <1>2, SameQueue, LobbyGoesOnKeeps DEF LeaveRoom

LEMMA NewPagesAre ==
    /\ DOMAIN NewPage = PageFields /\ NewPage.open = TRUE /\ NewPage.room = Nowhere /\ NewPage.dialog = "none"
    /\ DOMAIN NoPage = PageFields /\ NoPage.open = FALSE /\ NoPage.room = Nowhere /\ NoPage.dialog = "none"
BY DEF NewPage, NoPage, PageFields

\* A page that opens asks for the state.
LEMMA OpenLobbyKeeps == ASSUME LobbyKept, OpenLobby PROVE LobbyKept'
<1>. DEFINE conn == IF net.conn = "closed" THEN "off" ELSE net.conn
<1>1. net' = [net EXCEPT !.conn = conn, !.up = Append(net.up, "getState")] /\ page' = NewPage
      /\ UNCHANGED <<queue, seat, hashing, replies, crossed>>
  BY DEF OpenLobby, serverVars
<1>2. net \in [conn: {"off", "on", "closing", "closed"}, up: Seq(Asked), down: Seq(RoomWords)] /\ "getState" \in Asked
  BY DEF LobbyKept, LobbyTypes, Asked
<1>3. net.up \in Seq(Asked)
  BY <1>2
<1>4. Append(net.up, "getState") \in Seq(Asked) /\ Len(net.up) + 1 \in 1 .. Len(Append(net.up, "getState"))
      /\ Append(net.up, "getState")[Len(net.up) + 1] = "getState"
  BY <1>2, <1>3
<1>5. net'.conn = conn /\ net'.up = Append(net.up, "getState") /\ net'.down = net.down
  BY <1>1, <1>2
<1>6. net' \in [conn: {"off", "on", "closing", "closed"}, up: Seq(Asked), down: Seq(RoomWords)]
  BY <1>1, <1>2, <1>4
<1>7. LobbyTypes'
  BY <1>1, <1>6, NewPagesAre DEF LobbyKept, LobbyTypes, MaybeRoom
<1>8. ~Steady'
  BY <1>4, <1>5 DEF Steady
<1>9. LobbyLinked'
  BY <1>1, <1>5 DEF LobbyKept, LobbyLinked
<1>. QED  BY <1>7, <1>8, <1>9 DEF LobbyKept, RoomKnown

LEMMA CloseLobbyKeeps == ASSUME LobbyKept, CloseLobby PROVE LobbyKept'
<1>1. page' = NoPage /\ UNCHANGED <<net, queue, seat, hashing, replies, crossed>> /\ LobbyTypes
  BY DEF CloseLobby, serverVars, LobbyKept
<1>2. LobbyTypes'
  BY <1>1, NewPagesAre DEF LobbyTypes, MaybeRoom
<1>3. LobbyLinked' /\ (Steady' => Steady)
  BY <1>1 DEF LobbyKept, LobbyLinked, Steady
<1>4. ASSUME Knows PROVE Knows'
  <2>1. PICK g \in Views : MakeOf(Viewed, net.down, g) /\ Agrees(seat.room, g)
    BY <1>4 DEF Knows
  <2>2. Viewed' = [open |-> FALSE, room |-> Nowhere, queued |-> Viewed.queued]
    BY <1>1, NewPagesAre DEF Viewed
  <2>. DEFINE h == [open |-> FALSE, room |-> Nowhere, queued |-> g.queued]
  <2>3. MakeOf(Viewed', net'.down, h)
    BY <1>1, <2>1, <2>2, MadeClosed, ViewedIs
  <2>4. h \in Views /\ Agrees(seat'.room, h)
    BY <1>1, <2>1 DEF Views, MaybeRoom, Agrees
  <2>. QED  BY <2>3, <2>4 DEF Knows
<1>5. RoomKnown'
  BY <1>1, <1>3, <1>4 DEF LobbyKept, RoomKnown, Outstanding
<1>. QED  BY <1>2, <1>3, <1>5 DEF LobbyKept

-----------------------------------------------------------------------------
(* Messages, and the connection. *)

LEMMA LobbyIs ==
    ASSUME LobbyKept
    PROVE  /\ net \in [conn: {"off", "on", "closing", "closed"}, up: Seq(Asked), down: Seq(RoomWords)]
           /\ net.conn \in {"off", "on", "closing", "closed"} /\ net.up \in Seq(Asked) /\ net.down \in Seq(RoomWords)
           /\ page.open \in BOOLEAN /\ page.room \in MaybeRoom
           /\ queue.room \in MaybeRoom /\ queue.starting \in BOOLEAN /\ Nowhere \in MaybeRoom
           /\ seat.room \in MaybeRoom /\ seat.by \in {"nobody", "current", "old", "other"}
           /\ seat = [room |-> seat.room, by |-> seat.by]
           /\ replies \in Seq(RedisAnswers) /\ crossed \in BOOLEAN
           /\ hashing \in [kind: {"none", "create", "join"}, live: BOOLEAN] /\ hashing.live \in BOOLEAN
BY DEF LobbyKept, LobbyTypes, MaybeRoom

LEMMA DeliveredIs ==
    ASSUME LobbyKept, Deliver
    PROVE  /\ DOMAIN page' = PageFields /\ page'.dialog \in {"none", "create", "join"}
           /\ page'.open \in BOOLEAN /\ page'.room \in MaybeRoom
           /\ queue' \in [room: MaybeRoom, starting: BOOLEAN]
           /\ Viewed' = After(Viewed, Head(net.down)) /\ Head(net.down) \in RoomWords
<1>. DEFINE m == Head(net.down)
            room == m.room
<1>1. net.down # << >> /\ net.down \in Seq(RoomWords)
  BY LobbyIs DEF Deliver
<1>2. m \in RoomWords
  BY <1>1
<1>3. m.is \in {"joined", "state", "countdown", "started", "closed", "left", "replaced", "error"} /\ room \in MaybeRoom
  BY <1>2 DEF RoomWords
<1>4. CASE m.is = "joined" \/ m.is = "countdown"
  <2>2. queue' = Queued(room) /\ page'.open = page.open /\ page'.room = (IF page.open THEN room ELSE page.room)
        /\ DOMAIN page' = PageFields /\ page'.dialog \in {"none", "create", "join"}
    BY <1>4, PageIs DEF Deliver, OnJoined, OnCountdown, PageFields
  <2>3. queue'.room = room /\ queue' \in [room: MaybeRoom, starting: BOOLEAN]
    BY <1>3, <2>2, LobbyIs DEF Queued
  <2>4. After(Viewed, m) = [open |-> Viewed.open, room |-> IF Viewed.open THEN m.room ELSE Viewed.room, queued |-> m.room]
    BY <1>2, <1>4, AfterIs, ViewedIs DEF LobbyKept
  <2>5. Viewed' = After(Viewed, m)
    BY <2>2, <2>3, <2>4 DEF Viewed
  <2>. QED  BY <1>2, <1>3, <2>2, <2>3, <2>5, LobbyIs
<1>5. CASE m.is = "state"
  <2>1. queue' = Queued(room) /\ page'.open = page.open
        /\ page'.room = (IF page.room # Nowhere /\ page.room.id = room.id THEN room ELSE page.room)
        /\ DOMAIN page' = PageFields /\ page'.dialog \in {"none", "create", "join"}
    BY <1>5, PageIs DEF Deliver, OnStateUpdated, PageFields
  <2>2. queue'.room = room /\ queue' \in [room: MaybeRoom, starting: BOOLEAN]
    BY <1>3, <2>1, LobbyIs DEF Queued
  <2>3. After(Viewed, m) =
           [open |-> Viewed.open, queued |-> m.room,
            room |-> IF Viewed.room # Nowhere /\ Viewed.room.id = m.room.id THEN m.room ELSE Viewed.room]
    BY <1>2, <1>5, AfterIs, ViewedIs DEF LobbyKept
  <2>4. Viewed' = After(Viewed, m)
    BY <2>1, <2>2, <2>3 DEF Viewed
  <2>. QED  BY <1>2, <1>3, <2>1, <2>2, <2>4, LobbyIs
<1>6. CASE m.is = "started"
  <2>1. page' = NoPage /\ queue' = [room |-> room, starting |-> FALSE]
    BY <1>6 DEF Deliver, OnStarted, NewQueue
  <2>2. Viewed' = [open |-> FALSE, room |-> Nowhere, queued |-> room]
    BY <2>1, NewPagesAre DEF Viewed
  <2>3. Viewed' = After(Viewed, m)
    BY <1>2, <1>6, <2>2, AfterIs, ViewedIs DEF LobbyKept
  <2>. QED  BY <1>2, <1>3, <2>1, <2>3, NewPagesAre, LobbyIs
<1>7. CASE m.is \in {"closed", "left", "replaced"}
  <2>1. queue' = NewQueue /\ page'.open = page.open /\ page'.room = Nowhere
        /\ DOMAIN page' = PageFields /\ page'.dialog \in {"none", "create", "join"}
    BY <1>7, PageIs DEF Deliver, OnClosed, OnLeft, OnReplaced, PageFields
  <2>2. Viewed' = [open |-> Viewed.open, room |-> Nowhere, queued |-> Nowhere]
    BY <2>1 DEF Viewed, NewQueue
  <2>3. Viewed' = After(Viewed, m)
    BY <1>2, <1>7, <2>2, AfterIs, ViewedIs DEF LobbyKept
  <2>. QED  BY <1>2, <2>1, <2>3, LobbyIs DEF NewQueue
<1>8. CASE m.is = "error"
  <2>1. queue' = [queue EXCEPT !.starting = FALSE] /\ page'.open = page.open /\ page'.room = page.room
        /\ DOMAIN page' = PageFields /\ page'.dialog \in {"none", "create", "join"}
    BY <1>8, PageIs DEF Deliver, OnError, PageFields
  <2>2. queue'.room = queue.room /\ queue' \in [room: MaybeRoom, starting: BOOLEAN]
    BY <2>1, PageIs
  <2>3. Viewed' = After(Viewed, m)
    BY <1>2, <1>8, <2>1, <2>2, AfterIs, ViewedIs DEF LobbyKept, Viewed
  <2>. QED  BY <1>2, <2>1, <2>2, <2>3, LobbyIs
<1>. QED  BY <1>3, <1>4, <1>5, <1>6, <1>7, <1>8

LEMMA DeliverKeeps == ASSUME LobbyKept, Deliver PROVE LobbyKept'
<1>. DEFINE m == Head(net.down)
            q == Tail(net.down)
<1>1. net.down # << >> /\ net.down \in Seq(RoomWords) /\ UNCHANGED <<seat, hashing, replies, crossed>>
  BY LobbyIs DEF Deliver, serverVars
<1>2. q \in Seq(RoomWords) /\ Len(q) = Len(net.down) - 1 /\ (\A i \in 1 .. Len(q) : q[i] = net.down[i + 1])
      /\ m = net.down[1] /\ Len(net.down) \in Nat /\ Len(net.down) >= 1
  BY <1>1
<1>3. net' = IF m.is = "replaced" THEN [conn |-> "closed", up |-> << >>, down |-> << >>]
             ELSE [net EXCEPT !.down = q]
  BY DEF Deliver
<1>4. << >> \in Seq(Asked) /\ << >> \in Seq(RoomWords)
  OBVIOUS
<1>. HIDE DEF q, m
<1>5. net' \in [conn: {"off", "on", "closing", "closed"}, up: Seq(Asked), down: Seq(RoomWords)]
  BY <1>2, <1>3, <1>4, LobbyIs
<1>6. LobbyTypes'
  BY <1>1, <1>5, DeliveredIs, LobbyIs DEF LobbyTypes
<1>7. CASE m.is = "replaced"
  <2>1. net'.conn = "closed" /\ net'.down = << >>
    BY <1>3, <1>7
  <2>2. LobbyLinked' /\ ~Steady'
    BY <1>1, <2>1 DEF LobbyKept, LobbyLinked, Steady
  <2>. QED  BY <1>6, <2>2 DEF LobbyKept, RoomKnown
<1>8. CASE m.is # "replaced"
  <2>1. net'.conn = net.conn /\ net'.down = q /\ net'.up = net.up
    BY <1>3, <1>8, LobbyIs
  <2>2. net.conn \notin {"off", "closed"}
    BY <1>1 DEF LobbyKept, LobbyLinked
  <2>3. ASSUME net.conn = "on", NEW i \in 1 .. Len(q) PROVE q[i].is # "replaced"
    <3>1. i + 1 \in 1 .. Len(net.down) /\ q[i] = net.down[i + 1]
      BY <1>2
    <3>. QED  BY <2>3, <3>1 DEF LobbyKept, LobbyLinked
  <2>4. LobbyLinked'
    BY <1>1, <2>1, <2>2, <2>3 DEF LobbyKept, LobbyLinked
  <2>5. ASSUME Knows PROVE Knows'
    <3>1. PICK g \in Views : MakeOf(Viewed, net.down, g) /\ Agrees(seat.room, g)
      BY <2>5 DEF Knows
    <3>2. MakeOf(After(Viewed, m), q, g)
      BY <1>1, <3>1, MadeOfTail DEF m, q
    <3>3. Viewed' = After(Viewed, m)
      BY DeliveredIs DEF m
    <3>. QED  BY <1>1, <2>1, <3>1, <3>2, <3>3 DEF Knows, Agrees
  <2>6. RoomKnown'
    BY <1>1, <2>1, <2>5 DEF LobbyKept, RoomKnown, Steady, Outstanding
  <2>. QED  BY <1>6, <2>4, <2>6 DEF LobbyKept
<1>. QED  BY <1>7, <1>8

LEMMA ConnectedKeeps == ASSUME LobbyKept, Connected PROVE LobbyKept'
<1>1. net.conn = "off" /\ net' = [net EXCEPT !.conn = "on", !.up = Append(net.up, "getState")]
      /\ UNCHANGED <<page, queue, seat, hashing, replies, crossed>>
  BY DEF Connected, Asks, serverVars
<1>2. net'.conn = "on" /\ net'.up = Append(net.up, "getState") /\ net'.down = net.down /\ net.up \in Seq(Asked)
  BY <1>1, LobbyIs
<1>3. Append(net.up, "getState") \in Seq(Asked) /\ Len(net.up) + 1 \in 1 .. Len(Append(net.up, "getState"))
      /\ Append(net.up, "getState")[Len(net.up) + 1] = "getState"
  BY <1>2 DEF Asked
<1>4. net' \in [conn: {"off", "on", "closing", "closed"}, up: Seq(Asked), down: Seq(RoomWords)]
  BY <1>1, <1>2, <1>3, LobbyIs
<1>5. LobbyTypes'
  BY <1>1, <1>4 DEF LobbyKept, LobbyTypes
<1>6. ~Steady'
  BY <1>2, <1>3 DEF Steady
<1>7. net.down = << >> /\ Len(<< >>) = 0
  BY <1>1 DEF LobbyKept, LobbyLinked
<1>8. LobbyLinked'
  BY <1>1, <1>2, <1>7 DEF LobbyKept, LobbyLinked
<1>. QED  BY <1>5, <1>6, <1>8 DEF LobbyKept, RoomKnown

LEMMA MutedAre ==
    ASSUME replies \in Seq(RedisAnswers)
    PROVE  [i \in DOMAIN replies |-> [replies[i] EXCEPT !.live = FALSE]] \in Seq(RedisAnswers)
<1>1. \A i \in 1 .. Len(replies) : replies[i] \in RedisAnswers /\ DOMAIN replies = 1 .. Len(replies) /\ Len(replies) \in Nat
  OBVIOUS
<1>2. \A a \in RedisAnswers : [a EXCEPT !.live = FALSE] \in RedisAnswers
  BY DEF RedisAnswers
<1>3. DOMAIN replies = 1 .. Len(replies) /\ Len(replies) \in Nat
  OBVIOUS
<1>4. [i \in 1 .. Len(replies) |-> [replies[i] EXCEPT !.live = FALSE]] \in [1 .. Len(replies) -> RedisAnswers]
  BY <1>1, <1>2
<1>. QED  BY <1>3, <1>4, IsASeq

LEMMA LostKeeps == ASSUME LobbyKept, Dropped \/ TakenOver PROVE LobbyKept'
<1>1. seat.by = "current" => seat.room # Nowhere
  BY DEF LobbyKept, LobbyLinked
<1>2. << >> \in Seq(Asked) /\ << >> \in Seq(RoomWords) /\ Says("replaced", Nowhere) \in Seq(RoomWords)
  <2>1. LobbyTypes /\ Nowhere \in MaybeRoom
    BY DEF LobbyKept, MaybeRoom
  <2>2. Says("replaced", Nowhere) \in Seq(RoomWords)
    BY <2>1, SaidIs
  <2>. QED  BY <2>2
<1>3. /\ UNCHANGED <<page, queue, crossed>> /\ hashing' = [hashing EXCEPT !.live = FALSE]
      /\ replies' = [i \in DOMAIN replies |-> [replies[i] EXCEPT !.live = FALSE]]
  BY DEF Dropped, TakenOver, clientVars
<1>4. hashing' \in [kind: {"none", "create", "join"}, live: BOOLEAN] /\ replies' \in Seq(RedisAnswers)
  BY <1>3, LobbyIs, MutedAre
<1>5. CASE Dropped
  <2>1. net' = [conn |-> "off", up |-> << >>, down |-> << >>]
        /\ seat' = IF seat.by = "current" THEN [seat EXCEPT !.by = "old"] ELSE seat
    BY <1>5 DEF Dropped
  <2>2. seat' \in [room: MaybeRoom, by: {"nobody", "current", "old", "other"}] /\ seat'.room = seat.room
        /\ (seat.by # "current" => seat'.by = seat.by)
    BY <2>1, LobbyIs
  <2>3. LobbyTypes' /\ ~Steady'
    BY <1>2, <1>3, <1>4, <2>1, <2>2 DEF LobbyKept, LobbyTypes, Steady
  <2>4. LobbyLinked'
    BY <1>1, <2>1, <2>2 DEF LobbyKept, LobbyLinked
  <2>. QED  BY <2>3, <2>4 DEF LobbyKept, RoomKnown
<1>6. CASE TakenOver
  <2>1. net' = [conn |-> "closing", up |-> << >>, down |-> Says("replaced", Nowhere)]
        /\ seat' = [seat EXCEPT !.by = "other"] /\ seat.by = "current"
    BY <1>6 DEF TakenOver
  <2>2. seat' \in [room: MaybeRoom, by: {"nobody", "current", "old", "other"}] /\ seat'.room = seat.room
    BY <2>1, LobbyIs
  <2>3. LobbyTypes' /\ ~Steady'
    BY <1>2, <1>3, <1>4, <2>1, <2>2 DEF LobbyKept, LobbyTypes, Steady
  <2>4. LobbyLinked'
    BY <1>1, <2>1, <2>2 DEF LobbyKept, LobbyLinked
  <2>. QED  BY <2>3, <2>4 DEF LobbyKept, RoomKnown
<1>. QED  BY <1>5, <1>6

-----------------------------------------------------------------------------
(* The server.  An answer that awaits Redis is to tell this socket. *)

LEMMA AwaitsLast ==
    ASSUME NEW q \in Seq(RedisAnswers), NEW a \in RedisAnswers, NEW room, a.live,
           IF room = Nowhere THEN a.is = "left" ELSE a.is = "joined" /\ a.room.id = room.id
    PROVE  Outstanding(room, Append(q, a))
<1>1. Len(q) + 1 \in DOMAIN Append(q, a) /\ Append(q, a)[Len(q) + 1] = a
  OBVIOUS
<1>. QED  BY <1>1 DEF Outstanding

LEMMA AwaitsStill ==
    ASSUME NEW q \in Seq(RedisAnswers), q # << >>, NEW room, Outstanding(room, q),
           ~Head(q).live \/ Head(q).is = "away"
    PROVE  Outstanding(room, Tail(q))
<1>1. PICK i \in DOMAIN q :
        q[i].live /\ IF room = Nowhere THEN q[i].is = "left" ELSE q[i].is = "joined" /\ q[i].room.id = room.id
  BY DEF Outstanding
<1>2. i \in 1 .. Len(q) /\ i # 1
  BY <1>1
<1>3. i - 1 \in DOMAIN Tail(q) /\ Tail(q)[i - 1] = q[i]
  BY <1>2
<1>. QED  BY <1>1, <1>3 DEF Outstanding

LEMMA UpIs ==
    ASSUME LobbyKept, net.up # << >>
    PROVE  /\ Tail(net.up) \in Seq(Asked) /\ Head(net.up) \in Asked
           /\ (\A i \in 1 .. Len(Tail(net.up)) : Tail(net.up)[i] # "getState") /\ Head(net.up) # "getState" =>
                 \A i \in 1 .. Len(net.up) : net.up[i] # "getState"
<1>1. net.up \in Seq(Asked)
  BY LobbyIs
<1>2. /\ Tail(net.up) \in Seq(Asked) /\ Len(Tail(net.up)) = Len(net.up) - 1 /\ Head(net.up) = net.up[1]
      /\ Head(net.up) \in Asked /\ Len(net.up) \in Nat
      /\ \A i \in 1 .. Len(net.up) - 1 : Tail(net.up)[i] = net.up[i + 1]
  BY <1>1
<1>3. ASSUME \A i \in 1 .. Len(Tail(net.up)) : Tail(net.up)[i] # "getState", Head(net.up) # "getState",
             NEW i \in 1 .. Len(net.up)
      PROVE  net.up[i] # "getState"
  <2>1. CASE i = 1
    BY <1>2, <1>3, <2>1
  <2>2. CASE i # 1
    <3>1. i - 1 \in 1 .. Len(net.up) - 1 /\ (i - 1) + 1 = i
      BY <1>2, <2>2
    <3>. QED  BY <1>2, <1>3, <3>1
  <2>. QED  BY <2>1, <2>2
<1>. QED  BY <1>2, <1>3

\* What serving a message does to the connection.
LobbyServed(down) ==
    /\ net' \in [conn: {"off", "on", "closing", "closed"}, up: Seq(Asked), down: Seq(RoomWords)]
    /\ net'.conn = "on" /\ net'.down = down
    /\ \A i \in 1 .. Len(down) : down[i].is # "replaced"
    /\ Head(net.up) # "getState" /\ crossed' = crossed /\ Steady' => Steady

LEMMA ServedIs ==
    ASSUME LobbyKept, net.conn = "on", net.up # << >>, NEW is, NEW room \in MaybeRoom,
           is \in {"joined", "state", "countdown", "started", "closed", "left", "error"}
    PROVE  /\ Tells(is, room) => LobbyServed(Append(net.down, [is |-> is, room |-> room]))
           /\ Takes => LobbyServed(net.down)
<1>. DEFINE m == [is |-> is, room |-> room]
<1>1. /\ m \in RoomWords /\ Says(is, room) = Append(net.down, m) /\ Says(is, room) \in Seq(RoomWords)
      /\ \A i \in 1 .. Len(net.down) : net.down[i].is # "replaced"
      /\ \A i \in 1 .. Len(Says(is, room)) : Says(is, room)[i].is # "replaced"
  <2>1. LobbyTypes /\ \A i \in 1 .. Len(net.down) : net.down[i].is # "replaced"
    BY DEF LobbyKept, LobbyLinked
  <2>. QED  BY <2>1, SaidIs
<1>. HIDE DEF m
<1>2. ASSUME NEW down \in Seq(RoomWords), net' = [net EXCEPT !.up = Tail(net.up), !.down = down],
             \A i \in 1 .. Len(down) : down[i].is # "replaced"
      PROVE  LobbyServed(down)
  <2>1. net'.conn = "on" /\ net'.up = Tail(net.up) /\ net'.down = down
    BY <1>2, LobbyIs
  <2>2. net' \in [conn: {"off", "on", "closing", "closed"}, up: Seq(Asked), down: Seq(RoomWords)]
    BY <1>2, UpIs, LobbyIs
  <2>3. Head(net.up) # "getState" /\ crossed' = crossed /\ Steady' => Steady
    BY <2>1, UpIs DEF Steady
  <2>. QED  BY <1>2, <2>1, <2>2, <2>3 DEF LobbyServed
<1>3. Tells(is, room) => LobbyServed(Append(net.down, m))
  <2>1. Tells(is, room) => net' = [net EXCEPT !.up = Tail(net.up), !.down = Says(is, room)]
    BY DEF Tells
  <2>. QED  BY <1>1, <1>2, <2>1
<1>4. Takes => LobbyServed(net.down)
  <2>1. Takes => net' = [net EXCEPT !.up = Tail(net.up), !.down = net.down]
    BY LobbyIs DEF Takes
  <2>. QED  BY <1>1, <1>2, <2>1, LobbyIs
<1>. QED  BY <1>3, <1>4 DEF m

\* What a step of the server keeps of the types.
ServerTypes ==
    /\ UNCHANGED <<page, queue>>
    /\ seat' \in [room: MaybeRoom, by: {"nobody", "current", "old", "other"}]
    /\ seat'.room = Nowhere => seat'.by = "nobody"
    /\ hashing' \in [kind: {"none", "create", "join"}, live: BOOLEAN]
    /\ replies' \in Seq(RedisAnswers) /\ crossed' \in BOOLEAN

LEMMA ServedKeeps ==
    ASSUME LobbyKept, NEW down, LobbyServed(down), ServerTypes, RoomKnown'
    PROVE  LobbyKept'
<1>1. LobbyTypes'
  BY DEF LobbyKept, LobbyTypes, LobbyServed, ServerTypes
<1>2. LobbyLinked'
  BY DEF LobbyServed, ServerTypes, LobbyLinked
<1>. QED  BY <1>1, <1>2 DEF LobbyKept

LEMMA SameSeat ==
    ASSUME LobbyKept
    PROVE  /\ seat \in [room: MaybeRoom, by: {"nobody", "current", "old", "other"}]
           /\ seat.room = Nowhere => seat.by = "nobody"
           /\ Unseated \in [room: MaybeRoom, by: {"nobody", "current", "old", "other"}]
           /\ Unseated.room = Nowhere /\ Unseated.by = "nobody"
BY DEF LobbyKept, LobbyTypes, LobbyLinked, Unseated, MaybeRoom

LEMMA RefusedKeeps ==
    ASSUME LobbyKept, net.conn = "on", net.up # << >>, Head(net.up) # "getState", Refuses, UNCHANGED <<page, queue>>
    PROVE  LobbyKept'
<1>. DEFINE m == [is |-> "error", room |-> Nowhere]
<1>1. Tells("error", Nowhere) /\ UNCHANGED <<seat, hashing, replies, crossed>>
  BY DEF Refuses
<1>2. LobbyServed(Append(net.down, m)) /\ m \in RoomWords
  BY <1>1, ServedIs, LobbyIs DEF RoomWords
<1>3. ServerTypes
  BY <1>1, SameSeat, LobbyIs DEF ServerTypes
<1>4. m.is = "error" /\ net'.down = Append(net.down, m) /\ (Steady' => Steady)
  BY <1>1, <1>2 DEF LobbyServed
<1>. HIDE DEF m
<1>5. Knows => Knows'
  BY <1>1, <1>2, <1>4, ToldError DEF LobbyKept
<1>6. RoomKnown'
  BY <1>1, <1>4, <1>5 DEF LobbyKept, RoomKnown, Outstanding
<1>. QED  BY <1>2, <1>3, <1>6, ServedKeeps

\* What tells of the seat as it is becomes known.
LEMMA ToldKeeps ==
    ASSUME LobbyKept, net.conn = "on", net.up # << >>, NEW is \in {"joined", "countdown", "left"}, Tells(is, seat'.room),
           is = "left" => seat'.room = Nowhere, ServerTypes, Steady' /\ seat'.room # Nowhere => seat'.by = "current"
    PROVE  LobbyKept'
<1>. DEFINE m == [is |-> is, room |-> seat'.room]
<1>1. seat'.room \in MaybeRoom
  BY DEF ServerTypes
<1>2. LobbyServed(Append(net.down, m)) /\ m \in RoomWords
  BY <1>1, ServedIs DEF RoomWords
<1>3. m.is = is /\ m.room = seat'.room /\ net'.down = Append(net.down, m)
  BY <1>2 DEF LobbyServed
<1>. HIDE DEF m
<1>4. Knows'
  BY <1>2, <1>3, ToldAll DEF LobbyKept, ServerTypes
<1>5. RoomKnown'
  BY <1>4 DEF RoomKnown
<1>. QED  BY <1>2, <1>5, ServedKeeps

LEMMA ReconnectKeeps ==
    ASSUME LobbyKept, net.conn = "on", net.up # << >>, seat.room # Nowhere, Reconnects, crossed' \in BOOLEAN,
           UNCHANGED <<page, queue>>
    PROVE  LobbyKept'
<1>1. seat' = [seat EXCEPT !.by = "current"] /\ Tells("joined", seat.room) /\ UNCHANGED <<hashing, replies>>
  BY DEF Reconnects
<1>2. seat'.room = seat.room /\ seat'.by = "current"
      /\ seat' \in [room: MaybeRoom, by: {"nobody", "current", "old", "other"}]
  BY <1>1, SameSeat
<1>3. ServerTypes
  BY <1>1, <1>2, LobbyIs DEF ServerTypes
<1>. QED  BY <1>1, <1>2, <1>3, ToldKeeps

\* The seat changes, and an answer is to tell of it.
LEMMA AwaitedKeeps ==
    ASSUME LobbyKept, net.conn = "on", net.up # << >>, Takes, ServerTypes,
           Steady' /\ seat'.room # Nowhere => seat'.by = "current", Steady' => Outstanding(seat'.room, replies')
    PROVE  LobbyKept'
<1>1. LobbyServed(net.down)
  BY ServedIs, LobbyIs
<1>2. RoomKnown'
  BY DEF RoomKnown, Outstanding
<1>. QED  BY <1>1, <1>2, ServedKeeps

LEMMA RoomIs ==
    ASSUME NEW id \in {"public", "private"}, NEW status \in {"waiting", "countdown", "in_game", "finished"},
           NEW admin \in BOOLEAN
    PROVE  /\ Room(id, status, admin) \in MaybeRoom /\ Room(id, status, admin) # Nowhere
           /\ Room(id, status, admin).id = id
BY LobbyAssumption DEF Room, MaybeRoom, LobbyRooms

LEMMA AnswerIs ==
    ASSUME LobbyKept, NEW is \in {"joined", "left", "away"}, NEW room \in MaybeRoom, NEW still \in BOOLEAN
    PROVE  /\ [is |-> is, room |-> room, live |-> still] \in RedisAnswers
           /\ Append(replies, [is |-> is, room |-> room, live |-> still]) \in Seq(RedisAnswers)
<1>1. [is |-> is, room |-> room, live |-> still] \in RedisAnswers
  BY DEF RedisAnswers
<1>. QED  BY <1>1, LobbyIs

LEMMA QuickPlayServed ==
    ASSUME LobbyKept, net.conn = "on", net.up # << >>, Head(net.up) = "quickPlay", ServeQuickPlay, UNCHANGED <<page, queue>>
    PROVE  LobbyKept'
<1>1. CASE Refuses
  BY <1>1, RefusedKeeps
<1>2. CASE seat.room # Nowhere /\ Reconnects /\ UNCHANGED crossed
  BY <1>2, ReconnectKeeps, LobbyIs
<1>3. CASE /\ seat.room = Nowhere /\ Takes
           /\ \E status \in {"waiting", "countdown"} :
                 seat' = [room |-> Room("public", status, FALSE), by |-> "current"]
           /\ Awaits("joined", seat'.room) /\ UNCHANGED <<hashing, crossed>>
  <2>1. PICK status \in {"waiting", "countdown"} : seat' = [room |-> Room("public", status, FALSE), by |-> "current"]
    BY <1>3
  <2>2. seat'.room \in MaybeRoom /\ seat'.room # Nowhere /\ seat'.by = "current"
        /\ seat' \in [room: MaybeRoom, by: {"nobody", "current", "old", "other"}]
    BY <2>1, RoomIs
  <2>. DEFINE a == [is |-> "joined", room |-> seat'.room, live |-> TRUE]
  <2>3. replies' = Append(replies, a) /\ a \in RedisAnswers /\ replies' \in Seq(RedisAnswers)
    BY <1>3, <2>2, AnswerIs DEF Awaits
  <2>4. a.live /\ a.is = "joined" /\ a.room.id = seat'.room.id
    OBVIOUS
  <2>. HIDE DEF a
  <2>5. Outstanding(seat'.room, replies')
    BY <2>2, <2>3, <2>4, AwaitsLast, LobbyIs
  <2>6. ServerTypes
    BY <1>3, <2>2, <2>3, LobbyIs DEF ServerTypes
  <2>. QED  BY <1>3, <2>2, <2>5, <2>6, AwaitedKeeps
<1>. QED  BY <1>1, <1>2, <1>3 DEF ServeQuickPlay

LEMMA RoomActionServed ==
    ASSUME LobbyKept, net.conn = "on", net.up # << >>, NEW kind \in {"create", "join"}, Head(net.up) = kind,
           ServeRoomAction(kind), UNCHANGED <<page, queue>>
    PROVE  LobbyKept'
<1>1. CASE Refuses
  BY <1>1, RefusedKeeps
<1>2. CASE seat.room # Nowhere /\ Reconnects /\ UNCHANGED crossed
  BY <1>2, ReconnectKeeps, LobbyIs
<1>3. CASE Takes /\ hashing' = [kind |-> kind, live |-> TRUE] /\ UNCHANGED <<seat, replies, crossed>>
  <2>1. ServerTypes
    BY <1>3, SameSeat, LobbyIs DEF ServerTypes
  <2>2. LobbyServed(net.down)
    BY <1>3, ServedIs, LobbyIs
  <2>3. Steady' => Steady
    BY <1>3, <2>2 DEF LobbyServed
  <2>4. Knows => Knows'
    BY <1>3, <2>2, ToldNothing DEF LobbyServed, Viewed
  <2>5. RoomKnown'
    BY <1>3, <2>3, <2>4 DEF LobbyKept, RoomKnown, Outstanding
  <2>. QED  BY <2>1, <2>2, <2>5, ServedKeeps
<1>. QED  BY <1>1, <1>2, <1>3 DEF ServeRoomAction

LEMMA LeaveServed ==
    ASSUME LobbyKept, net.conn = "on", net.up # << >>, Head(net.up) = "leave", ServeLeave, UNCHANGED <<page, queue>>
    PROVE  LobbyKept'
<1>1. CASE seat.room = Nowhere
  <2>1. Tells("left", Nowhere) /\ UNCHANGED <<seat, hashing, replies, crossed>>
    BY <1>1 DEF ServeLeave
  <2>2. ServerTypes
    BY <2>1, SameSeat, LobbyIs DEF ServerTypes
  <2>3. Tells("left", seat'.room) /\ seat'.room = Nowhere
    BY <1>1, <2>1
  <2>. QED  BY <2>2, <2>3, ToldKeeps
<1>2. CASE seat.room # Nowhere
  <2>1. Takes /\ seat' = Unseated /\ Awaits("left", Nowhere) /\ UNCHANGED <<hashing, crossed>>
    BY <1>2 DEF ServeLeave
  <2>. DEFINE a == [is |-> "left", room |-> Nowhere, live |-> TRUE]
  <2>2. replies' = Append(replies, a) /\ a \in RedisAnswers /\ replies' \in Seq(RedisAnswers)
    BY <2>1, AnswerIs, LobbyIs DEF Awaits
  <2>3. a.live /\ a.is = "left"
    OBVIOUS
  <2>. HIDE DEF a
  <2>4. seat'.room = Nowhere /\ seat' = Unseated
    BY <2>1, SameSeat
  <2>5. Outstanding(seat'.room, replies')
    BY <2>2, <2>3, <2>4, AwaitsLast, LobbyIs
  <2>6. ServerTypes
    BY <2>1, <2>2, SameSeat, LobbyIs DEF ServerTypes
  <2>. QED  BY <2>1, <2>4, <2>5, <2>6, AwaitedKeeps
<1>. QED  BY <1>1, <1>2

LEMMA RoomMoved ==
    ASSUME NEW room \in MaybeRoom, room # Nowhere
    PROVE  /\ room \in LobbyRooms
           /\ \A status \in {"waiting", "countdown", "in_game", "finished"} :
                 /\ [room EXCEPT !.status = status] \in MaybeRoom /\ [room EXCEPT !.status = status] # Nowhere
                 /\ [room EXCEPT !.status = status].id = room.id
           /\ [room EXCEPT !.admin = TRUE] \in MaybeRoom /\ [room EXCEPT !.admin = TRUE] # Nowhere
           /\ [room EXCEPT !.admin = TRUE].id = room.id
<1>1. room \in LobbyRooms
  BY DEF MaybeRoom
<1>2. \A status \in {"waiting", "countdown", "in_game", "finished"} :
        [room EXCEPT !.status = status] \in LobbyRooms /\ [room EXCEPT !.status = status].id = room.id
  BY <1>1 DEF LobbyRooms
<1>3. [room EXCEPT !.admin = TRUE] \in LobbyRooms /\ [room EXCEPT !.admin = TRUE].id = room.id
  BY <1>1 DEF LobbyRooms
<1>. QED  BY <1>1, <1>2, <1>3, LobbyAssumption DEF MaybeRoom

LEMMA StartServed ==
    ASSUME LobbyKept, net.conn = "on", net.up # << >>, Head(net.up) = "start", ServeStart, UNCHANGED <<page, queue>>
    PROVE  LobbyKept'
<1>1. CASE Refuses
  BY <1>1, RefusedKeeps
<1>2. CASE Takes /\ UNCHANGED <<seat, hashing, replies, crossed>>
  <2>1. ServerTypes
    BY <1>2, SameSeat, LobbyIs DEF ServerTypes
  <2>2. LobbyServed(net.down)
    BY <1>2, ServedIs, LobbyIs
  <2>3. Steady' => Steady
    BY <1>2, <2>2 DEF LobbyServed
  <2>4. Knows => Knows'
    BY <1>2, <2>2, ToldNothing DEF LobbyServed, Viewed
  <2>5. RoomKnown'
    BY <1>2, <2>3, <2>4 DEF LobbyKept, RoomKnown, Outstanding
  <2>. QED  BY <2>1, <2>2, <2>5, ServedKeeps
<1>3. CASE /\ Startable(seat.room)
           /\ seat' = [seat EXCEPT !.room.status = "countdown"]
           /\ IF seat.by = "current" THEN Tells("countdown", seat'.room) ELSE Takes
           /\ UNCHANGED <<hashing, replies, crossed>>
  <2>1. seat.room \in MaybeRoom /\ seat.room # Nowhere
    BY <1>3, LobbyIs DEF Startable
  <2>2. seat' = [seat EXCEPT !.room = [seat.room EXCEPT !.status = "countdown"]]
    BY <1>3
  <2>3. seat'.room = [seat.room EXCEPT !.status = "countdown"] /\ seat'.by = seat.by
        /\ seat' \in [room: MaybeRoom, by: {"nobody", "current", "old", "other"}] /\ seat'.room # Nowhere
    BY <2>1, <2>2, RoomMoved, SameSeat
  <2>4. ServerTypes
    BY <1>3, <2>3, LobbyIs DEF ServerTypes
  <2>5. CASE seat.by = "current"
    BY <1>3, <2>3, <2>4, <2>5, ToldKeeps
  <2>6. CASE seat.by # "current"
    <3>1. LobbyServed(net.down)
      BY <1>3, <2>6, ServedIs, LobbyIs
    <3>2. ~Steady'
      BY <1>3, <2>1, <2>6, <3>1 DEF LobbyServed, LobbyKept, RoomKnown
    <3>. QED  BY <2>4, <3>1, <3>2, ServedKeeps DEF RoomKnown
  <2>. QED  BY <2>5, <2>6
<1>. QED  BY <1>1, <1>2, <1>3 DEF ServeStart

LEMMA ServeKeeps == ASSUME LobbyKept, Serve PROVE LobbyKept'
<1>1. net.conn = "on" /\ net.up # << >> /\ UNCHANGED <<page, queue>>
  BY DEF Serve, clientVars
<1>2. Head(net.up) \in {"getState", "quickPlay", "create", "join", "leave", "start"}
  BY <1>1, UpIs DEF Asked
<1>3. CASE Head(net.up) = "getState"
  <2>1. GetRoomState
    BY <1>3 DEF Serve
  <2>2. CASE seat.room = Nowhere
    <3>1. Tells("left", Nowhere) /\ UNCHANGED <<seat, hashing, replies>> /\ crossed' = FALSE
      BY <2>1, <2>2 DEF GetRoomState
    <3>2. ServerTypes
      BY <1>1, <3>1, SameSeat, LobbyIs DEF ServerTypes
    <3>3. Tells("left", seat'.room) /\ seat'.room = Nowhere
      BY <2>2, <3>1
    <3>. QED  BY <1>1, <3>2, <3>3, ToldKeeps
  <2>3. CASE seat.room # Nowhere
    BY <1>1, <2>1, <2>3, ReconnectKeeps DEF GetRoomState
  <2>. QED  BY <2>2, <2>3
<1>4. CASE Head(net.up) = "quickPlay"
  BY <1>1, <1>4, QuickPlayServed DEF Serve
<1>5. CASE Head(net.up) \in {"create", "join"}
  <2>1. ServeRoomAction(Head(net.up))
    BY <1>5 DEF Serve
  <2>. QED  BY <1>1, <1>5, <2>1, RoomActionServed
<1>6. CASE Head(net.up) = "leave"
  BY <1>1, <1>6, LeaveServed DEF Serve
<1>7. CASE Head(net.up) = "start"
  BY <1>1, <1>7, StartServed DEF Serve
<1>. QED  BY <1>2, <1>3, <1>4, <1>5, <1>6, <1>7

-----------------------------------------------------------------------------
(* The server: what it awaited, and what others do. *)

Replied ==
    /\ net' \in [conn: {"off", "on", "closing", "closed"}, up: Seq(Asked), down: Seq(RoomWords)]
    /\ net'.conn = net.conn /\ net'.up = net.up
    /\ net.conn \in {"off", "closed"} => net'.down = << >>
    /\ net.conn = "on" => \A i \in 1 .. Len(net'.down) : net'.down[i].is # "replaced"

LEMMA NotReplied == ASSUME LobbyKept, UNCHANGED net PROVE Replied /\ net'.down = net.down
BY LobbyIs DEF LobbyKept, LobbyLinked, Replied

LEMMA RepliedIs ==
    ASSUME LobbyKept, NEW still \in BOOLEAN, NEW room \in MaybeRoom,
           NEW is \in {"joined", "state", "countdown", "started", "closed", "left", "error"}, Replies(still, is, room)
    PROVE  /\ Replied /\ [is |-> is, room |-> room] \in RoomWords
           /\ net'.down = IF still /\ net.conn = "on" THEN Append(net.down, [is |-> is, room |-> room]) ELSE net.down
<1>. DEFINE m == [is |-> is, room |-> room]
<1>1. /\ m \in RoomWords /\ Says(is, room) = Append(net.down, m) /\ Says(is, room) \in Seq(RoomWords)
      /\ net.conn = "on" => \A i \in 1 .. Len(Says(is, room)) : Says(is, room)[i].is # "replaced"
  <2>1. LobbyTypes /\ (net.conn = "on" => \A i \in 1 .. Len(net.down) : net.down[i].is # "replaced")
    BY DEF LobbyKept, LobbyLinked
  <2>. QED  BY <2>1, SaidIs
<1>. HIDE DEF m
<1>2. CASE still /\ net.conn = "on"
  <2>1. net' = [net EXCEPT !.down = Says(is, room)]
    BY <1>2 DEF Replies
  <2>2. net'.conn = net.conn /\ net'.up = net.up /\ net'.down = Says(is, room)
        /\ net' \in [conn: {"off", "on", "closing", "closed"}, up: Seq(Asked), down: Seq(RoomWords)]
    BY <1>1, <2>1, LobbyIs
  <2>. QED  BY <1>1, <1>2, <2>2 DEF Replied, m
<1>3. CASE ~(still /\ net.conn = "on")
  <2>1. UNCHANGED net
    BY <1>3 DEF Replies
  <2>. QED  BY <1>1, <1>3, <2>1, NotReplied DEF m
<1>. QED  BY <1>2, <1>3

LEMMA RepliedKeeps ==
    ASSUME LobbyKept, Replied, ServerTypes, RoomKnown'
    PROVE  LobbyKept'
<1>1. LobbyTypes'
  BY DEF LobbyKept, LobbyTypes, Replied, ServerTypes
<1>2. LobbyLinked'
  BY DEF Replied, ServerTypes, LobbyLinked
<1>. QED  BY <1>1, <1>2 DEF LobbyKept

LEMMA PasswordKeeps == ASSUME LobbyKept, PasswordChecked PROVE LobbyKept'
<1>1. hashing' = NoHash /\ UNCHANGED <<page, queue>> /\ hashing' \in [kind: {"none", "create", "join"}, live: BOOLEAN]
  BY DEF PasswordChecked, clientVars, NoHash
<1>2. CASE Replies(hashing.live, "error", Nowhere) /\ UNCHANGED <<seat, replies, crossed>>
  <2>. DEFINE m == [is |-> "error", room |-> Nowhere]
  <2>1. Replied /\ m \in RoomWords
        /\ net'.down = IF hashing.live /\ net.conn = "on" THEN Append(net.down, m) ELSE net.down
    BY <1>2, RepliedIs, LobbyIs
  <2>2. ServerTypes
    BY <1>1, <1>2, SameSeat, LobbyIs DEF ServerTypes
  <2>3. m.is = "error"
    OBVIOUS
  <2>. HIDE DEF m
  <2>4. Knows => Knows'
    BY <1>1, <1>2, <2>1, <2>3, ToldError, ToldNothing DEF LobbyKept, Viewed
  <2>5. RoomKnown'
    BY <1>2, <2>1, <2>4 DEF LobbyKept, RoomKnown, Steady, Replied, Outstanding
  <2>. QED  BY <2>1, <2>2, <2>5, RepliedKeeps
<1>3. CASE /\ seat.room = Nowhere
           /\ seat' = [room |-> Room("private", "waiting", hashing.kind = "create"),
                       by   |-> IF hashing.live THEN "current" ELSE "old"]
           /\ replies' = Append(replies, [is |-> "joined", room |-> seat'.room, live |-> hashing.live])
           /\ crossed' = (crossed \/ ~hashing.live) /\ UNCHANGED net
  <2>1. seat'.room \in MaybeRoom /\ seat'.room # Nowhere /\ seat'.by = (IF hashing.live THEN "current" ELSE "old")
        /\ seat' \in [room: MaybeRoom, by: {"nobody", "current", "old", "other"}]
    BY <1>3, RoomIs
  <2>. DEFINE a == [is |-> "joined", room |-> seat'.room, live |-> hashing.live]
  <2>2. replies' = Append(replies, a) /\ a \in RedisAnswers /\ replies' \in Seq(RedisAnswers)
    BY <1>3, <2>1, AnswerIs, LobbyIs
  <2>3. a.live = hashing.live /\ a.is = "joined" /\ a.room.id = seat'.room.id
    OBVIOUS
  <2>. HIDE DEF a
  <2>4. hashing.live => Outstanding(seat'.room, replies')
    BY <2>1, <2>2, <2>3, AwaitsLast, LobbyIs
  <2>5. ServerTypes
    BY <1>1, <1>3, <2>1, <2>2, LobbyIs DEF ServerTypes
  <2>6. RoomKnown'
    BY <1>3, <2>1, <2>4, LobbyIs DEF RoomKnown, Steady, Outstanding
  <2>. QED  BY <1>3, <2>5, <2>6, NotReplied, RepliedKeeps
<1>. QED  BY <1>2, <1>3 DEF PasswordChecked

LEMMA FirstAnswerIs ==
    ASSUME LobbyKept, RedisReplies \/ RedisRejects
    PROVE  /\ replies # << >> /\ Head(replies) \in RedisAnswers /\ replies' = Tail(replies) /\ replies' \in Seq(RedisAnswers)
           /\ Head(replies).live \in BOOLEAN /\ Head(replies).room \in MaybeRoom
           /\ Head(replies).is \in {"joined", "left", "away"}
           /\ UNCHANGED <<page, queue, hashing>> /\ hashing' \in [kind: {"none", "create", "join"}, live: BOOLEAN]
<1>1. replies # << >> /\ replies \in Seq(RedisAnswers) /\ replies' = Tail(replies) /\ UNCHANGED <<page, queue, hashing>>
  BY LobbyIs DEF RedisReplies, RedisRejects, clientVars
<1>2. Head(replies) \in RedisAnswers /\ replies' \in Seq(RedisAnswers)
  BY <1>1
<1>. QED  BY <1>1, <1>2, LobbyIs DEF RedisAnswers

LEMMA JoinAnswered ==
    ASSUME LobbyKept, RedisReplies, Head(replies).is = "joined"
    PROVE  LobbyKept'
<1>. DEFINE r == Head(replies)
            here == r.room # Nowhere /\ seat.room # Nowhere /\ seat.room.id = r.room.id
            outdated == r.live /\ ~here /\ ~Outstanding(seat.room, replies')
<1>1. /\ \/ UNCHANGED seat
         \/ here /\ seat' = [seat EXCEPT !.room.status = "countdown"]
      /\ crossed' = (crossed \/ outdated)
      /\ r.live => Replies(TRUE, "joined", IF here THEN seat'.room ELSE r.room)
      /\ ~r.live => Replies(here /\ seat.by = "current", IF seat' = seat THEN "state" ELSE "countdown", seat'.room)
  BY DEF RedisReplies
<1>2. /\ r \in RedisAnswers /\ r.live \in BOOLEAN /\ r.room \in MaybeRoom /\ replies' = Tail(replies) /\ replies # << >>
      /\ replies' \in Seq(RedisAnswers) /\ UNCHANGED <<page, queue>>
      /\ hashing' \in [kind: {"none", "create", "join"}, live: BOOLEAN]
  BY FirstAnswerIs
<1>3. here \in BOOLEAN /\ (here => seat.room # Nowhere)
  OBVIOUS
<1>4. outdated \in BOOLEAN /\ (r.live /\ ~here /\ ~outdated => Outstanding(seat.room, replies'))
  BY <1>2
<1>. HIDE DEF here, outdated, r
<1>5. /\ seat' \in [room: MaybeRoom, by: {"nobody", "current", "old", "other"}] /\ seat'.by = seat.by
      /\ seat'.room = Nowhere <=> seat.room = Nowhere
      /\ seat.room # Nowhere => seat'.room.id = seat.room.id
      /\ ~here => seat' = seat
      /\ seat'.room \in MaybeRoom
  <2>1. CASE UNCHANGED seat
    BY <2>1, SameSeat
  <2>2. CASE here /\ seat' = [seat EXCEPT !.room.status = "countdown"]
    <3>1. seat.room \in MaybeRoom /\ seat.room # Nowhere
      BY <1>3, <2>2, LobbyIs
    <3>2. seat' = [seat EXCEPT !.room = [seat.room EXCEPT !.status = "countdown"]]
      BY <2>2
    <3>3. seat'.room = [seat.room EXCEPT !.status = "countdown"] /\ seat'.by = seat.by
          /\ seat' \in [room: MaybeRoom, by: {"nobody", "current", "old", "other"}]
      BY <3>1, <3>2, RoomMoved, SameSeat
    <3>. QED  BY <2>2, <3>1, <3>3, RoomMoved
  <2>. QED  BY <1>1, <2>1, <2>2
<1>6. ServerTypes
  BY <1>1, <1>2, <1>4, <1>5, SameSeat, LobbyIs DEF ServerTypes
<1>7. Outstanding(seat.room, replies') => Outstanding(seat'.room, replies')
  BY <1>5 DEF Outstanding
<1>8. Replied
  <2>1. CASE r.live
    BY <1>1, <1>2, <1>5, <2>1, RepliedIs
  <2>2. CASE ~r.live
    BY <1>1, <1>3, <1>5, <2>2, RepliedIs
  <2>. QED  BY <2>1, <2>2
<1>9. ASSUME Steady' PROVE Steady /\ ~outdated /\ net.conn = "on"
  BY <1>1, <1>4, <1>8, <1>9, LobbyIs DEF Steady, Replied
<1>10. ASSUME Steady' PROVE (seat'.room # Nowhere => seat'.by = "current") /\ (Knows' \/ Outstanding(seat'.room, replies'))
  <2>1. Steady /\ ~outdated /\ net.conn = "on" /\ (seat.room # Nowhere => seat.by = "current")
    BY <1>9, <1>10 DEF LobbyKept, RoomKnown
  <2>2. CASE r.live /\ here
    <3>. DEFINE m == [is |-> "joined", room |-> seat'.room]
    <3>1. m \in RoomWords /\ net'.down = Append(net.down, m)
      BY <1>1, <1>5, <2>1, <2>2, RepliedIs
    <3>2. m.is = "joined" /\ m.room = seat'.room
      OBVIOUS
    <3>. HIDE DEF m
    <3>3. Knows'
      BY <1>2, <3>1, <3>2, ToldAll DEF LobbyKept
    <3>. QED  BY <1>5, <2>1, <3>3
  <2>3. CASE r.live /\ ~here
    BY <1>4, <1>5, <1>7, <2>1, <2>3
  <2>4. CASE ~r.live
    <3>1. Outstanding(seat.room, replies) => Outstanding(seat'.room, replies')
      BY <1>2, <1>7, <2>4, AwaitsStill, LobbyIs DEF r
    <3>2. ASSUME Knows PROVE Knows'
      <4>1. CASE here /\ seat' = seat
        <5>. DEFINE m == [is |-> "state", room |-> seat'.room]
        <5>1. m \in RoomWords /\ net'.down = Append(net.down, m)
          BY <1>1, <1>3, <1>5, <2>1, <2>4, <4>1, RepliedIs
        <5>2. m.is = "state" /\ m.room = seat'.room /\ seat.room.id = m.room.id /\ seat.room # Nowhere
          BY <1>3, <4>1
        <5>. HIDE DEF m
        <5>. QED  BY <1>2, <3>2, <5>1, <5>2, ToldState DEF LobbyKept
      <4>2. CASE here /\ seat' # seat
        <5>. DEFINE m == [is |-> "countdown", room |-> seat'.room]
        <5>1. m \in RoomWords /\ net'.down = Append(net.down, m)
          BY <1>1, <1>3, <1>5, <2>1, <2>4, <4>2, RepliedIs
        <5>2. m.is = "countdown" /\ m.room = seat'.room
          OBVIOUS
        <5>. HIDE DEF m
        <5>. QED  BY <1>2, <5>1, <5>2, ToldAll DEF LobbyKept
      <4>3. CASE ~here
        <5>1. net'.down = net.down
          <6>1. (here /\ seat.by = "current") = FALSE
            BY <1>3, <4>3
          <6>. QED  BY <1>1, <1>5, <2>4, <6>1, RepliedIs
        <5>. QED  BY <1>2, <1>5, <3>2, <4>3, <5>1, ToldNothing DEF Viewed
      <4>. QED  BY <1>3, <4>1, <4>2, <4>3
    <3>. QED  BY <1>5, <2>1, <3>1, <3>2 DEF LobbyKept, RoomKnown
  <2>. QED  BY <1>2, <1>3, <2>2, <2>3, <2>4
<1>11. RoomKnown'
  BY <1>10 DEF RoomKnown, Outstanding
<1>. QED  BY <1>6, <1>8, <1>11, RepliedKeeps

LEMMA LeaveAnswered ==
    ASSUME LobbyKept, RedisReplies, Head(replies).is = "left"
    PROVE  LobbyKept'
<1>. DEFINE r == Head(replies)
            outdated == r.live /\ seat.room # Nowhere /\ ~Outstanding(seat.room, replies')
            m == [is |-> "left", room |-> Nowhere]
<1>1. Replies(r.live, "left", Nowhere) /\ UNCHANGED seat /\ crossed' = (crossed \/ outdated)
  BY DEF RedisReplies
<1>2. /\ r \in RedisAnswers /\ r.live \in BOOLEAN /\ replies' = Tail(replies) /\ replies # << >>
      /\ replies' \in Seq(RedisAnswers) /\ UNCHANGED <<page, queue>>
      /\ hashing' \in [kind: {"none", "create", "join"}, live: BOOLEAN]
  BY FirstAnswerIs
<1>3. outdated \in BOOLEAN
  BY <1>2
<1>4. r.live /\ ~outdated => seat.room = Nowhere \/ Outstanding(seat.room, replies')
  OBVIOUS
<1>5. m.is = "left" /\ m.room = Nowhere
  OBVIOUS
<1>. HIDE DEF outdated, r, m
<1>6. ServerTypes
  BY <1>1, <1>2, <1>3, SameSeat, LobbyIs DEF ServerTypes
<1>7. Replied /\ m \in RoomWords
      /\ net'.down = IF r.live /\ net.conn = "on" THEN Append(net.down, m) ELSE net.down
  BY <1>1, <1>2, RepliedIs, LobbyIs DEF m
<1>8. ASSUME Steady' PROVE (seat'.room # Nowhere => seat'.by = "current") /\ (Knows' \/ Outstanding(seat'.room, replies'))
  <2>1. Steady /\ ~outdated /\ net.conn = "on"
    BY <1>1, <1>3, <1>7, <1>8, LobbyIs DEF Steady, Replied
  <2>2. CASE r.live /\ seat.room = Nowhere
    <3>1. Knows'
      BY <1>1, <1>2, <1>5, <1>7, <2>1, <2>2, ToldAll DEF LobbyKept
    <3>. QED  BY <1>1, <2>2, <3>1
  <2>3. CASE r.live /\ seat.room # Nowhere
    BY <1>1, <1>4, <2>1, <2>3 DEF LobbyKept, RoomKnown
  <2>4. CASE ~r.live
    <3>1. Outstanding(seat.room, replies) => Outstanding(seat.room, replies')
      BY <1>2, <2>4, AwaitsStill, LobbyIs DEF r
    <3>2. Knows => Knows'
      BY <1>1, <1>2, <1>7, <2>4, ToldNothing DEF Viewed
    <3>. QED  BY <1>1, <2>1, <3>1, <3>2 DEF LobbyKept, RoomKnown
  <2>. QED  BY <1>2, <2>2, <2>3, <2>4
<1>9. RoomKnown'
  BY <1>8 DEF RoomKnown, Outstanding
<1>. QED  BY <1>6, <1>7, <1>9, RepliedKeeps

LEMMA RejectedKeeps == ASSUME LobbyKept, RedisRejects PROVE LobbyKept'
<1>. DEFINE r == Head(replies)
            concerns == r.is # "away" /\ r.live
            failed == r.is = "joined" /\ r.live
            m == [is |-> "error", room |-> Nowhere]
            heard == Outstanding(seat'.room, replies')
            moved == seat' # seat
<1>1. /\ UNCHANGED seat \/ seat' = Unseated
      /\ Replies(failed, "error", Nowhere)
      /\ crossed' = (crossed \/ moved \/ (concerns /\ ~heard))
  BY DEF RedisRejects
<1>2. /\ replies' = Tail(replies) /\ replies # << >> /\ replies' \in Seq(RedisAnswers)
      /\ r.live \in BOOLEAN /\ UNCHANGED <<page, queue>>
      /\ hashing' \in [kind: {"none", "create", "join"}, live: BOOLEAN]
  BY FirstAnswerIs
<1>3. /\ concerns \in BOOLEAN /\ failed \in BOOLEAN /\ heard \in BOOLEAN /\ moved \in BOOLEAN
      /\ ~concerns => ~r.live \/ r.is = "away"
      /\ m.is = "error"
  BY <1>2 DEF Outstanding
<1>4. moved = FALSE => seat' = seat
  OBVIOUS
<1>. HIDE DEF concerns, failed, heard, moved, m
<1>5. ServerTypes
  BY <1>1, <1>2, <1>3, SameSeat, LobbyIs DEF ServerTypes
<1>6. Replied /\ m \in RoomWords
      /\ net'.down = IF failed /\ net.conn = "on" THEN Append(net.down, m) ELSE net.down
  BY <1>1, <1>3, RepliedIs, LobbyIs DEF m
<1>7. ASSUME Steady' PROVE (seat'.room # Nowhere => seat'.by = "current") /\ (Knows' \/ Outstanding(seat'.room, replies'))
  <2>1. Steady /\ seat' = seat /\ (concerns => heard)
    BY <1>1, <1>3, <1>4, <1>6, <1>7, LobbyIs DEF Steady, Replied
  <2>2. Knows => Knows'
    BY <1>2, <1>3, <1>6, <2>1, ToldError, ToldNothing DEF LobbyKept, Viewed
  <2>3. CASE concerns
    BY <2>1, <2>3 DEF LobbyKept, RoomKnown, heard
  <2>4. CASE ~concerns
    <3>1. Outstanding(seat.room, replies) => Outstanding(seat.room, replies')
      BY <1>2, <1>3, <2>4, AwaitsStill, LobbyIs
    <3>. QED  BY <2>1, <2>2, <3>1 DEF LobbyKept, RoomKnown
  <2>. QED  BY <2>3, <2>4
<1>8. RoomKnown'
  BY <1>7 DEF RoomKnown, Outstanding
<1>. QED  BY <1>5, <1>6, <1>8, RepliedKeeps

LEMMA AnsweredKeeps == ASSUME LobbyKept, RedisReplies PROVE LobbyKept'
<1>1. Head(replies).is \in {"joined", "left", "away"}
  BY FirstAnswerIs
<1>2. CASE Head(replies).is = "away"
  <2>1. crossed' = TRUE /\ UNCHANGED net /\ (seat' = Unseated \/ UNCHANGED seat)
    BY <1>2 DEF RedisReplies
  <2>2. ServerTypes
    BY <2>1, FirstAnswerIs, SameSeat DEF ServerTypes
  <2>3. RoomKnown'
    BY <2>1 DEF RoomKnown, Steady
  <2>. QED  BY <2>1, <2>2, <2>3, NotReplied, RepliedKeeps
<1>. QED  BY <1>1, <1>2, JoinAnswered, LeaveAnswered

\* Only a socket that nobody holds a seat with is found to be gone.
LEMMA DisconnectsKeeps == ASSUME LobbyKept, Disconnects PROVE LobbyKept'
<1>1. UNCHANGED <<net, page, queue, hashing, crossed>>
  BY DEF Disconnects, clientVars
<1>2. Replied /\ (Steady' => Steady) /\ Viewed' = Viewed
  BY <1>1, NotReplied DEF Steady, Viewed
<1>3. CASE seat.by # "old"
  <2>1. UNCHANGED <<seat, replies>>
    BY <1>3 DEF Disconnects
  <2>2. ServerTypes
    BY <1>1, <2>1, SameSeat, LobbyIs DEF ServerTypes
  <2>3. RoomKnown'
    BY <1>1, <1>2, <2>1, ToldNothing DEF LobbyKept, RoomKnown, Outstanding
  <2>. QED  BY <1>2, <2>2, <2>3, RepliedKeeps
<1>4. CASE seat.by = "old"
  <2>1. seat' = [seat EXCEPT !.by = "nobody"] /\ (replies' = replies \/ Awaits("away", seat.room))
    BY <1>4 DEF Disconnects
  <2>2. replies' \in Seq(RedisAnswers)
    <3>1. Awaits("away", seat.room) => replies' = Append(replies, [is |-> "away", room |-> seat.room, live |-> TRUE])
      BY DEF Awaits
    <3>. QED  BY <2>1, <3>1, AnswerIs, LobbyIs
  <2>3. ServerTypes
    BY <1>1, <2>1, <2>2, SameSeat, LobbyIs DEF ServerTypes
  <2>4. seat.room # Nowhere
    BY <1>4, SameSeat
  <2>5. ~Steady
    BY <1>4, <2>4 DEF LobbyKept, RoomKnown
  <2>. QED  BY <1>2, <2>3, <2>5, RepliedKeeps DEF RoomKnown
<1>. QED  BY <1>3, <1>4

LEMMA MovesKeep ==
    ASSUME LobbyKept, NEW is, NEW room \in MaybeRoom, seat.room # Nowhere, Moves(is, room),
           UNCHANGED <<clientVars, hashing, replies, unseen, crossed>>,
           \/ is \in {"countdown", "started"} /\ room # Nowhere
           \/ is \in {"left", "closed"} /\ room = Nowhere
           \/ is = "state" /\ room # Nowhere /\ room.id = seat.room.id
    PROVE  LobbyKept'
<1>. DEFINE m == [is |-> is, room |-> room]
            hears == seat.by = "current"
<1>1. UNCHANGED <<page, queue, hashing, replies, crossed>>
      /\ is \in {"joined", "state", "countdown", "started", "closed", "left", "error"}
  BY DEF clientVars
<1>2. seat' = (IF room = Nowhere THEN Unseated ELSE [seat EXCEPT !.room = room])
      /\ Replies(hears, is, room)
  BY DEF Moves, Replies
<1>3. seat'.room = room /\ (room # Nowhere => seat'.by = seat.by) /\ (room = Nowhere => seat'.by = "nobody")
      /\ seat' \in [room: MaybeRoom, by: {"nobody", "current", "old", "other"}]
  BY <1>2, SameSeat
<1>4. ServerTypes
  BY <1>1, <1>3, LobbyIs DEF ServerTypes
<1>5. hears \in BOOLEAN
  OBVIOUS
<1>6. m.is = is /\ m.room = room
  OBVIOUS
<1>. HIDE DEF m, hears
<1>7. Replied /\ m \in RoomWords
      /\ net'.down = IF hears /\ net.conn = "on" THEN Append(net.down, m) ELSE net.down
  BY <1>1, <1>2, <1>5, RepliedIs DEF m
<1>8. ASSUME Steady' PROVE (seat'.room # Nowhere => seat'.by = "current") /\ (Knows' \/ Outstanding(seat'.room, replies'))
  <2>1. Steady /\ net.conn = "on"
    BY <1>1, <1>7, <1>8 DEF Steady, Replied
  <2>2. seat.by = "current" /\ net'.down = Append(net.down, m)
    BY <1>7, <2>1 DEF LobbyKept, RoomKnown, hears
  <2>3. CASE is \in {"countdown", "started", "left", "closed"}
    <3>1. Knows'
      BY <1>1, <1>3, <1>6, <1>7, <2>2, <2>3, ToldAll DEF LobbyKept
    <3>. QED  BY <1>3, <2>2, <3>1
  <2>4. CASE is = "state"
    <3>1. Knows => Knows'
      BY <1>1, <1>3, <1>6, <1>7, <2>2, <2>4, ToldState DEF LobbyKept
    <3>2. Outstanding(seat.room, replies) => Outstanding(seat'.room, replies')
      BY <1>1, <1>3, <2>4 DEF Outstanding
    <3>. QED  BY <1>3, <2>1, <2>2, <2>4, <3>1, <3>2 DEF LobbyKept, RoomKnown
  <2>. QED  BY <2>3, <2>4
<1>9. RoomKnown'
  BY <1>8 DEF RoomKnown, Outstanding
<1>. QED  BY <1>4, <1>7, <1>9, RepliedKeeps

LEMMA RoomMovesKeeps == ASSUME LobbyKept, RoomMoves PROVE LobbyKept'
<1>1. seat.room # Nowhere /\ seat.room \in MaybeRoom /\ Nowhere \in MaybeRoom
      /\ UNCHANGED <<clientVars, hashing, replies, unseen, crossed>>
  BY LobbyIs DEF RoomMoves
<1>2. \/ Moves("countdown", [seat.room EXCEPT !.status = "countdown"])
      \/ Moves("countdown", [seat.room EXCEPT !.status = "waiting"])
      \/ Moves("left", Nowhere) \/ Moves("closed", Nowhere)
      \/ Moves("started", [seat.room EXCEPT !.status = "in_game"])
      \/ Moves("state", [seat.room EXCEPT !.status = "finished"])
      \/ Moves("state", [seat.room EXCEPT !.status = "waiting"])
      \/ Moves("state", [seat.room EXCEPT !.admin = TRUE])
  BY DEF RoomMoves
<1>3. /\ \A status \in {"waiting", "countdown", "in_game", "finished"} :
            /\ [seat.room EXCEPT !.status = status] \in MaybeRoom /\ [seat.room EXCEPT !.status = status] # Nowhere
            /\ [seat.room EXCEPT !.status = status].id = seat.room.id
      /\ [seat.room EXCEPT !.admin = TRUE] \in MaybeRoom /\ [seat.room EXCEPT !.admin = TRUE] # Nowhere
      /\ [seat.room EXCEPT !.admin = TRUE].id = seat.room.id
  BY <1>1, RoomMoved
<1>4. ASSUME NEW is, NEW room, Moves(is, room), room \in MaybeRoom,
             \/ is \in {"countdown", "started"} /\ room # Nowhere
             \/ is \in {"left", "closed"} /\ room = Nowhere
             \/ is = "state" /\ room # Nowhere /\ room.id = seat.room.id
      PROVE  LobbyKept'
  BY <1>1, <1>4, MovesKeep
<1>. QED  BY <1>1, <1>2, <1>3, <1>4

-----------------------------------------------------------------------------
(* The lobby, together. *)

LEMMA LobbyBegins == LobbyInit => LobbyKept
<1>. SUFFICES ASSUME LobbyInit PROVE LobbyKept
  OBVIOUS
<1>1. << >> \in Seq(Asked) /\ << >> \in Seq(RoomWords) /\ << >> \in Seq(RedisAnswers)
  OBVIOUS
<1>2. net = [conn |-> "off", up |-> << >>, down |-> << >>] /\ page = NoPage /\ queue = NewQueue
      /\ seat = Unseated /\ hashing = NoHash /\ replies = << >> /\ crossed = FALSE
  BY DEF LobbyInit
<1>3. net \in [conn: {"off", "on", "closing", "closed"}, up: Seq(Asked), down: Seq(RoomWords)]
      /\ net.conn = "off" /\ net.down = << >>
  BY <1>1, <1>2
<1>4. /\ queue \in [room: MaybeRoom, starting: BOOLEAN] /\ seat.by = "nobody"
      /\ seat \in [room: MaybeRoom, by: {"nobody", "current", "old", "other"}]
      /\ hashing \in [kind: {"none", "create", "join"}, live: BOOLEAN]
  BY <1>2 DEF NewQueue, Unseated, NoHash, MaybeRoom
<1>5. LobbyTypes
  BY <1>1, <1>2, <1>3, <1>4, NewPagesAre DEF LobbyTypes, MaybeRoom
<1>6. LobbyLinked /\ ~Steady
  BY <1>3, <1>4 DEF LobbyLinked, Steady
<1>. QED  BY <1>5, <1>6 DEF LobbyKept, RoomKnown

LEMMA LobbyInductive == LobbyKept /\ [LobbyNext]_lobbyVars => LobbyKept'
<1>. SUFFICES ASSUME LobbyKept, [LobbyNext]_lobbyVars PROVE LobbyKept'
  OBVIOUS
<1>1. CASE UNCHANGED lobbyVars
  BY <1>1 DEF lobbyVars, LobbyKept, LobbyTypes, LobbyLinked, RoomKnown, Steady, Knows, Viewed, Outstanding
<1>2. CASE LobbyNext
  <2>1. ASSUME NEW mode \in {"create", "join", "none"}, Dialog(mode) PROVE LobbyKept'
    BY <2>1, DialogKeeps
  <2>2. ASSUME NEW p \in Preparations, NEW ok \in BOOLEAN, PreparationEnds(p, ok) PROVE LobbyKept'
    BY <2>2, PreparationKeeps
  <2>3. SubmitRoomAction => LobbyKept'
    BY DialogKeeps
  <2>. QED  BY <1>2, <2>1, <2>2, <2>3, OpenLobbyKeeps, CloseLobbyKeeps, QuickPlayKeeps, StartKeeps, LeaveRoomKeeps, DeliverKeeps,
               ConnectedKeeps, LostKeeps, ServeKeeps, PasswordKeeps, AnsweredKeeps, RejectedKeeps, DisconnectsKeeps,
               RoomMovesKeeps DEF LobbyNext
<1>. QED  BY <1>1, <1>2

LEMMA LobbyKeptShows == LobbyKept => RoomShown
<1>. SUFFICES ASSUME LobbyKept, Quiet, ~crossed
              PROVE  /\ queue.room = seat.room /\ (page.open => page.room = seat.room)
                     /\ seat.room # Nowhere => seat.by = "current"
  BY DEF RoomShown
<1>1. Steady /\ Len(<< >>) = 0 /\ DOMAIN << >> = {}
  BY DEF Quiet, Steady
<1>2. ~Outstanding(seat.room, replies)
  BY <1>1 DEF Quiet, Outstanding
<1>3. Knows /\ (seat.room # Nowhere => seat.by = "current")
  BY <1>1, <1>2 DEF LobbyKept, RoomKnown
<1>4. PICK g \in Views : MakeOf(Viewed, << >>, g) /\ Agrees(seat.room, g)
  BY <1>3 DEF Quiet, Knows
<1>5. g = Viewed
  BY <1>4, MadeOfNothing, ViewedIs DEF LobbyKept
<1>. QED  BY <1>3, <1>4, <1>5 DEF Agrees, Viewed

\* Once nothing is under way the page and the floating panel show the room the server
\* holds for the user, and this socket hears of it, whatever crossed before
\* (lobby.controller.ts, queue-status.service.ts, the room messages of game.gateway.ts):
\* until Redis rejects a command about the seat, or a call that outlived its connection
\* moves it, and again from the next time the state is asked for.
THEOREM LobbyHolds == ServicesSpec => []RoomShown
<1>1. ServicesInit => LobbyKept
  BY LobbyBegins DEF ServicesInit
<1>2. LobbyKept /\ [ServicesNext]_servicesVars => LobbyKept'
  BY StepsOfParts, LobbyInductive
<1>. QED  BY <1>1, <1>2, LobbyKeptShows, PTL DEF ServicesSpec
=============================================================================
