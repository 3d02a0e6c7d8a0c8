------------------------------ MODULE Accounts ------------------------------
(***************************************************************************)
(* Users, the identities they sign in with and the wallet they are paid to *)
(* (users.service.ts, phantom-auth.service.ts, google-auth.service.ts).    *)
(* Requests run at the same time.  Each statement of a request reads what  *)
(* is committed by then (READ COMMITTED); what a transaction writes is     *)
(* committed at once, or refused by a unique index.                        *)
(***************************************************************************)
EXTENDS Naturals, FiniteSets, Sequences

CONSTANTS
    Subjects, Addresses, \* identities of Google and of Phantom
    Names,
    MaxUsers, Challenges, Requests \* bounds: rows, and requests served at once

VARIABLES db, challenge, request

accountVars == <<db, challenge, request>>

Identities == Subjects \cup Addresses
NoRequest  == [kind |-> "none"]

AccountInit ==
    /\ db = [users |-> {}, account |-> << >>, wallet |-> << >>, name |-> << >>]
    /\ challenge = << >>
    /\ request = [q \in Requests |-> NoRequest]

With(f, x, y) == [z \in DOMAIN f \cup {x} |-> IF z = x THEN y ELSE f[z]]

-----------------------------------------------------------------------------
(* The transactions: the rows they leave. *)

HoldsWallet(a) == \E u \in DOMAIN db.wallet : db.wallet[u] = a
IdentitiesOf(u, S) == {i \in S \cap DOMAIN db.account : db.account[i] = u}

Taken(id) == id \in DOMAIN db.account \/ HoldsWallet(id)

\* upsertGoogle and upsertPhantom: a new user with its identity, and its wallet.
\* Mutant: the user is created before the transaction that gives it its identity.
CreatedMutant(u, id) ==
    IF Taken(id) THEN [db EXCEPT !.users = @ \cup {u}]
    ELSE [db EXCEPT !.users = @ \cup {u}, !.account = With(@, id, u)]
Created(u, id) ==
    IF Taken(id) THEN db
    ELSE [db EXCEPT !.users = @ \cup {u}, !.account = With(@, id, u),
                    !.wallet = IF id \in Addresses THEN With(@, u, id) ELSE @]

\* The wallet of a user: an existing row keeps its address.
WalletOf(d, u, a) ==
    IF u \in DOMAIN d.wallet THEN d ELSE [d EXCEPT !.wallet = With(@, u, a)]
WalletRefused(u, a) == u \notin DOMAIN db.wallet /\ HoldsWallet(a)

\* linkGoogleAccount and linkPhantomWallet: an existing account keeps its user.
Linked(u, id) ==
    LET accounts(d) == IF id \in DOMAIN d.account THEN d
                       ELSE [d EXCEPT !.account = With(@, id, u)]
    IN  IF id \in Subjects THEN accounts(db)
        ELSE IF WalletRefused(u, id) THEN db ELSE accounts(WalletOf(db, u, id))

\* What they check first, one statement after the other.
LinkChecks(u, id) ==
    LET mine == IdentitiesOf(u, IF id \in Subjects THEN Subjects ELSE Addresses) \subseteq {id}
        free == id \notin DOMAIN db.account \/ db.account[id] = u
    IN  IF id \in Subjects THEN <<free, mine>>
        ELSE << \A o \in DOMAIN db.wallet : db.wallet[o] = id => o = u, free,
                u \in DOMAIN db.wallet => db.wallet[u] = id, mine>>

-----------------------------------------------------------------------------
(* The requests. *)

Begins(q, r) == request[q] = NoRequest /\ request' = [request EXCEPT ![q] = r]
Goes(q, step) == request' = [request EXCEPT ![q].step = step]
Ends(q) == request' = [request EXCEPT ![q] = NoRequest]

\* challenge.
Challenge(c, a) ==
    /\ c \notin DOMAIN challenge /\ challenge' = With(challenge, c, a) /\ UNCHANGED <<db, request>>

\* Login and link with Google; verifyIdentity accepts the token.
GoogleLogin(q, id) ==
    Begins(q, [kind |-> "login", id |-> id, step |-> "find"]) /\ UNCHANGED <<db, challenge>>
GoogleLink(q, u, id) ==
    Begins(q, [kind |-> "link", user |-> u, id |-> id, step |-> 1]) /\ UNCHANGED <<db, challenge>>

\* verifyChallenge: whatever it read before, the update consumes it once.
VerifyChallenge(q, c, r) ==
    /\ c \in DOMAIN challenge
    /\ Begins(q, r)
    /\ challenge' = [x \in DOMAIN challenge \ {c} |-> challenge[x]]
    /\ UNCHANGED db
PhantomLogin(q, c) ==
    c \in DOMAIN challenge /\ VerifyChallenge(q, c, [kind |-> "login", id |-> challenge[c], step |-> "find"])
PhantomLink(q, c, u) ==
    c \in DOMAIN challenge /\ VerifyChallenge(q, c, [kind |-> "link", user |-> u, id |-> challenge[c], step |-> 1])

\* The account of the identity is read; then a new user, or the wallet of a known one.
FindAccount(q) ==
    LET r == request[q]
    IN  /\ r.kind = "login" /\ r.step = "find"
        /\ IF r.id \notin DOMAIN db.account THEN Goes(q, "create")
           ELSE IF r.id \in Addresses THEN Goes(q, "renew") ELSE Ends(q)
        /\ UNCHANGED <<db, challenge>>

CreateUser(q) ==
    /\ request[q].kind = "login" /\ request[q].step = "create"
    /\ Cardinality(db.users) < MaxUsers
    /\ db' = Created(Cardinality(db.users) + 1, request[q].id)
    /\ Ends(q) /\ UNCHANGED challenge

RenewWallet(q) ==
    LET r == request[q]
        u == db.account[r.id]
    IN  /\ r.kind = "login" /\ r.step = "renew"
        /\ db' = IF WalletRefused(u, r.id) THEN db ELSE WalletOf(db, u, r.id)
        /\ Ends(q) /\ UNCHANGED challenge

Link(q) ==
    LET r == request[q]
        checks == LinkChecks(r.user, r.id)
    IN  /\ r.kind = "link"
        /\ IF r.step > Len(checks) THEN db' = Linked(r.user, r.id) /\ Ends(q)
           ELSE UNCHANGED db /\ IF checks[r.step] THEN Goes(q, r.step + 1) ELSE Ends(q)
        /\ UNCHANGED challenge

\* setUsername.
Rename(q, u, n) ==
    /\ Begins(q, [kind |-> "rename", user |-> u, name |-> n])
    /\ \A o \in DOMAIN db.name \ {u} : db.name[o] # n
    /\ UNCHANGED <<db, challenge>>
SetUsername(q) ==
    LET r == request[q]
    IN  /\ r.kind = "rename"
        /\ db' = IF \E o \in DOMAIN db.name \ {r.user} : db.name[o] = r.name THEN db
                 ELSE [db EXCEPT !.name = With(@, r.user, r.name)]
        /\ Ends(q) /\ UNCHANGED challenge

\* External: the transaction of a request fails; its challenge stays consumed.
RequestFails(q) == request[q] # NoRequest /\ Ends(q) /\ UNCHANGED <<db, challenge>>

AccountNext ==
    \/ \E c \in Challenges, a \in Addresses : Challenge(c, a)
    \/ \E q \in Requests :
        \/ \E id \in Subjects : GoogleLogin(q, id) \/ \E u \in db.users : GoogleLink(q, u, id)
        \/ \E c \in Challenges : PhantomLogin(q, c) \/ \E u \in db.users : PhantomLink(q, c, u)
        \/ FindAccount(q) \/ CreateUser(q) \/ RenewWallet(q) \/ Link(q)
        \/ \E u \in db.users, n \in Names : Rename(q, u, n)
        \/ SetUsername(q) \/ RequestFails(q)

AccountSpec == AccountInit /\ [][AccountNext]_accountVars
-----------------------------------------------------------------------------
(* Properties. *)

\* Whatever sign-ins and links run at once, every user can sign in with something, and
\* a wallet that is paid is an identity of somebody: no user and no wallet is orphaned.
EveryUserSignsIn ==
    /\ \A u \in db.users : IdentitiesOf(u, Identities) # {}
    /\ \A u \in DOMAIN db.wallet : db.wallet[u] \in DOMAIN db.account
=============================================================================
