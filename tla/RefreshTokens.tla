----------------------------- MODULE RefreshTokens -----------------------------
(***************************************************************************)
(* Refresh tokens: login and register open a session (a token family),     *)
(* refreshTokens rotates its token and logout ends it (auth.service.ts).   *)
(*                                                                         *)
(* No handler uses a transaction: each UPDATE and INSERT commits by itself *)
(* and requests interleave between them.  Passwords, hashes and JWTs are   *)
(* left out: a token is known by its identity, as its hash is in the       *)
(* database, and a client can only present a token it was given.           *)
(***************************************************************************)
EXTENDS Integers, FiniteSets

CONSTANTS
    Tokens,     \* the random strings tokens can be; bounds the tokens issued
    Families,   \* the uuids sessions can get; bounds the logins
    Requests,   \* the requests the server can have in flight
    Lifetime,   \* 7 days
    MaxNow,     \* bound on the clock
    None

ASSUME TokenAssumption ==
    /\ Lifetime \in Nat
    /\ MaxNow \in Nat
    /\ None \notin Tokens
    /\ None \notin Families

VARIABLES
    now,         \* the clock
    stored,      \* the row of each token that was stored
    delivered,   \* the tokens whose response reached a client
    req,         \* what each request has done and remembers
    parent,      \* history: the token each token was rotated from
    closed,      \* history: the sessions ended by logout or by reuse detection
    overlapped   \* history: the sessions two requests worked on at once

vars == <<now, stored, delivered, req, parent, closed, overlapped>>

Row == [family : Families, isRevoked : BOOLEAN, expiresAt : Nat]

NoRow == [family |-> None, isRevoked |-> FALSE, expiresAt |-> 0]

Steps == {"idle", "refresh.revoke", "refresh.create", "revoke.family"}

Request == [step : Steps, token : Tokens \cup {None}, family : Families \cup {None}]

Idle == [step |-> "idle", token |-> None, family |-> None]

-----------------------------------------------------------------------------

At(r, step) == req[r].step = step

Finish(r) == req' = [req EXCEPT ![r] = Idle]

Stored(t)   == stored[t] # NoRow
TokensOf(f) == {t \in Tokens : stored[t].family = f}
Live(f)     == {t \in TokensOf(f) : ~stored[t].isRevoked}

Revoked(row) == [row EXCEPT !.isRevoked = TRUE]

Init ==
    /\ now = 0
    /\ stored = [t \in Tokens |-> NoRow]
    /\ delivered = {}
    /\ req = [r \in Requests |-> Idle]
    /\ parent = [t \in Tokens |-> None]
    /\ closed = {}
    /\ overlapped = {}

Tick ==
    /\ now < MaxNow
    /\ now' = now + 1
    /\ UNCHANGED <<stored, delivered, req, parent, closed, overlapped>>

\* Fault: the new token is stored revoked state and all from the old one.
GenerateTokenPairFault(f, old) == \E t \in Tokens :
    /\ ~Stored(t)
    /\ stored' = [stored EXCEPT ![t] =
         [family |-> f, isRevoked |-> old # None, expiresAt |-> None]]
    /\ parent' = [parent EXCEPT ![t] = old]
    /\ delivered' \in {delivered, delivered \cup {t}}

\* generateTokenPair: stores a fresh token of the session; the response with it
\* may be lost on the way.
GenerateTokenPair(f, old) == \E t \in Tokens :
    /\ ~Stored(t)
    /\ stored' = [stored EXCEPT ![t] =
         [family |-> f, isRevoked |-> FALSE, expiresAt |-> now + Lifetime]]
    /\ parent' = [parent EXCEPT ![t] = old]
    /\ delivered' \in {delivered, delivered \cup {t}}

\* login, and the end of register: a session with a uuid of its own.
Login == \E f \in Families :
    /\ TokensOf(f) = {}
    /\ GenerateTokenPair(f, None)
    /\ UNCHANGED <<now, req, closed, overlapped>>

\* A request on a session starts; others may be at work on it.
Start(r, step, t) ==
    LET f == stored[t].family
    IN  /\ req' = [req EXCEPT ![r] = [step |-> step, token |-> t, family |-> f]]
        /\ overlapped' = IF \E q \in Requests \ {r} : req[q].family = f
                         THEN overlapped \cup {f} ELSE overlapped

\* refreshTokens is given a revoked token: it goes on to revoke the family.
RefreshReused(r) ==
    /\ At(r, "idle")
    /\ \E t \in delivered : stored[t].isRevoked /\ Start(r, "revoke.family", t)
    /\ UNCHANGED <<now, stored, delivered, parent, closed>>

\* Fault: isRevoked is not looked at.
RefreshFindFault(r) ==
    /\ At(r, "idle")
    /\ \E t \in delivered : stored[t].expiresAt >= now /\ Start(r, "refresh.revoke", t)
    /\ UNCHANGED <<now, stored, delivered, parent, closed>>

\* It is given a token that is neither revoked nor expired.
RefreshFind(r) ==
    /\ At(r, "idle")
    /\ \E t \in delivered :
         /\ ~stored[t].isRevoked
         /\ stored[t].expiresAt >= now
         /\ Start(r, "refresh.revoke", t)
    /\ UNCHANGED <<now, stored, delivered, parent, closed>>

\* Fault: the old token is left as it is.
RefreshRevokeFault(r) ==
    /\ At(r, "refresh.revoke")
    /\ req' = [req EXCEPT ![r].step = "refresh.create"]
    /\ UNCHANGED <<now, stored, delivered, parent, closed, overlapped>>

\* The old token is revoked, by itself.
RefreshRevoke(r) ==
    /\ At(r, "refresh.revoke")
    /\ stored' = [stored EXCEPT ![req[r].token] = Revoked(@)]
    /\ req' = [req EXCEPT ![r].step = "refresh.create"]
    /\ UNCHANGED <<now, delivered, parent, closed, overlapped>>

\* The new token is stored in the same session.
RefreshCreate(r) ==
    /\ At(r, "refresh.create")
    /\ GenerateTokenPair(req[r].family, req[r].token)
    /\ Finish(r)
    /\ UNCHANGED <<now, closed, overlapped>>

\* logout finds the token it is given, in whatever state.
LogoutFind(r) ==
    /\ At(r, "idle")
    /\ \E t \in delivered : Start(r, "revoke.family", t)
    /\ UNCHANGED <<now, stored, delivered, parent, closed>>

\* Fault: only the token presented is revoked.
RevokeFamilyFault(r) ==
    /\ At(r, "revoke.family")
    /\ stored' = [stored EXCEPT ![req[r].token] = Revoked(@)]
    /\ closed' = closed \cup {req[r].family}
    /\ Finish(r)
    /\ UNCHANGED <<now, delivered, parent, overlapped>>

\* updateMany: every token the session has at that moment is revoked.
RevokeFamily(r) ==
    /\ At(r, "revoke.family")
    /\ stored' = [t \in Tokens |-> IF stored[t].family = req[r].family
                                   THEN Revoked(stored[t]) ELSE stored[t]]
    /\ closed' = closed \cup {req[r].family}
    /\ Finish(r)
    /\ UNCHANGED <<now, delivered, parent, overlapped>>

\* A crash or a lost database connection ends a request between its statements;
\* what was committed stays.
Fail(r) ==
    /\ ~At(r, "idle")
    /\ Finish(r)
    /\ UNCHANGED <<now, stored, delivered, parent, closed, overlapped>>

Next ==
    \/ Tick
    \/ Login
    \/ \E r \in Requests :
         \/ RefreshFind(r) \/ RefreshRevoke(r) \/ RefreshCreate(r)
         \/ RefreshReused(r) \/ LogoutFind(r) \/ RevokeFamily(r)
         \/ Fail(r)

Spec == Init /\ [][Next]_vars

-----------------------------------------------------------------------------
(* Properties. *)

\* Every row and request stays well formed.
TypeOK ==
    /\ now \in Nat
    /\ stored \in [Tokens -> Row \cup {NoRow}]
    /\ delivered \subseteq Tokens
    /\ req \in [Requests -> Request]
    /\ parent \in [Tokens -> Tokens \cup {None}]
    /\ closed \subseteq Families
    /\ overlapped \subseteq Families

\* Whatever requests overlap and wherever they stop: the token another was rotated
\* from is revoked and of the same session, so a client that holds a rotated
\* token never holds a usable one beside it.
RotatedIsRevoked == \A t \in Tokens :
    parent[t] # None =>
        /\ stored[parent[t]].isRevoked
        /\ stored[parent[t]].family = stored[t].family

\* README.md:54 "each refresh token is single-use": no token is rotated twice.
SingleUse == \A t, u \in Tokens :
    (parent[t] # None /\ parent[t] = parent[u]) => t = u

\* It holds of a session whose requests never overlapped.
SingleUseInTurn == \A t, u \in Tokens :
    (parent[t] # None /\ parent[t] = parent[u] /\ stored[t].family \notin overlapped)
        => t = u

\* Such a session never has two tokens that can be used, and none after a logout
\* or the detection of a reuse, however many rotations and failures there were.
SessionHasOneKey == \A f \in Families \ overlapped :
    /\ Cardinality(Live(f)) <= 1
    /\ f \in closed => Live(f) = {}

=============================================================================
