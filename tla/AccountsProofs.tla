---------------------------- MODULE AccountsProofs ----------------------------
(***************************************************************************)
(* Proofs about sessions (RefreshTokens) and registration (Accounts).      *)
(*                                                                         *)
(* RotatedIsRevoked follows from what a rotation knows of its own token,   *)
(* whatever else runs.  SingleUseInTurn and SessionHasOneKey need in       *)
(* addition that the request at work on a session is the only one, and     *)
(* what that request has already done.                                     *)
(*                                                                         *)
(* Registration keeps its promise in every interleaving, and adds nothing  *)
(* to what sessions can do, so that the theorems about them hold of        *)
(* AccountsSpec.                                                           *)
(***************************************************************************)
EXTENDS Accounts, FiniteSetTheorems, TLAPS

-----------------------------------------------------------------------------
(* Sessions. *)

\* What a request remembers of its token stays true: the session of a stored
\* token never changes, nor is a revocation taken back.
Remembered == \A r \in Requests : ~At(r, "idle") =>
    /\ req[r].token \in Tokens
    /\ req[r].family \in Families
    /\ stored[req[r].token].family = req[r].family
    /\ At(r, "refresh.create") => stored[req[r].token].isRevoked

\* A client only has tokens that are stored, and only a session that was opened
\* is closed.
DeliveredIsStored == \A t \in delivered : Stored(t)
ClosedWasOpen     == \A f \in closed : TokensOf(f) # {}

RotationInv ==
    TypeOK /\ Remembered /\ DeliveredIsStored /\ ClosedWasOpen /\ RotatedIsRevoked

OnSession(r, f) == ~At(r, "idle") /\ req[r].family = f

\* The parts of the inductive invariant of a session whose requests take turns.
AloneOn(f) == \A q, r \in Requests : (OnSession(q, f) /\ OnSession(r, f)) => q = r

OneLive(f) == \A t, u \in Live(f) : t = u

RevokesLive(f) == \A r \in Requests :
    (OnSession(r, f) /\ At(r, "refresh.revoke")) => req[r].token \in Live(f)

CreatesAlone(f) == \A r \in Requests :
    (OnSession(r, f) /\ At(r, "refresh.create")) =>
        /\ Live(f) = {}
        /\ \A t \in TokensOf(f) : parent[t] # req[r].token

ClosedIsDead(f) == f \in closed =>
    /\ Live(f) = {}
    /\ \A r \in Requests : OnSession(r, f) => At(r, "revoke.family")

RotatedOnce(f) == \A t, u \in TokensOf(f) :
    (parent[t] # None /\ parent[t] = parent[u]) => t = u

InTurn(f) ==
    /\ AloneOn(f)
    /\ OneLive(f)
    /\ RevokesLive(f)
    /\ CreatesAlone(f)
    /\ ClosedIsDead(f)
    /\ RotatedOnce(f)

InTurnInv == \A f \in Families \ overlapped : InTurn(f)

-----------------------------------------------------------------------------
(* Well-formedness. *)

\* A row is a stored one or the absent one, and the session tells them apart.
LEMMA RowsTyped ==
  ASSUME NEW row \in Row \cup {NoRow}
  PROVE  /\ row # NoRow => row \in Row
         /\ row # NoRow <=> row.family \in Families
         /\ row = NoRow => row.family = None /\ ~row.isRevoked
         /\ row.isRevoked \in BOOLEAN
<1>1. row \in Row => row.family \in Families /\ row.isRevoked \in BOOLEAN
  BY DEF Row
<1>2. NoRow.family = None /\ NoRow.isRevoked = FALSE
  BY DEF NoRow
<1>3. QED
  BY <1>1, <1>2, TokenAssumption

\* A revocation changes one field of a row.
LEMMA RevokedRow ==
  ASSUME NEW row \in Row
  PROVE  /\ Revoked(row) \in Row
         /\ Revoked(row).family = row.family
         /\ Revoked(row).isRevoked
  BY DEF Revoked, Row

\* What every revocation does: the families stay, and so do the rows it is not
\* for; those it is for are revoked.
LEMMA RevocationStep ==
  ASSUME TypeOK, Remembered, NEW r \in Requests, RefreshRevoke(r) \/ RevokeFamily(r)
  PROVE  /\ stored' \in [Tokens -> Row \cup {NoRow}]
         /\ \A t \in Tokens :
              /\ stored'[t].family = stored[t].family
              /\ stored[t].isRevoked => stored'[t].isRevoked
              /\ RefreshRevoke(r) /\ t = req[r].token => stored'[t].isRevoked
              /\ RefreshRevoke(r) /\ t # req[r].token => stored'[t] = stored[t]
              /\ RevokeFamily(r) /\ stored[t].family = req[r].family => stored'[t].isRevoked
              /\ RevokeFamily(r) /\ stored[t].family # req[r].family => stored'[t] = stored[t]
<1>1. /\ req[r].token \in Tokens /\ req[r].family \in Families
      /\ stored[req[r].token].family = req[r].family
  BY DEF RefreshRevoke, RevokeFamily, Remembered, At
<1>2. \A t \in Tokens : stored[t].family \in Families => stored[t] \in Row
  BY TokenAssumption DEF TypeOK, NoRow
<1>3. stored[req[r].token] \in Row
  BY <1>1, <1>2
<1>4. CASE RefreshRevoke(r)
  <2>1. stored' = [stored EXCEPT ![req[r].token] = Revoked(stored[req[r].token])]
    BY <1>4 DEF RefreshRevoke
  <2>2. ~RevokeFamily(r)
    BY <1>4 DEF RefreshRevoke, RevokeFamily, At
  <2>3. QED
    BY <1>1, <1>3, <1>4, <2>1, <2>2, RevokedRow DEF TypeOK
<1>5. CASE RevokeFamily(r)
  <2>1. stored' = [t \in Tokens |-> IF stored[t].family = req[r].family
                                    THEN Revoked(stored[t]) ELSE stored[t]]
    BY <1>5 DEF RevokeFamily
  <2>2. ~RefreshRevoke(r)
    BY <1>5 DEF RefreshRevoke, RevokeFamily, At
  <2>3. \A t \in Tokens : stored[t].family = req[r].family =>
          /\ Revoked(stored[t]) \in Row
          /\ Revoked(stored[t]).family = stored[t].family
          /\ Revoked(stored[t]).isRevoked
    BY <1>1, <1>2, RevokedRow
  <2>4. QED
    BY <1>5, <2>1, <2>2, <2>3 DEF TypeOK
<1>6. QED
  BY <1>4, <1>5

\* Every step keeps the tables and the requests well formed.
LEMMA TypeStep ==
  ASSUME TypeOK, Remembered, DeliveredIsStored, [Next]_vars
  PROVE  TypeOK'
<1> USE TokenAssumption DEF TypeOK
<1>1. ASSUME NEW f \in Families, NEW old \in Tokens \cup {None}, GenerateTokenPair(f, old)
      PROVE  /\ stored' \in [Tokens -> Row \cup {NoRow}]
             /\ parent' \in [Tokens -> Tokens \cup {None}]
             /\ delivered' \subseteq Tokens
  BY <1>1 DEF GenerateTokenPair, Row
<1>2. ASSUME NEW r \in Requests, NEW t \in delivered, Stored(t), NEW s \in Steps, Start(r, s, t)
      PROVE  req' \in [Requests -> Request] /\ overlapped' \subseteq Families
  <2>1. stored[t].family \in Families
    BY <1>2, RowsTyped DEF Stored
  <2>2. QED
    BY <1>2, <2>1 DEF Start, Request
<1>3. CASE Tick
  BY <1>3 DEF Tick
<1>4. CASE Login
  BY <1>1, <1>4 DEF Login
<1>5. ASSUME NEW r \in Requests, Fail(r) \/ RefreshRevoke(r) \/ RefreshCreate(r) \/ RevokeFamily(r)
      PROVE  req' \in [Requests -> Request]
  BY <1>5 DEF Fail, RefreshRevoke, RefreshCreate, RevokeFamily, Finish, Idle, Request, Steps
<1>6. ASSUME NEW r \in Requests, RefreshFind(r) \/ RefreshReused(r) \/ LogoutFind(r)
      PROVE  TypeOK'
  <2>1. UNCHANGED <<now, stored, delivered, parent, closed>>
    BY <1>6 DEF RefreshFind, RefreshReused, LogoutFind
  <2>2. req' \in [Requests -> Request] /\ overlapped' \subseteq Families
    BY <1>2, <1>6 DEF RefreshFind, RefreshReused, LogoutFind, Steps, DeliveredIsStored
  <2>3. QED
    BY <2>1, <2>2
<1>7. ASSUME NEW r \in Requests, RefreshRevoke(r)
      PROVE  TypeOK'
  BY <1>5, <1>7, RevocationStep DEF RefreshRevoke
<1>8. ASSUME NEW r \in Requests, RefreshCreate(r)
      PROVE  TypeOK'
  <2>1. req[r].family \in Families /\ req[r].token \in Tokens
    BY <1>8 DEF RefreshCreate, Remembered, At
  <2>2. QED
    BY <1>1, <1>5, <1>8, <2>1 DEF RefreshCreate
<1>9. ASSUME NEW r \in Requests, RevokeFamily(r)
      PROVE  TypeOK'
  <2>1. req[r].family \in Families
    BY <1>9 DEF RevokeFamily, Remembered, At
  <2>2. stored' \in [Tokens -> Row \cup {NoRow}]
    BY <1>9, RevocationStep
  <2>3. QED
    BY <1>5, <1>9, <2>1, <2>2 DEF RevokeFamily
<1>10. ASSUME NEW r \in Requests, Fail(r)
       PROVE  TypeOK'
  BY <1>5, <1>10 DEF Fail
<1>11. CASE UNCHANGED vars
  BY <1>11 DEF vars
<1>12. QED
  BY <1>3, <1>4, <1>6, <1>7, <1>8, <1>9, <1>10, <1>11 DEF Next

\* A stored row stays in its session, and a revoked one stays revoked.
LEMMA StoredStays ==
  ASSUME TypeOK, Remembered, DeliveredIsStored, [Next]_vars,
         NEW t \in Tokens, Stored(t)
  PROVE  /\ Stored(t)'
         /\ stored'[t].family = stored[t].family
         /\ stored[t].isRevoked => stored'[t].isRevoked
<1>1. TypeOK'
  BY TypeStep
<1>2. stored[t].family \in Families
  BY RowsTyped DEF TypeOK, Stored
<1>3. ASSUME stored'[t].family = stored[t].family
      PROVE  Stored(t)'
  BY <1>1, <1>2, <1>3, RowsTyped DEF TypeOK, Stored
<1>4. CASE UNCHANGED stored
  BY <1>4 DEF Stored
<1>5. ASSUME NEW f, NEW old, GenerateTokenPair(f, old)
      PROVE  stored'[t] = stored[t]
  BY <1>5 DEF GenerateTokenPair, TypeOK
<1>6. ASSUME NEW r \in Requests, RefreshRevoke(r) \/ RevokeFamily(r)
      PROVE  /\ stored'[t].family = stored[t].family
             /\ stored[t].isRevoked => stored'[t].isRevoked
  BY <1>6, RevocationStep
<1>7. CASE Login
  BY <1>3, <1>5, <1>7 DEF Login
<1>8. ASSUME NEW r \in Requests, RefreshCreate(r)
      PROVE  stored'[t] = stored[t]
  BY <1>5, <1>8 DEF RefreshCreate
<1>9. ASSUME NEW r \in Requests,
             RefreshFind(r) \/ RefreshReused(r) \/ LogoutFind(r) \/ Fail(r)
      PROVE  UNCHANGED stored
  BY <1>9 DEF RefreshFind, RefreshReused, LogoutFind, Fail
<1>10. QED
  BY <1>3, <1>4, <1>6, <1>7, <1>8, <1>9 DEF Next, Tick, vars

-----------------------------------------------------------------------------
(* A rotated token is revoked. *)

\* What requests remember of their tokens stays true.
LEMMA RememberedStep ==
  ASSUME RotationInv, [Next]_vars
  PROVE  Remembered'
<1> USE DEF RotationInv
<1>1. \A r \in Requests :
        (~At(r, "idle") /\ req'[r].token = req[r].token /\ req'[r].family = req[r].family
           /\ (req'[r].step = "refresh.create" => stored'[req[r].token].isRevoked))
        => /\ req'[r].token \in Tokens
           /\ req'[r].family \in Families
           /\ stored'[req'[r].token].family = req'[r].family
           /\ req'[r].step = "refresh.create" => stored'[req'[r].token].isRevoked
  BY StoredStays, RowsTyped DEF Remembered, TypeOK, Stored
<1>2. ASSUME NEW r \in Requests, req'[r] = req[r] \/ req'[r] = Idle
      PROVE  ~At(r, "idle")' =>
               /\ req'[r].token \in Tokens
               /\ req'[r].family \in Families
               /\ stored'[req'[r].token].family = req'[r].family
               /\ At(r, "refresh.create")' => stored'[req'[r].token].isRevoked
  <2>1. CASE req'[r] = Idle
    BY <2>1 DEF At, Idle
  <2>2. CASE req'[r] = req[r]
    <3>1. (~At(r, "idle") /\ At(r, "refresh.create")) => stored'[req[r].token].isRevoked
      BY StoredStays, RowsTyped DEF Remembered, TypeOK, Stored
    <3>2. QED
      BY <1>1, <2>2, <3>1 DEF At
  <2>3. QED
    BY <1>2, <2>1, <2>2
<1>3. ASSUME UNCHANGED req
      PROVE  Remembered'
  BY <1>2, <1>3 DEF Remembered
<1>4. ASSUME NEW r \in Requests, Finish(r)
      PROVE  Remembered'
  BY <1>2, <1>4 DEF Remembered, Finish, TypeOK
<1>5. ASSUME NEW r \in Requests, RefreshRevoke(r)
      PROVE  Remembered'
  <2>1. stored'[req[r].token].isRevoked
    BY <1>5, RevocationStep DEF Remembered, RefreshRevoke, At
  <2>2. /\ req'[r].token = req[r].token /\ req'[r].family = req[r].family
        /\ \A q \in Requests \ {r} : req'[q] = req[q]
        /\ ~At(r, "idle")
    BY <1>5 DEF RefreshRevoke, TypeOK, Request, At
  <2>3. QED
    BY <1>1, <1>2, <2>1, <2>2 DEF Remembered, At
<1>6. ASSUME NEW r \in Requests, NEW t \in delivered, NEW s \in Steps, s # "refresh.create",
             Start(r, s, t), UNCHANGED stored
      PROVE  Remembered'
  <2>1. /\ req'[r].token = t /\ req'[r].family = stored[t].family /\ req'[r].step = s
        /\ \A q \in Requests \ {r} : req'[q] = req[q]
    BY <1>6 DEF Start, TypeOK
  <2>2. t \in Tokens /\ stored[t].family \in Families
    BY RowsTyped DEF DeliveredIsStored, TypeOK, Stored
  <2>3. QED
    BY <1>2, <1>6, <2>1, <2>2 DEF Remembered, At
<1>7. QED
  BY <1>3, <1>4, <1>5, <1>6
  DEF Next, Tick, Login, RefreshFind, RefreshReused, LogoutFind, RefreshCreate,
      RevokeFamily, Fail, vars, Steps

\* What a step does to the tokens: it stores one, or the rotations stay as they are.
LEMMA TokenStep ==
  ASSUME TypeOK, [Next]_vars
  PROVE  \/ Login
         \/ \E r \in Requests : RefreshCreate(r)
         \/ UNCHANGED <<parent, delivered>>
BY DEF Next, Tick, RefreshFind, RefreshReused, LogoutFind, RefreshRevoke, RevokeFamily, Fail, vars

\* The rest of the rotation invariant is kept too.
LEMMA RotationStep ==
  ASSUME RotationInv, [Next]_vars
  PROVE  RotationInv'
<1> USE DEF RotationInv
<1>1. TypeOK' /\ Remembered'
  BY TypeStep, RememberedStep
<1>2. ASSUME NEW t \in Tokens, NEW f, NEW old, f \in Families,
             stored' = [stored EXCEPT ![t] =
                [family |-> f, isRevoked |-> FALSE, expiresAt |-> now + Lifetime]]
      PROVE  Stored(t)' /\ stored'[t].family = f
  BY <1>1, <1>2, RowsTyped DEF TypeOK, Stored
<1>3. DeliveredIsStored'
  <2>1. ASSUME NEW f \in Families, NEW old, GenerateTokenPair(f, old)
        PROVE  DeliveredIsStored'
    <3>1. PICK t \in Tokens : /\ stored' = [stored EXCEPT ![t] =
                                   [family |-> f, isRevoked |-> FALSE,
                                    expiresAt |-> now + Lifetime]]
                              /\ delivered' \subseteq delivered \cup {t}
      BY <2>1 DEF GenerateTokenPair
    <3>2. Stored(t)'
      BY <1>2, <3>1
    <3>3. QED
      BY <3>1, <3>2, StoredStays DEF DeliveredIsStored, TypeOK
  <2>2. CASE Login
    BY <2>1, <2>2 DEF Login
  <2>3. ASSUME NEW r \in Requests, RefreshCreate(r)
        PROVE  DeliveredIsStored'
    BY <2>1, <2>3 DEF RefreshCreate, Remembered, At
  <2>4. CASE UNCHANGED delivered
    BY <2>4, StoredStays DEF DeliveredIsStored, TypeOK
  <2>5. QED
    BY <2>2, <2>3, <2>4, TokenStep
<1>4. ClosedWasOpen'
  <2>1. ASSUME NEW f \in Families, TokensOf(f) # {}
        PROVE  TokensOf(f)' # {}
    BY <2>1, StoredStays, RowsTyped DEF TokensOf, TypeOK, Stored
  <2>2. ASSUME NEW r \in Requests, RevokeFamily(r)
        PROVE  TokensOf(req[r].family) # {}
    BY <2>2 DEF RevokeFamily, Remembered, At, TokensOf
  <2>3. \A f \in closed' : f \in closed \/ \E r \in Requests : RevokeFamily(r) /\ f = req[r].family
    BY DEF Next, Tick, Login, RefreshFind, RefreshReused, LogoutFind, RefreshRevoke,
           RefreshCreate, RevokeFamily, Fail, vars
  <2>4. QED
    BY <1>1, <2>1, <2>2, <2>3 DEF ClosedWasOpen, TypeOK
<1>5. RotatedIsRevoked'
  <2>1. ASSUME NEW t \in Tokens, parent'[t] # None, parent'[t] = parent[t]
        PROVE  /\ stored'[parent'[t]].isRevoked
               /\ stored'[parent'[t]].family = stored'[t].family
    <3>1. /\ parent[t] \in Tokens
          /\ stored[parent[t]].isRevoked
          /\ stored[parent[t]].family = stored[t].family
      BY <2>1 DEF RotatedIsRevoked, TypeOK
    <3>2. Stored(parent[t]) /\ Stored(t)
      BY <3>1, RowsTyped DEF TypeOK, Stored
    <3>3. QED
      BY <2>1, <3>1, <3>2, StoredStays
  <2>2. ASSUME NEW f \in Families, NEW old \in Tokens \cup {None}, GenerateTokenPair(f, old),
               old # None => stored[old].isRevoked /\ stored[old].family = f
        PROVE  RotatedIsRevoked'
    <3>1. PICK t \in Tokens : /\ stored' = [stored EXCEPT ![t] =
                                   [family |-> f, isRevoked |-> FALSE,
                                    expiresAt |-> now + Lifetime]]
                              /\ parent' = [parent EXCEPT ![t] = old]
      BY <2>2 DEF GenerateTokenPair
    <3>2. parent'[t] = old /\ \A u \in Tokens \ {t} : parent'[u] = parent[u]
      BY <3>1 DEF TypeOK
    <3>3. stored'[t].family = f
      BY <1>2, <3>1
    <3>4. old # None => stored'[old].isRevoked /\ stored'[old].family = f
      BY <2>2, StoredStays, RowsTyped DEF TypeOK, Stored
    <3>5. QED
      BY <2>1, <3>2, <3>3, <3>4 DEF RotatedIsRevoked
  <2>3. CASE Login
    BY <2>2, <2>3 DEF Login
  <2>4. ASSUME NEW r \in Requests, RefreshCreate(r)
        PROVE  RotatedIsRevoked'
    <3>1. /\ req[r].token \in Tokens /\ req[r].family \in Families
          /\ stored[req[r].token].isRevoked
          /\ stored[req[r].token].family = req[r].family
      BY <2>4 DEF RefreshCreate, Remembered, At
    <3>2. QED
      BY <2>2, <2>4, <3>1 DEF RefreshCreate
  <2>5. CASE UNCHANGED parent
    BY <2>1, <2>5 DEF RotatedIsRevoked
  <2>6. QED
    BY <2>3, <2>4, <2>5, TokenStep
<1>6. QED
  BY <1>1, <1>3, <1>4, <1>5

\* No token is stored at first.
LEMMA RotationInit == Init => RotationInv
BY TokenAssumption DEF Init, RotationInv, TypeOK, Remembered, DeliveredIsStored,
   ClosedWasOpen, RotatedIsRevoked, At, Idle, Request, Steps

\* The invariant of rotations holds in every state.
LEMMA RotationCorrect == Spec => []RotationInv
<1>1. RotationInv /\ [Next]_vars => RotationInv'
  BY RotationStep
<1>2. QED
  BY <1>1, RotationInit, PTL DEF Spec

\* Every row and request stays well formed.
THEOREM TypeCorrect == Spec => []TypeOK
<1>1. RotationInv => TypeOK
  BY DEF RotationInv
<1>2. QED
  BY <1>1, RotationCorrect, PTL

\* In every interleaving of any number of requests, with a crash at any step: the
\* token another was rotated from is revoked and of the same session.
THEOREM RotatedStaysRevoked == Spec => []RotatedIsRevoked
<1>1. RotationInv => RotatedIsRevoked
  BY DEF RotationInv
<1>2. QED
  BY <1>1, RotationCorrect, PTL

-----------------------------------------------------------------------------
(* Sessions whose requests take turns. *)

\* A step that leaves a session, its tokens and its requests alone keeps its invariant.
LEMMA Elsewhere ==
  ASSUME NEW f \in Families, InTurn(f),
         TokensOf(f)' = TokensOf(f),
         \A t \in TokensOf(f) : stored'[t] = stored[t] /\ parent'[t] = parent[t],
         f \in closed' => f \in closed,
         \A r \in Requests : OnSession(r, f)' => OnSession(r, f) /\ req'[r] = req[r]
  PROVE  InTurn(f)'
<1>1. Live(f)' = Live(f)
  BY DEF Live
<1>2. AloneOn(f)'
  BY DEF InTurn, AloneOn
<1>3. OneLive(f)'
  BY <1>1 DEF InTurn, OneLive
<1>4. RevokesLive(f)'
  BY <1>1 DEF InTurn, RevokesLive, At
<1>5. CreatesAlone(f)'
  BY <1>1 DEF InTurn, CreatesAlone, At
<1>6. ClosedIsDead(f)'
  BY <1>1 DEF InTurn, ClosedIsDead, At
<1>7. RotatedOnce(f)'
  BY DEF InTurn, RotatedOnce
<1>8. QED
  BY <1>2, <1>3, <1>4, <1>5, <1>6, <1>7 DEF InTurn

\* A token stored in another session is no token of this one.
LEMMA StoredElsewhere ==
  ASSUME RotationInv, NEW f \in Families, NEW g, g # f, NEW old, GenerateTokenPair(g, old)
  PROVE  /\ TokensOf(f)' = TokensOf(f)
         /\ \A t \in TokensOf(f) : stored'[t] = stored[t] /\ parent'[t] = parent[t]
<1>1. PICK t \in Tokens : /\ ~Stored(t)
                          /\ stored' = [stored EXCEPT ![t] =
                               [family |-> g, isRevoked |-> FALSE,
                                expiresAt |-> now + Lifetime]]
                          /\ parent' = [parent EXCEPT ![t] = old]
  BY DEF GenerateTokenPair
<1>2. t \notin TokensOf(f) /\ stored'[t].family = g
  BY <1>1, RowsTyped DEF RotationInv, TypeOK, TokensOf, Stored
<1>3. \A u \in Tokens \ {t} : stored'[u] = stored[u] /\ parent'[u] = parent[u]
  BY <1>1 DEF RotationInv, TypeOK
<1>4. QED
  BY <1>2, <1>3 DEF TokensOf

\* A login opens its session with one token.
LEMMA LoginInTurn ==
  ASSUME RotationInv, NEW f \in Families, InTurn(f),
         TokensOf(f) = {}, GenerateTokenPair(f, None), UNCHANGED <<req, closed>>
  PROVE  InTurn(f)'
<1>1. \A r \in Requests : ~OnSession(r, f)'
  BY DEF RotationInv, Remembered, OnSession, At, TokensOf
<1>2. f \notin closed'
  BY DEF RotationInv, ClosedWasOpen
<1>3. PICK t \in Tokens : stored' = [stored EXCEPT ![t] =
                                [family |-> f, isRevoked |-> FALSE,
                                 expiresAt |-> now + Lifetime]]
  BY DEF GenerateTokenPair
<1>4. TokensOf(f)' \subseteq {t}
  BY <1>3 DEF RotationInv, TypeOK, TokensOf
<1>5. Live(f)' \subseteq {t}
  BY <1>4 DEF Live
<1>6. QED
  BY <1>1, <1>2, <1>4, <1>5
  DEF InTurn, AloneOn, OneLive, RevokesLive, CreatesAlone, ClosedIsDead, RotatedOnce

\* A request starts on a session no other request is at work on.
LEMMA StartInTurn ==
  ASSUME RotationInv, NEW r \in Requests, NEW t \in delivered,
         NEW s \in {"refresh.revoke", "revoke.family"},
         NEW f \in Families, InTurn(f), stored[t].family = f, f \notin overlapped',
         s = "refresh.revoke" => ~stored[t].isRevoked,
         At(r, "idle"), Start(r, s, t), UNCHANGED <<stored, parent, closed>>
  PROVE  InTurn(f)'
<1>1. /\ req'[r].token = t /\ req'[r].step = s
      /\ \A q \in Requests \ {r} : req'[q] = req[q] /\ req[q].family # f
  BY DEF Start, RotationInv, TypeOK
<1>2. \A q \in Requests : OnSession(q, f)' => q = r
  BY <1>1 DEF OnSession, At
<1>3. UNCHANGED <<TokensOf(f), Live(f)>>
  BY DEF TokensOf, Live
<1>4. s = "refresh.revoke" => t \in Live(f)
  BY DEF Live, TokensOf, RotationInv, TypeOK
<1>5. AloneOn(f)' /\ OneLive(f)' /\ RotatedOnce(f)'
  BY <1>2, <1>3 DEF InTurn, AloneOn, OneLive, RotatedOnce
<1>6. RevokesLive(f)' /\ CreatesAlone(f)'
  BY <1>1, <1>2, <1>3, <1>4 DEF RevokesLive, CreatesAlone, At
<1>7. ClosedIsDead(f)'
  BY <1>1, <1>2, <1>3, <1>4 DEF InTurn, ClosedIsDead, At
<1>8. QED
  BY <1>5, <1>6, <1>7 DEF InTurn

\* A rotation revokes the one live token of the session, which nothing was rotated
\* from yet.
LEMMA RevokeInTurn ==
  ASSUME RotationInv, NEW r \in Requests, RefreshRevoke(r),
         NEW f \in Families, InTurn(f), req[r].family = f
  PROVE  InTurn(f)'
<1>1. OnSession(r, f) /\ req[r].token \in Live(f) /\ req[r].token \in Tokens
  BY DEF RefreshRevoke, OnSession, At, InTurn, RevokesLive, RotationInv, Remembered
<1>2. /\ req'[r].token = req[r].token /\ req'[r].step = "refresh.create"
      /\ req'[r].family = f
      /\ \A q \in Requests \ {r} : req'[q] = req[q]
  BY DEF RefreshRevoke, RotationInv, TypeOK, Request
<1>3. \A q \in Requests : OnSession(q, f)' => q = r
  BY <1>1, <1>2 DEF InTurn, AloneOn, OnSession, At
<1>4. TokensOf(f)' = TokensOf(f)
  BY RevocationStep DEF TokensOf, RotationInv
<1>5. Live(f)' = {}
  <2>1. \A t \in Live(f) : t = req[r].token
    BY <1>1 DEF InTurn, OneLive
  <2>2. Live(f)' \subseteq Live(f) \ {req[r].token}
    BY <1>4, RevocationStep DEF Live, TokensOf, RotationInv
  <2>3. QED
    BY <2>1, <2>2
<1>6. \A t \in TokensOf(f)' : parent'[t] # req[r].token
  BY <1>1, TokenAssumption
  DEF RefreshRevoke, Live, TokensOf, RotationInv, RotatedIsRevoked
<1>7. f \notin closed'
  BY <1>1 DEF RefreshRevoke, InTurn, ClosedIsDead, At
<1>8. AloneOn(f)' /\ OneLive(f)' /\ ClosedIsDead(f)'
  BY <1>3, <1>5, <1>7 DEF AloneOn, OneLive, ClosedIsDead
<1>9. RevokesLive(f)' /\ CreatesAlone(f)'
  BY <1>2, <1>3, <1>5, <1>6 DEF RevokesLive, CreatesAlone, At
<1>10. RotatedOnce(f)'
  BY <1>4 DEF RefreshRevoke, InTurn, RotatedOnce
<1>11. QED
  BY <1>8, <1>9, <1>10 DEF InTurn

\* The rotation stores the only live token of the session, and the first one
\* rotated from the old token.
LEMMA CreateInTurn ==
  ASSUME RotationInv, NEW r \in Requests, RefreshCreate(r),
         NEW f \in Families, InTurn(f), req[r].family = f
  PROVE  InTurn(f)'
<1>1. /\ OnSession(r, f) /\ Live(f) = {} /\ f \notin closed
      /\ \A t \in TokensOf(f) : parent[t] # req[r].token
  BY DEF RefreshCreate, OnSession, At, InTurn, CreatesAlone, ClosedIsDead
<1>2. PICK t \in Tokens : /\ stored' = [stored EXCEPT ![t] =
                               [family |-> f, isRevoked |-> FALSE,
                                expiresAt |-> now + Lifetime]]
                          /\ parent' = [parent EXCEPT ![t] = req[r].token]
  BY DEF RefreshCreate, GenerateTokenPair
<1>3. /\ parent'[t] = req[r].token
      /\ \A u \in Tokens \ {t} : stored'[u] = stored[u] /\ parent'[u] = parent[u]
  BY <1>2 DEF RotationInv, TypeOK
<1>4. Live(f)' \subseteq {t} /\ TokensOf(f)' \subseteq TokensOf(f) \cup {t}
  BY <1>1, <1>3 DEF Live, TokensOf
<1>5. \A q \in Requests : ~OnSession(q, f)'
  BY <1>1 DEF RefreshCreate, Finish, Idle, RotationInv, TypeOK, InTurn, AloneOn, OnSession, At
<1>6. f \notin closed'
  BY <1>1 DEF RefreshCreate
<1>7. RotatedOnce(f)'
  BY <1>1, <1>3, <1>4 DEF InTurn, RotatedOnce, TokensOf
<1>8. OneLive(f)'
  BY <1>4 DEF OneLive
<1>9. QED
  BY <1>5, <1>6, <1>7, <1>8 DEF InTurn, AloneOn, RevokesLive, CreatesAlone, ClosedIsDead

\* A logout or a detected reuse leaves no live token and no rotation under way.
LEMMA CloseInTurn ==
  ASSUME RotationInv, NEW r \in Requests, RevokeFamily(r),
         NEW f \in Families, InTurn(f), req[r].family = f
  PROVE  InTurn(f)'
<1>1. OnSession(r, f)
  BY DEF RevokeFamily, OnSession, At
<1>2. \A q \in Requests : ~OnSession(q, f)'
  BY <1>1 DEF RevokeFamily, Finish, Idle, RotationInv, TypeOK, InTurn, AloneOn, OnSession, At
<1>3. TokensOf(f)' = TokensOf(f)
  BY RevocationStep DEF TokensOf, RotationInv
<1>4. Live(f)' = {}
  BY <1>3, RevocationStep DEF Live, TokensOf, RotationInv
<1>5. RotatedOnce(f)'
  BY <1>3 DEF RevokeFamily, InTurn, RotatedOnce
<1>6. QED
  BY <1>2, <1>4, <1>5
  DEF InTurn, AloneOn, OneLive, RevokesLive, CreatesAlone, ClosedIsDead

\* Every step of the system keeps the invariant of every such session.
LEMMA InTurnStep ==
  ASSUME RotationInv, InTurnInv, [Next]_vars
  PROVE  InTurnInv'
<1> SUFFICES ASSUME NEW f \in Families \ overlapped'
             PROVE  InTurn(f)'
  BY DEF InTurnInv
<1>1. f \in Families /\ InTurn(f)
  BY DEF InTurnInv, Next, Tick, Login, RefreshFind, RefreshReused, LogoutFind, Start,
         RefreshRevoke, RefreshCreate, RevokeFamily, Fail, vars
<1>2. ASSUME UNCHANGED <<stored, parent, closed, req>>
      PROVE  InTurn(f)'
  BY <1>1, <1>2, Elsewhere DEF TokensOf, OnSession, At
<1>3. CASE Login
  <2>1. PICK g \in Families : TokensOf(g) = {} /\ GenerateTokenPair(g, None)
    BY <1>3 DEF Login
  <2>2. UNCHANGED <<req, closed>>
    BY <1>3 DEF Login
  <2>3. CASE g = f
    BY <1>1, <2>1, <2>2, <2>3, LoginInTurn
  <2>4. CASE g # f
    <3>1. TokensOf(f)' = TokensOf(f)
          /\ \A t \in TokensOf(f) : stored'[t] = stored[t] /\ parent'[t] = parent[t]
      BY <1>1, <2>1, <2>4, StoredElsewhere
    <3>2. QED
      BY <1>1, <2>2, <3>1, Elsewhere DEF OnSession, At
  <2>5. QED
    BY <2>3, <2>4
<1>4. ASSUME NEW r \in Requests, RefreshFind(r) \/ RefreshReused(r) \/ LogoutFind(r)
      PROVE  InTurn(f)'
  <2>1. At(r, "idle") /\ UNCHANGED <<stored, parent, closed>>
    BY <1>4 DEF RefreshFind, RefreshReused, LogoutFind
  <2>2. PICK t \in delivered, s \in {"refresh.revoke", "revoke.family"} :
          Start(r, s, t) /\ (s = "refresh.revoke" => ~stored[t].isRevoked)
    BY <1>4 DEF RefreshFind, RefreshReused, LogoutFind
  <2>3. CASE stored[t].family = f
    BY <1>1, <2>1, <2>2, <2>3, StartInTurn
  <2>4. CASE stored[t].family # f
    <3>1. \A q \in Requests : OnSession(q, f)' => OnSession(q, f) /\ req'[q] = req[q]
      BY <2>2, <2>4 DEF Start, OnSession, At, RotationInv, TypeOK
    <3>2. QED
      BY <1>1, <2>1, <3>1, Elsewhere DEF TokensOf
  <2>5. QED
    BY <2>3, <2>4
<1>5. ASSUME NEW r \in Requests, RefreshRevoke(r)
      PROVE  InTurn(f)'
  <2>1. CASE req[r].family = f
    BY <1>1, <1>5, <2>1, RevokeInTurn
  <2>2. CASE req[r].family # f
    <3>1. TokensOf(f)' = TokensOf(f) /\ \A t \in TokensOf(f) : stored'[t] = stored[t]
      <4>1. req[r].token \notin TokensOf(f)
        BY <1>5, <2>2 DEF TokensOf, RotationInv, Remembered, RefreshRevoke, At
      <4>2. QED
        BY <1>5, <4>1, RevocationStep DEF TokensOf, RotationInv
    <3>2. \A q \in Requests : OnSession(q, f)' => OnSession(q, f) /\ req'[q] = req[q]
      BY <1>5, <2>2 DEF RefreshRevoke, OnSession, At, RotationInv, TypeOK, Request
    <3>3. QED
      BY <1>1, <1>5, <3>1, <3>2, Elsewhere DEF RefreshRevoke
  <2>3. QED
    BY <2>1, <2>2
<1>6. ASSUME NEW r \in Requests, RefreshCreate(r)
      PROVE  InTurn(f)'
  <2>1. CASE req[r].family = f
    BY <1>1, <1>6, <2>1, CreateInTurn
  <2>2. CASE req[r].family # f
    <3>1. TokensOf(f)' = TokensOf(f)
          /\ \A t \in TokensOf(f) : stored'[t] = stored[t] /\ parent'[t] = parent[t]
      BY <1>1, <1>6, <2>2, StoredElsewhere DEF RefreshCreate
    <3>2. \A q \in Requests : OnSession(q, f)' => OnSession(q, f) /\ req'[q] = req[q]
      BY <1>6 DEF RefreshCreate, Finish, Idle, OnSession, At, RotationInv, TypeOK
    <3>3. QED
      BY <1>1, <1>6, <3>1, <3>2, Elsewhere DEF RefreshCreate
  <2>3. QED
    BY <2>1, <2>2
<1>7. ASSUME NEW r \in Requests, RevokeFamily(r)
      PROVE  InTurn(f)'
  <2>1. CASE req[r].family = f
    BY <1>1, <1>7, <2>1, CloseInTurn
  <2>2. CASE req[r].family # f
    <3>1. TokensOf(f)' = TokensOf(f) /\ \A t \in TokensOf(f) : stored'[t] = stored[t]
      BY <1>7, <2>2, RevocationStep DEF TokensOf, RotationInv
    <3>2. \A q \in Requests : OnSession(q, f)' => OnSession(q, f) /\ req'[q] = req[q]
      BY <1>7 DEF RevokeFamily, Finish, Idle, OnSession, At, RotationInv, TypeOK
    <3>3. QED
      BY <1>1, <1>7, <2>2, <3>1, <3>2, Elsewhere DEF RevokeFamily
  <2>3. QED
    BY <2>1, <2>2
<1>8. ASSUME NEW r \in Requests, Fail(r)
      PROVE  InTurn(f)'
  <2>1. \A q \in Requests : OnSession(q, f)' => OnSession(q, f) /\ req'[q] = req[q]
    BY <1>8 DEF Fail, Finish, Idle, OnSession, At, RotationInv, TypeOK
  <2>2. QED
    BY <1>1, <1>8, <2>1, Elsewhere DEF Fail, TokensOf
<1>9. QED
  BY <1>2, <1>3, <1>4, <1>5, <1>6, <1>7, <1>8 DEF Next, Tick, vars

\* No session is open at first.
LEMMA InTurnInit == Init => InTurnInv
BY TokenAssumption
DEF Init, InTurnInv, InTurn, AloneOn, OneLive, RevokesLive, CreatesAlone, ClosedIsDead,
    RotatedOnce, OnSession, At, Idle, Live, TokensOf, NoRow

\* The invariant of sessions whose requests take turns holds in every state.
LEMMA InTurnCorrect == Spec => []InTurnInv
<1>1. RotationInv /\ InTurnInv /\ [Next]_vars => InTurnInv'
  BY InTurnStep
<1>2. QED
  BY <1>1, InTurnInit, RotationCorrect, PTL DEF Spec

\* Each refresh token is used once, in a session whose requests never overlapped.
THEOREM UsedOnceInTurn == Spec => []SingleUseInTurn
<1>1. RotationInv /\ InTurnInv => SingleUseInTurn
  <2> SUFFICES ASSUME RotationInv, InTurnInv, NEW t \in Tokens, NEW u \in Tokens,
                      parent[t] # None, parent[t] = parent[u],
                      stored[t].family \notin overlapped
               PROVE  t = u
    BY DEF SingleUseInTurn
  <2> DEFINE f == stored[t].family
  <2>1. /\ parent[t] \in Tokens /\ stored[parent[t]].isRevoked
        /\ stored[parent[t]].family = f /\ stored[u].family = f
    BY DEF RotationInv, TypeOK, RotatedIsRevoked
  <2>2. f \in Families
    BY <2>1, RowsTyped DEF RotationInv, TypeOK
  <2>3. t \in TokensOf(f) /\ u \in TokensOf(f) /\ RotatedOnce(f)
    BY <2>1, <2>2 DEF TokensOf, InTurnInv, InTurn
  <2>4. QED
    BY <2>3 DEF RotatedOnce
<1>2. QED
  BY <1>1, RotationCorrect, InTurnCorrect, PTL

\* Such a session never has two live tokens, and none once it was closed.
THEOREM OneKeyInTurn == Spec => []SessionHasOneKey
<1>1. InTurnInv => SessionHasOneKey
  <2> SUFFICES ASSUME InTurnInv, NEW f \in Families \ overlapped
               PROVE  Cardinality(Live(f)) <= 1 /\ (f \in closed => Live(f) = {})
    BY DEF SessionHasOneKey
  <2>1. OneLive(f) /\ ClosedIsDead(f)
    BY DEF InTurnInv, InTurn
  <2>2. Live(f) = {} \/ \E t \in Live(f) : Live(f) = {t}
    BY <2>1 DEF OneLive
  <2>3. Cardinality(Live(f)) \in {0, 1}
    BY <2>2, FS_EmptySet, FS_Singleton
  <2>4. QED
    BY <2>1, <2>3 DEF ClosedIsDead
<1>2. QED
  BY <1>1, InTurnCorrect, PTL

-----------------------------------------------------------------------------
(* Registration. *)

\* The parts of the inductive invariant: the tables are well formed, only one open
\* transaction has inserted a slug, and no tenant has that slug.
TablesOK ==
    /\ reg \in [Attempts -> Registration]
    /\ \A t \in tenants : t = [id |-> t.id, slug |-> t.slug]

OneInserts == \A g, h \in Attempts :
    (InState(g, "user") /\ InState(h, "user") /\ reg[g].slug = reg[h].slug) => g = h

InsertedIsFree == \A g \in Attempts : InState(g, "user") => ~Taken(reg[g].slug)

RegisterInv == TablesOK /\ OneInserts /\ InsertedIsFree /\ OneOwnedTenantPerSlug

-----------------------------------------------------------------------------

\* A step of a registration changes no slug that an attempt asks for but its own.
LEMMA Moved ==
  ASSUME TablesOK, NEW g \in Attempts, NEW row \in Registration,
         reg' = [reg EXCEPT ![g] = row]
  PROVE  /\ reg' \in [Attempts -> Registration]
         /\ reg'[g] = row
         /\ \A h \in Attempts \ {g} : reg'[h] = reg[h]
BY DEF TablesOK

\* A registration that leaves the tables alone and does not get to its INSERT, or
\* gets there alone on a free slug, keeps the invariant.
LEMMA TablesLeftAlone ==
  ASSUME RegisterInv, NEW g \in Attempts, NEW row \in Registration,
         reg' = [reg EXCEPT ![g] = row],
         UNCHANGED <<tenants, owners>>,
         row.step = "user" =>
             /\ ~Taken(row.slug)
             /\ \A h \in Attempts : ~(InState(h, "user") /\ reg[h].slug = row.slug)
  PROVE  RegisterInv'
<1>1. /\ reg' \in [Attempts -> Registration]
      /\ reg'[g] = row
      /\ \A h \in Attempts \ {g} : reg'[h] = reg[h]
  BY Moved DEF RegisterInv
<1>2. TablesOK'
  BY <1>1 DEF RegisterInv, TablesOK
<1>3. OneInserts'
  BY <1>1 DEF RegisterInv, OneInserts, InState
<1>4. InsertedIsFree'
  BY <1>1 DEF RegisterInv, InsertedIsFree, InState, Taken
<1>5. OneOwnedTenantPerSlug'
  BY DEF RegisterInv, OneOwnedTenantPerSlug
<1>6. QED
  BY <1>2, <1>3, <1>4, <1>5 DEF RegisterInv

\* Nobody is registered at first.
LEMMA InitRegister == AccountsInit => RegisterInv
BY DEF AccountsInit, RegisterInv, TablesOK, OneInserts, InsertedIsFree,
       OneOwnedTenantPerSlug, InState, NotRegistering, Registration

\* The check of the slug only reads.
LEMMA CheckKeeps ==
  ASSUME RegisterInv, NEW g \in Attempts, RegisterCheck(g)
  PROVE  RegisterInv'
<1>1. PICK s \in Slugs : reg' = [reg EXCEPT ![g] = [step |-> "tenant", slug |-> s]]
  BY DEF RegisterCheck
<1>2. [step |-> "tenant", slug |-> s] \in Registration
  BY DEF Registration
<1>3. QED
  BY <1>1, <1>2, TablesLeftAlone DEF RegisterCheck

\* The insert of a tenant finds its slug free.
LEMMA InsertTenantKeeps ==
  ASSUME RegisterInv, NEW g \in Attempts, InsertTenant(g)
  PROVE  RegisterInv'
<1> DEFINE row == [reg[g] EXCEPT !.step = "user"]
<1>1. reg' = [reg EXCEPT ![g] = row]
  BY DEF InsertTenant, Move, RegisterInv, TablesOK
<1>2. row \in Registration /\ row.step = "user" /\ row.slug = reg[g].slug
  BY DEF RegisterInv, TablesOK, Registration
<1>3. /\ ~Taken(row.slug)
      /\ \A h \in Attempts : ~(InState(h, "user") /\ reg[h].slug = row.slug)
  BY <1>2 DEF InsertTenant, Pending
<1> HIDE DEF row
<1>4. QED
  BY <1>1, <1>2, <1>3, TablesLeftAlone DEF InsertTenant

\* A registration that ends leaves the tables alone.
LEMMA EndKeeps ==
  ASSUME RegisterInv, NEW g \in Attempts, End(g), UNCHANGED <<tenants, owners>>
  PROVE  RegisterInv'
<1>1. NotRegistering \in Registration /\ NotRegistering.step # "user"
  BY DEF NotRegistering, Registration
<1>2. QED
  BY <1>1, TablesLeftAlone DEF End

\* The commit adds a tenant of a slug that no tenant had, with its owner.
LEMMA InsertOwnerKeeps ==
  ASSUME RegisterInv, NEW g \in Attempts, InsertOwner(g)
  PROVE  RegisterInv'
<1> DEFINE row == [reg[g] EXCEPT !.step = "session"]
           new == [id |-> g, slug |-> reg[g].slug]
<1>1. /\ row \in Registration
      /\ row.step = "session"
      /\ reg' = [reg EXCEPT ![g] = row]
  BY DEF InsertOwner, Move, RegisterInv, TablesOK, Registration
<1>2. /\ reg' \in [Attempts -> Registration]
      /\ reg'[g] = row
      /\ \A h \in Attempts \ {g} : reg'[h] = reg[h]
  BY <1>1, Moved DEF RegisterInv
<1>3. /\ tenants' = tenants \cup {new}
      /\ owners' = owners \cup {g}
      /\ new.id = g /\ new.slug = reg[g].slug
      /\ ~Taken(new.slug)
  BY DEF InsertOwner, RegisterInv, InsertedIsFree
<1>4. TablesOK'
  <2>1. \A t \in tenants' : t = [id |-> t.id, slug |-> t.slug]
    BY <1>3 DEF RegisterInv, TablesOK
  <2>2. QED
    BY <1>2, <2>1 DEF TablesOK
<1>5. OneInserts'
  BY <1>1, <1>2 DEF RegisterInv, OneInserts, InState
<1>6. InsertedIsFree'
  <2> SUFFICES ASSUME NEW h \in Attempts, reg'[h].step = "user",
                      NEW t \in tenants', t.slug = reg'[h].slug
               PROVE  FALSE
    BY DEF InsertedIsFree, InState, Taken
  <2>1. h # g /\ reg'[h] = reg[h]
    BY <1>1, <1>2
  <2>2. CASE t \in tenants
    BY <2>1, <2>2 DEF RegisterInv, InsertedIsFree, InState, Taken
  <2>3. CASE t = new
    BY <1>3, <2>1, <2>3 DEF RegisterInv, OneInserts, InState, InsertOwner
  <2>4. QED
    BY <1>3, <2>2, <2>3
<1>7. OneOwnedTenantPerSlug'
  <2>1. owners' = {t.id : t \in tenants'}
    BY <1>3 DEF RegisterInv, OneOwnedTenantPerSlug
  <2>2. \A t, u \in tenants' : t.slug = u.slug => t = u
    BY <1>3 DEF RegisterInv, OneOwnedTenantPerSlug, Taken
  <2>3. QED
    BY <2>1, <2>2 DEF OneOwnedTenantPerSlug
<1>8. QED
  BY <1>4, <1>5, <1>6, <1>7 DEF RegisterInv

\* Every step keeps the invariant of registration.
LEMMA NextRegister ==
  ASSUME RegisterInv, [AccountsNext]_allVars
  PROVE  RegisterInv'
<1>1. CASE UNCHANGED accountVars
  BY <1>1 DEF accountVars, RegisterInv, TablesOK, OneInserts, InsertedIsFree,
              OneOwnedTenantPerSlug, InState, Taken
<1>2. ASSUME NEW g \in Attempts,
             RegisterCheck(g) \/ InsertTenant(g) \/ InsertOwner(g)
               \/ OpenSession(g) \/ RegisterFail(g)
      PROVE  RegisterInv'
  BY <1>2, CheckKeeps, InsertTenantKeeps, InsertOwnerKeeps, EndKeeps
     DEF OpenSession, RegisterFail
<1>3. QED
  BY <1>1, <1>2 DEF AccountsNext, SessionStep, OwnerLogin, allVars

-----------------------------------------------------------------------------

\* Whatever registrations of a slug overlap and wherever they stop, a slug has one
\* tenant at most and a tenant has its owner (register's lookup, its transaction
\* and the unique index).
THEOREM AccountsAreWhole == AccountsSpec => []OneOwnedTenantPerSlug
<1>1. RegisterInv /\ [AccountsNext]_allVars => RegisterInv'
  BY NextRegister
<1>2. RegisterInv => OneOwnedTenantPerSlug
  BY DEF RegisterInv
<1>3. QED
  BY InitRegister, <1>1, <1>2, PTL DEF AccountsSpec

\* The sessions of accounts behave as RefreshTokens says: a registration opens one
\* the way a login does, and touches no session otherwise.
THEOREM SessionsAsSpecified == AccountsSpec => Spec
<1>1. AccountsInit => Init
  BY DEF AccountsInit
<1>2. [AccountsNext]_allVars => [Next]_vars
  BY DEF AccountsNext, SessionStep, OwnerLogin, RegisterCheck, InsertTenant, InsertOwner,
         OpenSession, RegisterFail, allVars, Next
<1>3. QED
  BY <1>1, <1>2, PTL DEF AccountsSpec, Spec

=============================================================================
