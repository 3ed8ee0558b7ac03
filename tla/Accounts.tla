------------------------------- MODULE Accounts -------------------------------
(***************************************************************************)
(* Registration (AuthService.register), together with the sessions of      *)
(* RefreshTokens: a tenant and its owner are created in one transaction,   *)
(* then the first session is opened, and only a user can log in.           *)
(*                                                                         *)
(* The slug is looked up before the password is hashed and again, by the   *)
(* unique index, when the tenant is inserted: an INSERT that meets the     *)
(* same slug in an open transaction waits until that one has ended.        *)
(***************************************************************************)
EXTENDS RefreshTokens

CONSTANTS
    Attempts,   \* the uuids tenants can get, each drawn by one request at a time
    Slugs

VARIABLES
    tenants,   \* the committed rows of the tenants table
    owners,    \* the tenants whose OWNER user is committed
    reg        \* what each attempt has done, and the slug it asks for

accountVars == <<tenants, owners, reg>>
allVars     == <<vars, accountVars>>

Registration == [step : {"idle", "tenant", "user", "session"}, slug : Slugs \cup {None}]

NotRegistering == [step |-> "idle", slug |-> None]

InState(g, step) == reg[g].step = step
Move(g, step)    == reg' = [reg EXCEPT ![g].step = step]
End(g)           == reg' = [reg EXCEPT ![g] = NotRegistering]

\* The slug is that of a tenant; an open transaction has inserted it.
Taken(slug) == \E t \in tenants : t.slug = slug
Pending(g)  == \E h \in Attempts : InState(h, "user") /\ reg[h].slug = reg[g].slug

AccountsInit ==
    /\ Init
    /\ tenants = {}
    /\ owners = {}
    /\ reg = [g \in Attempts |-> NotRegistering]

\* findUnique by slug finds none, and the password is hashed; a taken slug is a
\* conflict and changes nothing.  The uuid is one no tenant has.
RegisterCheck(g) ==
    /\ InState(g, "idle")
    /\ \A t \in tenants : t.id # g
    /\ \E s \in Slugs :
         /\ ~Taken(s)
         /\ reg' = [reg EXCEPT ![g] = [step |-> "tenant", slug |-> s]]
    /\ UNCHANGED <<vars, tenants, owners>>

\* Fault: the slug column is not unique, the lookup before has to do.
InsertTenantFault(g) ==
    /\ InState(g, "tenant")
    /\ Move(g, "user")
    /\ UNCHANGED <<vars, tenants, owners>>

\* tx.tenant.create: the unique index on slug lets it wait for an open transaction.
InsertTenant(g) ==
    /\ InState(g, "tenant")
    /\ ~Pending(g)
    /\ ~Taken(reg[g].slug)
    /\ Move(g, "user")
    /\ UNCHANGED <<vars, tenants, owners>>

\* tx.user.create, whose tenant has no other user yet, and the commit.
InsertOwner(g) ==
    /\ InState(g, "user")
    /\ tenants' = tenants \cup {[id |-> g, slug |-> reg[g].slug]}
    /\ owners' = owners \cup {g}
    /\ Move(g, "session")
    /\ UNCHANGED vars

\* generateTokenPair after the transaction, and the answer.
OpenSession(g) ==
    /\ InState(g, "session")
    /\ Login
    /\ End(g)
    /\ UNCHANGED <<tenants, owners>>

\* The unique index refuses the tenant, or the server crashes or loses its
\* connection: an open transaction is rolled back, a committed account stays.
RegisterFail(g) ==
    /\ reg[g].step \in {"tenant", "user", "session"}
    /\ End(g)
    /\ UNCHANGED <<vars, tenants, owners>>

\* login finds the tenant by its slug and the user in it; users stay active.
OwnerLogin ==
    /\ \E t \in tenants : t.id \in owners
    /\ Login
    /\ UNCHANGED accountVars

\* What sessions do once they are open.
SessionStep ==
    /\ \/ Tick
       \/ \E r \in Requests :
            \/ RefreshFind(r) \/ RefreshRevoke(r) \/ RefreshCreate(r)
            \/ RefreshReused(r) \/ LogoutFind(r) \/ RevokeFamily(r)
            \/ Fail(r)
    /\ UNCHANGED accountVars

AccountsNext ==
    \/ SessionStep
    \/ OwnerLogin
    \/ \E g \in Attempts :
         \/ RegisterCheck(g) \/ InsertTenant(g) \/ InsertOwner(g)
         \/ OpenSession(g) \/ RegisterFail(g)

AccountsSpec == AccountsInit /\ [][AccountsNext]_allVars

-----------------------------------------------------------------------------
(* Properties. *)

\* auth.service.ts:38 "create tenant + user together": however registrations of a
\* slug overlap between lookup and INSERT, and wherever one stops, no slug has two
\* tenants, and a tenant has its owner, who can log in although no answer came.
OneOwnedTenantPerSlug ==
    /\ owners = {t.id : t \in tenants}
    /\ \A t, u \in tenants : t.slug = u.slug => t = u

=============================================================================
