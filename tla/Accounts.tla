------------------------------- MODULE Accounts -------------------------------
(***************************************************************************)
(* Accounts of NowLens: self-registration (api/routers/auth.py) and the    *)
(* provisioning of tenants and their users by a platform admin             *)
(* (api/routers/tenants.py), as concurrent requests on one PostgreSQL      *)
(* database at READ COMMITTED.  A request reads what is committed, decides,*)
(* inserts, and commits last; only the unique indexes on users.email and   *)
(* tenants.slug hold concurrent requests apart.                            *)
(*                                                                         *)
(* A user or tenant is named after the call that creates it.               *)
(***************************************************************************)
EXTENDS Naturals, FiniteSets

CONSTANTS
    Calls,           \* API requests
    Emails,          \* addresses, lower-cased
    Slugs,           \* tenant slugs, lower-cased
    Default,         \* the seed tenant, which every deployment has
    DbFaults         \* a statement or a commit may fail

ASSUME AccountsAssumption ==
    /\ Default \notin Calls
    /\ DbFaults \in BOOLEAN

Kinds == {"register", "provision", "tenant"}

Roles == {"viewer", "user", "operator", "admin"}

TenantIds == {Default} \cup Calls

\* What a call is about; unused fields keep their default.
Request == [kind : Kinds, email : Emails, slug : Slugs, tenant : TenantIds, role : Roles]

VARIABLES
    commitFirst, \* the framework commits before the response goes out
    pc,       \* pc[c]: how far the request has come
    req,      \* req[c]: what it asks for, with the role it decided on
    row,      \* row[c]: its users or tenants row: "none", "draft", "stored"
    answered  \* answered[c]: the status its client has seen, 0 for none

vars == <<commitFirst, pc, req, row, answered>>

PCs == {"idle", "lookup", "count", "insert", "commit", "late", "end"}

Conflict == 500  \* an IntegrityError is nobody's exception handler's
Created == 201
Invalid == 422
Missing == 404

TypeOK ==
    /\ commitFirst \in BOOLEAN
    /\ pc \in [Calls -> PCs]
    /\ req \in [Calls -> Request]
    /\ row \in [Calls -> {"none", "draft", "stored"}]
    /\ answered \in [Calls -> {0, Created, Invalid, Missing, Conflict}]

Makes(c, kinds) == req[c].kind \in kinds

Users == {"register", "provision"}

\* Committed users, all of them active.
Stored == {c \in Calls : row[c] = "stored" /\ Makes(c, Users)}

Tenants == {Default} \cup {c \in Calls : row[c] = "stored" /\ Makes(c, {"tenant"})}

UsersOf(tenant) == {c \in Stored : req[c].tenant = tenant}

PlatformAdmins == {c \in UsersOf(Default) : req[c].role = "admin"}

Init ==
    /\ commitFirst \in BOOLEAN
    /\ pc = [c \in Calls |-> "idle"]
    /\ \E e \in Emails, s \in Slugs :
          req = [c \in Calls |-> [kind |-> "register", email |-> e, slug |-> s,
                                  tenant |-> Default, role |-> "user"]]
    /\ row = [c \in Calls |-> "none"]
    /\ answered = [c \in Calls |-> 0]

-----------------------------------------------------------------------------

\* POST /auth/register: anyone may; the account joins the default tenant.
Register(c, e) ==
    /\ pc[c] = "idle"
    /\ req' = [req EXCEPT ![c].email = e]
    /\ pc' = [pc EXCEPT ![c] = "lookup"]
    /\ UNCHANGED <<commitFirst, row, answered>>

\* POST /tenants and POST /tenants/{id}/users: platform_admin lets an admin of
\* the default tenant in.
CreateTenant(c, s) ==
    /\ pc[c] = "idle" /\ PlatformAdmins # {}
    /\ req' = [req EXCEPT ![c].kind = "tenant", ![c].slug = s]
    /\ pc' = [pc EXCEPT ![c] = "lookup"]
    /\ UNCHANGED <<commitFirst, row, answered>>

Answer(c, status) ==
    /\ pc' = [pc EXCEPT ![c] = "end"]
    /\ answered' = [answered EXCEPT ![c] = status]

CreateTenantUser(c, tenant, e, role) ==
    /\ pc[c] = "idle" /\ PlatformAdmins # {}
    /\ req' = [req EXCEPT ![c].kind = "provision", ![c].tenant = tenant,
                          ![c].email = e, ![c].role = role]
    /\ \/ tenant \in Tenants /\ pc' = [pc EXCEPT ![c] = "lookup"] /\ UNCHANGED answered
       \/ tenant \notin Tenants /\ Answer(c, Missing)
    /\ UNCHANGED <<commitFirst, row>>

\* The calls that insert, or have inserted, the unique key of call c.
Rivals(c) ==
    {d \in Calls \ {c} :
        \/ Makes(c, Users) /\ Makes(d, Users) /\ req[d].email = req[c].email
        \/ Makes(c, {"tenant"}) /\ Makes(d, {"tenant"}) /\ req[d].slug = req[c].slug}

\* get_by_email, get_by_slug: a committed row refuses the request.
LookUp(c) ==
    /\ pc[c] = "lookup"
    /\ \/ /\ \E d \in Rivals(c) : row[d] = "stored"
          /\ Answer(c, Invalid)
       \/ /\ \A d \in Rivals(c) : row[d] # "stored"
          /\ pc' = [pc EXCEPT ![c] = IF Makes(c, {"register"}) THEN "count" ELSE "insert"]
          /\ UNCHANGED answered
    /\ UNCHANGED <<commitFirst, req, row>>

\* Mutant of CountUsers: the count includes rows of open transactions.
CountDrafts(c) ==
    /\ pc[c] = "count"
    /\ req' = [req EXCEPT ![c].role =
                  IF \E d \in Calls : row[d] # "none" /\ Makes(d, Users) /\ req[d].tenant = Default
                  THEN "user" ELSE "admin"]
    /\ pc' = [pc EXCEPT ![c] = "insert"]
    /\ UNCHANGED <<commitFirst, row, answered>>

\* register decides the role on the number of committed accounts in the tenant.
CountUsers(c) ==
    /\ pc[c] = "count"
    /\ req' = [req EXCEPT ![c].role = IF UsersOf(Default) = {} THEN "admin" ELSE "user"]
    /\ pc' = [pc EXCEPT ![c] = "insert"]
    /\ UNCHANGED <<commitFirst, row, answered>>

\* Mutant of Insert: no unique index stands behind the lookup.
InsertUnguarded(c) ==
    /\ pc[c] = "insert"
    /\ row' = [row EXCEPT ![c] = "draft"]
    /\ pc' = [pc EXCEPT ![c] = "commit"]
    /\ UNCHANGED <<commitFirst, req, answered>>

\* create() flushes: the INSERT waits for an open transaction that holds the
\* key, and fails when the key has been committed since the lookup.
Insert(c) ==
    /\ pc[c] = "insert"
    /\ \A d \in Rivals(c) : row[d] # "draft"
    /\ \/ /\ \E d \in Rivals(c) : row[d] = "stored"
          /\ Answer(c, Conflict)
          /\ UNCHANGED row
       \/ /\ \A d \in Rivals(c) : row[d] # "stored"
          /\ row' = [row EXCEPT ![c] = "draft"]
          /\ pc' = [pc EXCEPT ![c] = "commit"]
          /\ UNCHANGED answered
    /\ UNCHANGED <<commitFirst, req>>

\* Mutant of Commit: the response is sent although the commit may still fail.
AnswerFirst(c) ==
    /\ pc[c] = "commit"
    /\ answered' = [answered EXCEPT ![c] = Created]
    /\ pc' = [pc EXCEPT ![c] = "late"]
    /\ UNCHANGED <<commitFirst, req, row>>

\* get_session commits the row and the audit entry; the tokens are in the
\* response, which goes out before or after.
Commit(c) ==
    /\ \/ commitFirst /\ pc[c] = "commit"
       \/ pc[c] = "late"
    /\ row' = [row EXCEPT ![c] = "stored"]
    /\ Answer(c, Created)
    /\ UNCHANGED <<commitFirst, req>>

RespondBeforeCommit(c) ==
    /\ ~commitFirst
    /\ pc[c] = "commit"
    /\ answered' = [answered EXCEPT ![c] = Created]
    /\ pc' = [pc EXCEPT ![c] = "late"]
    /\ UNCHANGED <<commitFirst, req, row>>

\* Mutant of Fail: the transaction is left open.
FailWithoutRollback(c) ==
    /\ DbFaults
    /\ pc[c] \notin {"idle", "end"}
    /\ Answer(c, IF answered[c] = 0 THEN Conflict ELSE answered[c])
    /\ UNCHANGED <<commitFirst, req, row>>

\* Any statement, or the commit (which carries the audit entry's INSERT), may
\* fail: get_session rolls back.
Fail(c) ==
    /\ DbFaults
    /\ pc[c] \notin {"idle", "end"}
    /\ row' = [row EXCEPT ![c] = "none"]
    /\ Answer(c, IF answered[c] = 0 THEN Conflict ELSE answered[c])
    /\ UNCHANGED <<commitFirst, req>>

Step(c) == LookUp(c) \/ CountUsers(c) \/ Insert(c) \/ Commit(c) \/ RespondBeforeCommit(c)

Next ==
    \E c \in Calls :
        \/ \E e \in Emails : Register(c, e)
        \/ \E s \in Slugs : CreateTenant(c, s)
        \/ \E t \in TenantIds, e \in Emails, role \in Roles : CreateTenantUser(c, t, e, role)
        \/ Step(c)
        \/ Fail(c)

Spec == Init /\ [][Next]_vars

\* Every request is a coroutine the event loop keeps running.
FairSpec == Spec /\ \A c \in Calls : WF_vars(Step(c))

-----------------------------------------------------------------------------
(* Properties *)

\* Login by email is unambiguous and slugs name one tenant, however lookups and
\* inserts of concurrent requests interleave.
KeysUnique ==
    \A c \in Calls : row[c] = "stored" => \A d \in Rivals(c) : row[d] # "stored"

\* A deployment that has an account in the default tenant has an operator there:
\* whichever requests fail, the bootstrap is never lost.
DefaultTenantHasAdmin ==
    UsersOf(Default) # {} => PlatformAdmins # {}

\* What a client is told is so: a refused or failed request leaves nothing behind,
\* and who holds the tokens of a new account can use them, since it is stored.
AnswersAreTrue ==
    \A c \in Calls :
        /\ answered[c] \in {Invalid, Missing, Conflict} => row[c] = "none"
        /\ commitFirst /\ answered[c] = Created => row[c] = "stored"

\* How far a call has come, and what its row and its client's answer may be.
PhaseInv(c) ==
    /\ row[c] = "draft" <=> pc[c] \in {"commit", "late"}
    /\ row[c] = "stored" => pc[c] = "end"
    /\ pc[c] \notin {"late", "end"} => answered[c] = 0
    /\ pc[c] = "late" => answered[c] = Created /\ ~commitFirst
    /\ answered[c] \in {Invalid, Missing, Conflict} => row[c] = "none"
    /\ commitFirst /\ answered[c] = Created => row[c] = "stored"

\* A call that will not store an admin of the default tenant knows there is one.
BootstrapInv(c) ==
    /\ Makes(c, {"register"}) => req[c].tenant = Default
    /\ Makes(c, {"register"}) /\ pc[c] \in {"insert", "commit", "late"} =>
          req[c].role = "admin" \/ PlatformAdmins # {}
    /\ Makes(c, {"provision"}) => PlatformAdmins # {}

\* The inductive invariant behind TypeOK and the safety properties above.
AccountInv ==
    /\ TypeOK
    /\ \A c \in Calls : PhaseInv(c)
    /\ \A c \in Calls : BootstrapInv(c)
    /\ \A c \in Calls : row[c] # "none" => \A d \in Rivals(c) : row[d] = "none"
    /\ DefaultTenantHasAdmin

\* No request waits for ever for another's unique key.
CallsEnd ==
    \A c \in Calls : pc[c] # "idle" ~> pc[c] = "end"

\* "The first account to register is bootstrapped as an admin; every subsequent
\* account defaults to the user role" (auth.py:3).
OnlyFirstIsAdmin ==
    Cardinality({c \in Stored : Makes(c, {"register"}) /\ req[c].role = "admin"}) <= 1

=============================================================================
