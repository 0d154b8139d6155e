---------------------------- MODULE AccountsProofs ----------------------------
(***************************************************************************)
(* Theorems about Accounts, for every set of concurrent calls, emails and  *)
(* slugs, with and without database failures and for both orders of commit *)
(* and response.                                                           *)
(***************************************************************************)
EXTENDS Accounts, TLAPS

USE AccountsAssumption

\* Nothing of the calls other than c changes.
Others(c) ==
    /\ commitFirst' = commitFirst
    /\ \A d \in Calls : d # c =>
          pc'[d] = pc[d] /\ req'[d] = req[d] /\ row'[d] = row[d] /\ answered'[d] = answered[d]

\* A committed row is never taken back and keeps its role: a platform admin,
\* once there, stays.
LEMMA AdminsStay ==
    ASSUME NEW c \in Calls, Others(c),
           row[c] = "stored" => row'[c] = "stored" /\ req'[c] = req[c]
    PROVE  PlatformAdmins # {} => PlatformAdmins' # {}
<1>1. ASSUME NEW a \in PlatformAdmins PROVE a \in PlatformAdmins'
  BY <1>1 DEF PlatformAdmins, UsersOf, Stored, Makes, Others
<1>2. QED
  BY <1>1

\* Two calls are rivals by what they ask for, in either direction.
LEMMA RivalsMutual ==
    ASSUME NEW c \in Calls, NEW d \in Rivals(c)
    PROVE  d \in Calls /\ d # c /\ c \in Rivals(d)
BY DEF Rivals, Makes

\* What a step of call c owes the invariant: its own phase, a key nobody holds
\* when it inserts, and a role that leaves the default tenant with an admin.
LEMMA CallKeeps ==
    ASSUME AccountInv, NEW c \in Calls, Others(c), TypeOK',
           PhaseInv(c)',
           row[c] # "none" => req'[c] = req[c],
           row[c] = "stored" => row'[c] = "stored",
           row[c] = "none" /\ row'[c] # "none" =>
               req'[c] = req[c] /\ \A d \in Rivals(c) : row[d] = "none",
           PlatformAdmins' # {} \/ PlatformAdmins = {} => BootstrapInv(c)',
           row[c] # "stored" /\ row'[c] = "stored" =>
               \/ Makes(c, Users)' => req'[c].tenant # Default \/ req'[c].role = "admin"
               \/ PlatformAdmins # {}
    PROVE  AccountInv'
<1>1. PlatformAdmins # {} => PlatformAdmins' # {}
  BY AdminsStay
<1>2. ASSUME NEW d \in Calls PROVE PhaseInv(d)'
  BY <1>2 DEF AccountInv, PhaseInv, Others
<1>3. ASSUME NEW d \in Calls PROVE BootstrapInv(d)'
  BY <1>1, <1>3 DEF AccountInv, BootstrapInv, Makes, Others
<1>4. ASSUME NEW a \in Calls, NEW b \in Rivals(a)', row'[a] # "none", row'[b] # "none"
      PROVE  FALSE
  <2>1. b \in Calls /\ b # a
    BY <1>4 DEF Rivals
  <2>2. row'[c] # "none" => req'[c] = req[c]
    OBVIOUS
  <2>3. req'[a] = req[a] /\ req'[b] = req[b]
    BY <1>4, <2>1, <2>2 DEF Others
  <2>4. b \in Rivals(a) /\ a \in Rivals(b)
    BY <1>4, <2>1, <2>3 DEF Rivals, Makes
  <2>5. row[a] = "none" \/ row[b] = "none"
    BY <2>4 DEF AccountInv
  <2>6. CASE a = c
    BY <1>4, <2>1, <2>4, <2>5, <2>6 DEF Others
  <2>7. CASE b = c
    BY <1>4, <2>1, <2>4, <2>5, <2>7 DEF Others
  <2>8. CASE a # c /\ b # c
    BY <1>4, <2>1, <2>5, <2>8 DEF Others
  <2>9. QED
    BY <2>6, <2>7, <2>8
<1>5. DefaultTenantHasAdmin'
  <2>1. SUFFICES ASSUME NEW u \in UsersOf(Default)', PlatformAdmins = {}
                 PROVE  PlatformAdmins' # {}
    BY <1>1 DEF DefaultTenantHasAdmin
  <2>2. UsersOf(Default) = {}
    BY <2>1 DEF AccountInv, DefaultTenantHasAdmin
  <2>3. u = c /\ row[c] # "stored" /\ row'[c] = "stored"
    BY <2>1, <2>2 DEF UsersOf, Stored, Makes, Others
  <2>4. u \in PlatformAdmins'
    BY <2>1, <2>3 DEF UsersOf, Stored, PlatformAdmins
  <2>5. QED
    BY <2>4
<1>6. QED
  BY <1>2, <1>3, <1>4, <1>5 DEF AccountInv

-----------------------------------------------------------------------------
(* Calls arrive *)

\* A call that has not started owns no row, so whatever it asks for is free.
LEMMA ArrivalKeeps ==
    ASSUME AccountInv, NEW c \in Calls, pc[c] = "idle", NEW asked \in Request,
           req' = [req EXCEPT ![c] = asked],
           NEW label \in {"lookup", "end"},
           pc' = [pc EXCEPT ![c] = label],
           NEW status \in {0, Missing},
           answered' = [answered EXCEPT ![c] = status],
           status # 0 => label = "end",
           UNCHANGED <<commitFirst, row>>,
           asked.kind = "register" => asked.tenant = Default,
           asked.kind = "provision" => PlatformAdmins # {}
    PROVE  AccountInv'
<1>1. row[c] = "none" /\ TypeOK
  BY DEF AccountInv, PhaseInv, TypeOK
<1>2. Others(c) /\ req'[c] = asked /\ pc'[c] = label /\ answered'[c] = status /\ row'[c] = "none"
  BY <1>1 DEF Others, TypeOK
<1>3. TypeOK'
  BY <1>1 DEF TypeOK, PCs
<1>4. PhaseInv(c)'
  BY <1>2 DEF PhaseInv, Created, Missing, Invalid, Conflict
<1>5. PlatformAdmins' # {} \/ PlatformAdmins = {} => BootstrapInv(c)'
  BY <1>2 DEF BootstrapInv, Makes
<1>6. QED
  BY <1>1, <1>2, <1>3, <1>4, <1>5, CallKeeps

LEMMA RegisterKeeps ==
    ASSUME AccountInv, NEW c \in Calls, NEW e \in Emails, Register(c, e)
    PROVE  AccountInv'
<1> DEFINE asked == [req[c] EXCEPT !.email = e]
<1>1. TypeOK /\ BootstrapInv(c) /\ PhaseInv(c) /\ pc[c] = "idle"
  BY DEF AccountInv, Register
<1>2. asked \in Request /\ asked.kind = req[c].kind /\ asked.tenant = req[c].tenant
  BY <1>1 DEF TypeOK, Request
<1>3. req' = [req EXCEPT ![c] = asked]
  BY <1>1 DEF Register, TypeOK
<1>4. answered' = [answered EXCEPT ![c] = 0]
  BY <1>1 DEF Register, TypeOK, PhaseInv
<1>5. /\ asked.kind = "register" => asked.tenant = Default
      /\ asked.kind = "provision" => PlatformAdmins # {}
  BY <1>1, <1>2 DEF BootstrapInv, Makes
<1>6. pc' = [pc EXCEPT ![c] = "lookup"] /\ UNCHANGED <<commitFirst, row>>
  BY DEF Register
<1>7. QED
  BY <1>1, <1>2, <1>3, <1>4, <1>5, <1>6, ArrivalKeeps

LEMMA CreateTenantKeeps ==
    ASSUME AccountInv, NEW c \in Calls, NEW s \in Slugs, CreateTenant(c, s)
    PROVE  AccountInv'
<1> DEFINE asked == [req[c] EXCEPT !.kind = "tenant", !.slug = s]
<1>1. TypeOK /\ PhaseInv(c) /\ pc[c] = "idle"
  BY DEF AccountInv, CreateTenant
<1>2. asked \in Request /\ asked.kind = "tenant"
  BY <1>1 DEF TypeOK, Request, Kinds
<1>3. req' = [req EXCEPT ![c] = asked]
  BY <1>1 DEF CreateTenant, TypeOK
<1>4. answered' = [answered EXCEPT ![c] = 0]
  BY <1>1 DEF CreateTenant, TypeOK, PhaseInv
<1>5. QED
  BY <1>1, <1>2, <1>3, <1>4, ArrivalKeeps DEF CreateTenant, Missing

LEMMA CreateTenantUserKeeps ==
    ASSUME AccountInv, NEW c \in Calls, NEW t \in TenantIds, NEW e \in Emails,
           NEW role \in Roles, CreateTenantUser(c, t, e, role)
    PROVE  AccountInv'
<1> DEFINE asked == [req[c] EXCEPT !.kind = "provision", !.tenant = t, !.email = e, !.role = role]
<1>1. TypeOK /\ PhaseInv(c) /\ pc[c] = "idle" /\ PlatformAdmins # {}
  BY DEF AccountInv, CreateTenantUser
<1>2. asked \in Request /\ asked.kind = "provision"
  BY <1>1 DEF TypeOK, Request, Kinds
<1>3. req' = [req EXCEPT ![c] = asked]
  BY <1>1 DEF CreateTenantUser, TypeOK
<1>4. CASE pc' = [pc EXCEPT ![c] = "lookup"] /\ UNCHANGED answered
  <2>1. answered' = [answered EXCEPT ![c] = 0]
    BY <1>1, <1>4 DEF TypeOK, PhaseInv
  <2>2. QED
    BY <1>1, <1>2, <1>3, <1>4, <2>1, ArrivalKeeps DEF CreateTenantUser
<1>5. CASE Answer(c, Missing)
  <2>1. /\ pc' = [pc EXCEPT ![c] = "end"]
        /\ answered' = [answered EXCEPT ![c] = Missing]
    BY <1>5 DEF Answer
  <2>2. UNCHANGED <<commitFirst, row>>
    BY DEF CreateTenantUser
  <2>3. /\ asked.kind = "register" => asked.tenant = Default
        /\ asked.kind = "provision" => PlatformAdmins # {}
    BY <1>1, <1>2
  <2>4. QED
    <3> HIDE DEF asked
    <3> QED
      BY <1>1, <1>2, <1>3, <2>1, <2>2, <2>3, ArrivalKeeps
<1>6. QED
  BY <1>4, <1>5 DEF CreateTenantUser

-----------------------------------------------------------------------------
(* Calls in progress *)

\* A call ends without a row: refused, in conflict, or rolled back.
LEMMA RefusalKeeps ==
    ASSUME AccountInv, NEW c \in Calls, pc[c] \notin {"idle", "end"},
           NEW status \in {Invalid, Conflict, Created}, status = Created => ~commitFirst,
           pc' = [pc EXCEPT ![c] = "end"],
           answered' = [answered EXCEPT ![c] = status],
           row' = [row EXCEPT ![c] = "none"],
           UNCHANGED <<commitFirst, req>>
    PROVE  AccountInv'
<1>1. TypeOK /\ PhaseInv(c) /\ BootstrapInv(c)
  BY DEF AccountInv
<1>2. /\ Others(c) /\ req'[c] = req[c] /\ pc'[c] = "end"
      /\ answered'[c] = status /\ row'[c] = "none"
  BY <1>1 DEF Others, TypeOK
<1>3. TypeOK'
  BY <1>1 DEF TypeOK, PCs
<1>4. PhaseInv(c)'
  BY <1>1, <1>2 DEF PhaseInv, Created, Missing, Invalid, Conflict
<1>5. row[c] # "stored"
  BY <1>1 DEF PhaseInv
<1>6. PlatformAdmins' # {} \/ PlatformAdmins = {} => BootstrapInv(c)'
  BY <1>1, <1>2 DEF BootstrapInv, Makes
<1>7. QED
  BY <1>1, <1>2, <1>3, <1>4, <1>5, <1>6, CallKeeps

LEMMA LookUpKeeps ==
    ASSUME AccountInv, NEW c \in Calls, LookUp(c)
    PROVE  AccountInv'
<1>1. TypeOK /\ PhaseInv(c) /\ BootstrapInv(c) /\ pc[c] = "lookup" /\ row[c] = "none"
  BY DEF AccountInv, LookUp, PhaseInv, TypeOK
<1>2. CASE Answer(c, Invalid)
  <2>1. row' = [row EXCEPT ![c] = "none"]
    BY <1>1 DEF LookUp, TypeOK
  <2>2. /\ pc' = [pc EXCEPT ![c] = "end"]
        /\ answered' = [answered EXCEPT ![c] = Invalid]
        /\ UNCHANGED <<commitFirst, req>>
    BY <1>2 DEF LookUp, Answer
  <2>3. Invalid # Created
    BY DEF Invalid, Created
  <2>4. QED
    BY <1>1, <2>1, <2>2, <2>3, RefusalKeeps
<1>3. CASE /\ pc' = [pc EXCEPT ![c] = IF Makes(c, {"register"}) THEN "count" ELSE "insert"]
           /\ UNCHANGED answered
  <2>1. /\ Others(c) /\ req'[c] = req[c] /\ row'[c] = "none" /\ answered'[c] = answered[c]
        /\ pc'[c] = IF Makes(c, {"register"}) THEN "count" ELSE "insert"
    BY <1>1, <1>3 DEF Others, TypeOK, LookUp
  <2>2. TypeOK'
    BY <1>1, <1>3 DEF TypeOK, PCs, LookUp
  <2>3. PhaseInv(c)'
    BY <1>1, <2>1 DEF PhaseInv, Created, Missing, Invalid, Conflict, LookUp
  <2>4. PlatformAdmins' # {} \/ PlatformAdmins = {} => BootstrapInv(c)'
    BY <1>1, <2>1 DEF BootstrapInv, Makes
  <2>5. QED
    BY <1>1, <2>1, <2>2, <2>3, <2>4, CallKeeps
<1>4. QED
  BY <1>2, <1>3 DEF LookUp

LEMMA CountUsersKeeps ==
    ASSUME AccountInv, NEW c \in Calls, CountUsers(c)
    PROVE  AccountInv'
<1>1. /\ TypeOK /\ PhaseInv(c) /\ BootstrapInv(c) /\ pc[c] = "count" /\ row[c] = "none"
      /\ DefaultTenantHasAdmin
  BY DEF AccountInv, CountUsers, PhaseInv, TypeOK
<1>2. /\ Others(c) /\ row'[c] = "none" /\ answered'[c] = answered[c] /\ pc'[c] = "insert"
      /\ req'[c].kind = req[c].kind /\ req'[c].tenant = req[c].tenant
      /\ UsersOf(Default) = {} => req'[c].role = "admin"
  BY <1>1 DEF Others, TypeOK, CountUsers, Request
<1>3. TypeOK'
  BY <1>1 DEF TypeOK, PCs, CountUsers, Request, Roles
<1>4. PhaseInv(c)'
  BY <1>1, <1>2 DEF PhaseInv, Created, Missing, Invalid, Conflict, CountUsers
<1>5. PlatformAdmins' # {} \/ PlatformAdmins = {} => BootstrapInv(c)'
  BY <1>1, <1>2 DEF BootstrapInv, Makes, DefaultTenantHasAdmin
<1>6. QED
  BY <1>1, <1>2, <1>3, <1>4, <1>5, CallKeeps

LEMMA InsertKeeps ==
    ASSUME AccountInv, NEW c \in Calls, Insert(c)
    PROVE  AccountInv'
<1>1. TypeOK /\ PhaseInv(c) /\ BootstrapInv(c) /\ pc[c] = "insert" /\ row[c] = "none"
  BY DEF AccountInv, Insert, PhaseInv, TypeOK
<1>2. CASE Answer(c, Conflict) /\ UNCHANGED row
  <2>1. row' = [row EXCEPT ![c] = "none"]
    BY <1>1, <1>2 DEF TypeOK
  <2>2. /\ pc' = [pc EXCEPT ![c] = "end"]
        /\ answered' = [answered EXCEPT ![c] = Conflict]
        /\ UNCHANGED <<commitFirst, req>>
    BY <1>2 DEF Insert, Answer
  <2>3. Conflict # Created
    BY DEF Conflict, Created
  <2>4. QED
    BY <1>1, <2>1, <2>2, <2>3, RefusalKeeps
<1>3. CASE /\ \A d \in Rivals(c) : row[d] # "stored"
           /\ row' = [row EXCEPT ![c] = "draft"]
           /\ pc' = [pc EXCEPT ![c] = "commit"]
           /\ UNCHANGED answered
  <2>1. /\ Others(c) /\ req'[c] = req[c] /\ row'[c] = "draft" /\ pc'[c] = "commit"
        /\ answered'[c] = answered[c]
    BY <1>1, <1>3 DEF Others, TypeOK, Insert
  <2>2. TypeOK'
    BY <1>1, <1>3 DEF TypeOK, PCs, Insert
  <2>3. PhaseInv(c)'
    BY <1>1, <2>1 DEF PhaseInv, Created, Missing, Invalid, Conflict, Insert
  <2>4. PlatformAdmins' # {} \/ PlatformAdmins = {} => BootstrapInv(c)'
    BY <1>1, <2>1 DEF BootstrapInv, Makes
  <2>5. \A d \in Rivals(c) : row[d] = "none"
    BY <1>1, <1>3 DEF Insert, TypeOK, Rivals
  <2>6. QED
    BY <1>1, <2>1, <2>2, <2>3, <2>4, <2>5, CallKeeps
<1>4. QED
  BY <1>2, <1>3 DEF Insert

LEMMA CommitKeeps ==
    ASSUME AccountInv, NEW c \in Calls, Commit(c)
    PROVE  AccountInv'
<1>1. /\ TypeOK /\ PhaseInv(c) /\ BootstrapInv(c) /\ pc[c] \in {"commit", "late"}
      /\ row[c] = "draft"
  BY DEF AccountInv, Commit, PhaseInv
<1>2. /\ Others(c) /\ req'[c] = req[c] /\ row'[c] = "stored" /\ pc'[c] = "end"
      /\ answered'[c] = Created
  BY <1>1 DEF Others, TypeOK, Commit, Answer
<1>3. TypeOK'
  BY <1>1 DEF TypeOK, PCs, Commit, Answer
<1>4. PhaseInv(c)'
  BY <1>2 DEF PhaseInv, Created, Missing, Invalid, Conflict
<1>5. PlatformAdmins' # {} \/ PlatformAdmins = {} => BootstrapInv(c)'
  BY <1>1, <1>2 DEF BootstrapInv, Makes
<1>6. \/ Makes(c, Users)' => req'[c].tenant # Default \/ req'[c].role = "admin"
      \/ PlatformAdmins # {}
  BY <1>1, <1>2 DEF BootstrapInv, Makes, Users
<1>7. QED
  BY <1>1, <1>2, <1>3, <1>4, <1>5, <1>6, CallKeeps

LEMMA RespondBeforeCommitKeeps ==
    ASSUME AccountInv, NEW c \in Calls, RespondBeforeCommit(c)
    PROVE  AccountInv'
<1>1. /\ TypeOK /\ PhaseInv(c) /\ BootstrapInv(c) /\ pc[c] = "commit" /\ row[c] = "draft"
      /\ ~commitFirst
  BY DEF AccountInv, RespondBeforeCommit, PhaseInv
<1>2. /\ Others(c) /\ req'[c] = req[c] /\ row'[c] = "draft" /\ pc'[c] = "late"
      /\ answered'[c] = Created
  BY <1>1 DEF Others, TypeOK, RespondBeforeCommit
<1>3. TypeOK'
  BY <1>1 DEF TypeOK, PCs, RespondBeforeCommit
<1>4. PhaseInv(c)'
  BY <1>1, <1>2 DEF PhaseInv, Created, Missing, Invalid, Conflict, RespondBeforeCommit
<1>5. PlatformAdmins' # {} \/ PlatformAdmins = {} => BootstrapInv(c)'
  BY <1>1, <1>2 DEF BootstrapInv, Makes
<1>6. QED
  BY <1>1, <1>2, <1>3, <1>4, <1>5, CallKeeps

LEMMA FailKeeps ==
    ASSUME AccountInv, NEW c \in Calls, Fail(c)
    PROVE  AccountInv'
<1>1. PhaseInv(c) /\ TypeOK /\ pc[c] \notin {"idle", "end"}
  BY DEF AccountInv, Fail
<1>2. answered[c] # 0 => answered[c] = Created /\ ~commitFirst
  BY <1>1 DEF PhaseInv
<1>3. PICK status \in {Conflict, Created} :
          /\ status = Created => ~commitFirst
          /\ answered' = [answered EXCEPT ![c] = status]
  <2>1. Conflict # Created
    BY DEF Conflict, Created
  <2>2. CASE answered[c] = 0
    BY <2>1, <2>2 DEF Fail, Answer
  <2>3. CASE answered[c] # 0
    BY <1>2, <2>3 DEF Fail, Answer
  <2>4. QED
    BY <2>2, <2>3
<1>4. /\ pc' = [pc EXCEPT ![c] = "end"] /\ row' = [row EXCEPT ![c] = "none"]
      /\ UNCHANGED <<commitFirst, req>>
  BY DEF Fail, Answer
<1>5. QED
  BY <1>1, <1>3, <1>4, RefusalKeeps

-----------------------------------------------------------------------------
(* The theorems *)

LEMMA InitEstablishes == Init => AccountInv
<1>1. SUFFICES ASSUME Init PROVE AccountInv
  OBVIOUS
<1>2. TypeOK
  BY <1>1 DEF Init, TypeOK, PCs, Request, Kinds, Roles, TenantIds
<1>3. \A c \in Calls : row[c] = "none" /\ pc[c] = "idle" /\ answered[c] = 0
  BY <1>1 DEF Init
<1>4. \A c \in Calls : PhaseInv(c)
  BY <1>3 DEF PhaseInv, Created, Missing, Invalid, Conflict
<1>5. \A c \in Calls : req[c].kind = "register" /\ req[c].tenant = Default
  BY <1>1 DEF Init
<1>6. \A c \in Calls : BootstrapInv(c)
  BY <1>3, <1>5 DEF BootstrapInv, Makes
<1>7. UsersOf(Default) = {}
  BY <1>3 DEF UsersOf, Stored
<1>8. QED
  BY <1>2, <1>3, <1>4, <1>6, <1>7 DEF AccountInv, DefaultTenantHasAdmin

\* Rows, keys, roles and answers of all calls fit together in every reachable
\* state, however look-ups, inserts and commits interleave.
THEOREM AccountInvariant == Spec => []AccountInv
<1>1. AccountInv /\ [Next]_vars => AccountInv'
  <2>1. SUFFICES ASSUME AccountInv, [Next]_vars PROVE AccountInv'
    OBVIOUS
  <2>2. CASE UNCHANGED vars
    BY <2>1, <2>2
    DEF AccountInv, vars, TypeOK, PhaseInv, BootstrapInv, Makes, Rivals,
        DefaultTenantHasAdmin, PlatformAdmins, UsersOf, Stored
  <2>3. ASSUME NEW c \in Calls, NEW e \in Emails, Register(c, e) PROVE AccountInv'
    BY <2>1, <2>3, RegisterKeeps
  <2>4. ASSUME NEW c \in Calls, NEW s \in Slugs, CreateTenant(c, s) PROVE AccountInv'
    BY <2>1, <2>4, CreateTenantKeeps
  <2>5. ASSUME NEW c \in Calls, NEW t \in TenantIds, NEW e \in Emails, NEW role \in Roles,
               CreateTenantUser(c, t, e, role)
        PROVE  AccountInv'
    BY <2>1, <2>5, CreateTenantUserKeeps
  <2>6. ASSUME NEW c \in Calls, Step(c) PROVE AccountInv'
    BY <2>1, <2>6, LookUpKeeps, CountUsersKeeps, InsertKeeps, CommitKeeps,
       RespondBeforeCommitKeeps DEF Step
  <2>7. ASSUME NEW c \in Calls, Fail(c) PROVE AccountInv'
    BY <2>1, <2>7, FailKeeps
  <2>8. QED
    BY <2>1, <2>2, <2>3, <2>4, <2>5, <2>6, <2>7 DEF Next
<1>2. QED
  BY <1>1, InitEstablishes, PTL DEF Spec

\* Roles, phases and answers of every call stay within their types.
THEOREM AccountTypes == Spec => []TypeOK
<1>1. AccountInv => TypeOK
  BY DEF AccountInv
<1>2. QED
  BY <1>1, AccountInvariant, PTL

\* Emails and slugs stay unique although the look-up and the insert of a
\* request are not atomic.
THEOREM KeysStayUnique == Spec => []KeysUnique
<1>1. AccountInv => KeysUnique
  BY DEF AccountInv, KeysUnique
<1>2. QED
  BY <1>1, AccountInvariant, PTL

\* The bootstrap of a deployment is never lost: the first account to commit in
\* the default tenant is an admin, whoever counted what.
THEOREM BootstrapHolds == Spec => []DefaultTenantHasAdmin
<1>1. AccountInv => DefaultTenantHasAdmin
  BY DEF AccountInv
<1>2. QED
  BY <1>1, AccountInvariant, PTL

\* A refused or failed request leaves no row, and when the framework commits
\* first, tokens are only handed out for accounts that are stored.
THEOREM AnswersHold == Spec => []AnswersAreTrue
<1>1. AccountInv => AnswersAreTrue
  BY DEF AccountInv, AnswersAreTrue, PhaseInv
<1>2. QED
  BY <1>1, AccountInvariant, PTL

=============================================================================
