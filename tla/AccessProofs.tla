----------------------------- MODULE AccessProofs -----------------------------
(***************************************************************************)
(* What Access promises, for every set of users, requests and endpoints,   *)
(* all lives of tokens and cookies, and any bounds: revoked rights stay    *)
(* revoked, calls are charged to whom they act as, cookies belong together. *)
(***************************************************************************)
EXTENDS Access, TLAPS

Pending == {"login", "refresh", "logout", "use"}

\* Absent, or a token of this type for one of the users.
TokenOK(token, type) == token = NoToken \/ (token.type = type /\ token.user \in Users)

CsrfOK(token) == token = NoToken \/ token.type = "csrf"

\* What a login or a refresh hands out belongs together.
IssueOK(set) ==
    /\ set.access.type = "access" /\ set.access.user \in Users
    /\ set.refresh.type = "refresh" /\ set.refresh.user = set.access.user
    /\ set.csrf.type = "csrf"

\* And so does what a browser keeps of it, for as long as it keeps it.
JarOK ==
    \/ jar = EmptyJar
    \/ /\ jar.access.value.type = "access" /\ jar.access.value.user \in Users
       /\ jar.refresh.value.type = "refresh"
       /\ jar.refresh.value.user = jar.access.value.user
       /\ jar.csrf.value.type = "csrf"
       /\ jar.access.until \in Int /\ jar.refresh.until \in Int /\ jar.csrf.until \in Int
       /\ jar.access.until <= jar.refresh.until
       /\ jar.access.until <= jar.csrf.until

\* Rights only shrink: what is stored is what stood, or less.
AtLeast(stood, stored) == stored = stood \/ stored = "inactive" \/ stood = "admin"

StandingOK(x, stored) == \A u \in Users : AtLeast(x.standing[u], stored[u])

\* What a request carries was the sender's when it left.
RequestOK(x) ==
    /\ x.kind = "login" => x.request \in Users
    /\ x.kind = "refresh" => TokenOK(x.request, "refresh")
    /\ x.kind = "use" =>
          /\ TokenOK(x.request.bearer, "access") /\ TokenOK(x.request.access, "access")
          /\ CsrfOK(x.request.csrf)
          /\ x.request.header = NoToken \/ x.request.header = x.request.csrf

\* What RevocationHolds, ChargedAsActing and JarIsWhole say of one answer.
Honest(x) ==
    /\ x.result = "granted" /\ x.of = "use" =>
          /\ x.standing[x.more.acting] # "inactive"
          /\ Suffices(x.more.need, x.more.acting, x.standing[x.more.acting])
          /\ IF x.more.bearer THEN x.more.charged = <<"user", x.more.acting>>
             ELSE x.more.charged = <<"ip">> /\ x.more.proof
    /\ x.result = "granted" /\ x.of \in {"login", "refresh"} =>
          x.standing[x.set.access.user] # "inactive"
    /\ x.result = "forged" => ~x.more.echo

AnswerOK(x) ==
    /\ x.kind = "answered"
    /\ x.of \in Pending
    /\ x.of = "logout" => x.set = EmptyJar
    /\ x.of \in {"login", "refresh"} => IssueOK(x.set)
    /\ x.of = "use" => x.set = NoToken
    /\ Honest(x)

CallOK(x, stored) ==
    \/ x = Idle
    \/ x.kind \in Pending /\ StandingOK(x, stored) /\ RequestOK(x)
    \/ AnswerOK(x)

\* The inductive invariant.
AccessInv ==
    /\ now \in Int
    /\ account = [u \in Users |-> account[u]]
    /\ JarOK
    /\ TokenOK(held.access, "access") /\ TokenOK(held.refresh, "refresh")
    /\ call = [c \in Calls |-> call[c]]
    /\ \A c \in Calls : CallOK(call[c], account)

-----------------------------------------------------------------------------
(* Lemmas *)

\* A role that suffices now suffices by what stood before.
LEMMA StandingSuffices ==
    ASSUME NEW stood, NEW stored, NEW need, NEW u,
           AtLeast(stood, stored), stored # "inactive"
    PROVE  /\ stood # "inactive"
           /\ Suffices(need, u, stored) => Suffices(need, u, stood)
<1>1. stood = stored \/ stood = "admin" BY DEF AtLeast
<1>2. RoleRank("admin") = 3 /\ RoleRank("operator") = 2
    BY DEF RoleRank, ROLE_RANK
<1>3. HasRequiredRole("admin", "operator") /\ HasRequiredRole("admin", "admin")
    BY <1>2 DEF HasRequiredRole
<1> QED BY <1>1, <1>3 DEF Suffices

\* The cookies a browser sends are well typed.
LEMMA SentCookies ==
    ASSUME JarOK
    PROVE  /\ TokenOK(Sent("access"), "access")
           /\ TokenOK(Sent("refresh"), "refresh")
           /\ CsrfOK(Sent("csrf"))
<1>1. CASE jar = EmptyJar
    BY <1>1 DEF EmptyJar, NoCookie, Sent, TokenOK, CsrfOK
<1>2. CASE jar # EmptyJar
    BY <1>2 DEF JarOK, Sent, TokenOK, CsrfOK
<1> QED BY <1>1, <1>2

\* What an unfinished request, or none, owes the invariant when it changes.
LEMMA OneCall ==
    ASSUME AccessInv, NEW c \in Calls, NEW x,
           call' = [call EXCEPT ![c] = x], CallOK(x, account), UNCHANGED account
    PROVE  /\ call' = [d \in Calls |-> call'[d]]
           /\ \A d \in Calls : CallOK(call'[d], account')
<1>1. call = [d \in Calls |-> call[d]] /\ \A d \in Calls : CallOK(call[d], account)
    BY DEF AccessInv
<1>2. call' = [d \in Calls |-> IF d = c THEN x ELSE call[d]]
    BY <1>1
<1>3. \A d \in Calls : call'[d] = IF d = c THEN x ELSE call[d]
    BY <1>2
<1>4. \A d \in Calls : CallOK(call'[d], account')
    BY <1>1, <1>3
<1> QED BY <1>2, <1>4

LEMMA InitHolds == AccessAssumption /\ Init => AccessInv
<1> SUFFICES ASSUME Init PROVE AccessInv OBVIOUS
<1>1. \A c \in Calls : call[c] = Idle BY DEF Init
<1> QED BY <1>1 DEF Init, AccessInv, JarOK, TokenOK, CallOK

-----------------------------------------------------------------------------
(* Requests leave *)

\* A request that leaves stands on the roles of this moment.
LEMMA SendKeeps ==
    ASSUME AccessInv, NEW c \in Calls, NEW kind \in Pending, NEW sender, NEW request,
           Send(c, kind, sender, request),
           RequestOK([kind |-> kind, sender |-> sender, request |-> request,
                      standing |-> account])
    PROVE  AccessInv'
<1> DEFINE x == [kind |-> kind, sender |-> sender, request |-> request, standing |-> account]
<1>1. StandingOK(x, account) BY DEF StandingOK, AtLeast
<1>2. CallOK(x, account) BY <1>1 DEF CallOK
<1>3. call' = [call EXCEPT ![c] = x] /\ UNCHANGED <<now, account, jar, held, issues>>
    BY DEF Send
<1>4. /\ call' = [d \in Calls |-> call'[d]]
      /\ \A d \in Calls : CallOK(call'[d], account')
    <2> HIDE DEF x
    <2> QED BY <1>2, <1>3, OneCall
<1> QED BY <1>3, <1>4 DEF AccessInv, JarOK

LEMMA SendLoginKeeps ==
    ASSUME AccessInv, NEW c \in Calls, SendLogin(c)
    PROVE  AccessInv'
<1> PICK u \in Users, sender \in Senders : Send(c, "login", sender, u) BY DEF SendLogin
<1>1. RequestOK([kind |-> "login", sender |-> sender, request |-> u, standing |-> account])
    BY DEF RequestOK
<1> QED BY <1>1, SendKeeps DEF Pending

LEMMA SendRefreshKeeps ==
    ASSUME AccessInv, NEW c \in Calls, SendRefresh(c)
    PROVE  AccessInv'
<1>1. PICK sender, token : Send(c, "refresh", sender, token) /\ TokenOK(token, "refresh")
    BY SentCookies DEF SendRefresh, AccessInv
<1>2. RequestOK([kind |-> "refresh", sender |-> sender, request |-> token, standing |-> account])
    BY <1>1 DEF RequestOK
<1> QED BY <1>1, <1>2, SendKeeps DEF Pending

LEMMA SendLogoutKeeps ==
    ASSUME AccessInv, NEW c \in Calls, SendLogout(c)
    PROVE  AccessInv'
<1>1. RequestOK([kind |-> "logout", sender |-> "page", request |-> NoToken, standing |-> account])
    BY DEF RequestOK
<1> QED BY <1>1, SendKeeps DEF Pending, SendLogout

LEMMA SendUseKeeps ==
    ASSUME AccessInv, NEW c \in Calls, SendUse(c)
    PROVE  AccessInv'
<1>1. PICK sender \in Senders, e \in Endpoints, echo \in {TRUE, FALSE} :
         Send(c, "use", sender,
              [need |-> e.need, unsafe |-> e.unsafe, bearer |-> Bearer(sender),
               access |-> Sent("access"), csrf |-> Sent("csrf"),
               header |-> IF echo THEN Sent("csrf") ELSE NoToken])
    BY AccessAssumption DEF SendUse, AccessAssumption
<1> DEFINE r == [need |-> e.need, unsafe |-> e.unsafe, bearer |-> Bearer(sender),
                 access |-> Sent("access"), csrf |-> Sent("csrf"),
                 header |-> IF echo THEN Sent("csrf") ELSE NoToken]
<1>2. TokenOK(r.bearer, "access") BY DEF AccessInv, Bearer, TokenOK
<1>3. TokenOK(r.access, "access") /\ CsrfOK(r.csrf) BY SentCookies DEF AccessInv
<1>4. r.header = NoToken \/ r.header = r.csrf OBVIOUS
<1>5. RequestOK([kind |-> "use", sender |-> sender, request |-> r, standing |-> account])
    <2> HIDE DEF r
    <2> QED BY <1>2, <1>3, <1>4 DEF RequestOK
<1>6. Send(c, "use", sender, r) BY <1>1
<1> HIDE DEF r
<1> QED BY <1>5, <1>6, SendKeeps DEF Pending

-----------------------------------------------------------------------------
(* The server answers *)

LEMMA RefuseKeeps ==
    ASSUME AccessInv, NEW c \in Calls, Refuse(c)
    PROVE  AccessInv'
<1>1. CallOK(Idle, account) BY DEF CallOK
<1>2. /\ call' = [d \in Calls |-> call'[d]]
      /\ \A d \in Calls : CallOK(call'[d], account')
    BY <1>1, OneCall DEF Refuse
<1> QED BY <1>2 DEF AccessInv, JarOK, Refuse

\* Of an answer only its honesty and what it sets are left to show.
LEMMA AnswerKeeps ==
    ASSUME AccessInv, NEW c \in Calls, NEW result, NEW set, NEW more,
           call[c].kind \in Pending, Answer(c, result, set, more),
           AnswerOK([kind |-> "answered", of |-> call[c].kind, sender |-> call[c].sender,
                     standing |-> call[c].standing, result |-> result, set |-> set,
                     more |-> more])
    PROVE  AccessInv'
<1> DEFINE x == [kind |-> "answered", of |-> call[c].kind, sender |-> call[c].sender,
                 standing |-> call[c].standing, result |-> result, set |-> set, more |-> more]
<1>1. CallOK(x, account) BY DEF CallOK
<1>2. call' = [call EXCEPT ![c] = x] /\ UNCHANGED <<now, account, jar, held>>
    BY DEF Answer
<1>3. /\ call' = [d \in Calls |-> call'[d]]
      /\ \A d \in Calls : CallOK(call'[d], account')
    <2> HIDE DEF x
    <2> QED BY <1>1, <1>2, OneCall
<1> QED BY <1>2, <1>3 DEF AccessInv, JarOK

\* What is known of a request that waits for its answer.
LEMMA Asked ==
    ASSUME AccessInv, NEW c \in Calls, call[c].kind \in Pending
    PROVE  StandingOK(call[c], account) /\ RequestOK(call[c])
<1>1. CallOK(call[c], account) BY DEF AccessInv
<1>2. call[c] # Idle BY DEF Idle, Pending
<1>3. ~AnswerOK(call[c]) BY DEF AnswerOK, Pending
<1> QED BY <1>1, <1>2, <1>3 DEF CallOK

\* Tokens are issued to active users, who stood as active when they asked.
LEMMA GrantKeeps ==
    ASSUME AccessInv, NEW c \in Calls, NEW u \in Users,
           call[c].kind \in {"login", "refresh"}, Active(u), Grant(c, u)
    PROVE  AccessInv'
<1>1. call[c].kind \in Pending BY DEF Pending
<1>2. AtLeast(call[c].standing[u], account[u]) BY <1>1, Asked DEF StandingOK
<1>3. call[c].standing[u] # "inactive" BY <1>2, StandingSuffices DEF Active
<1>4. IssueOK(Issue(u)) /\ Issue(u).access.user = u
    BY DEF IssueOK, Issue, AccessToken, RefreshToken
<1>5. AnswerOK([kind |-> "answered", of |-> call[c].kind, sender |-> call[c].sender,
                standing |-> call[c].standing, result |-> "granted", set |-> Issue(u),
                more |-> NoToken])
    BY <1>1, <1>3, <1>4 DEF AnswerOK, Honest
<1> QED BY <1>1, <1>5, AnswerKeeps DEF Grant

LEMMA ServeLoginKeeps ==
    ASSUME AccessInv, NEW c \in Calls, ServeLogin(c)
    PROVE  AccessInv'
<1>1. call[c].request \in Users BY Asked DEF ServeLogin, RequestOK, Pending
<1> QED BY <1>1, GrantKeeps, RefuseKeeps DEF ServeLogin

LEMMA ServeRefreshKeeps ==
    ASSUME AccessInv, NEW c \in Calls, ServeRefresh(c)
    PROVE  AccessInv'
<1>1. TokenOK(call[c].request, "refresh") BY Asked DEF ServeRefresh, RequestOK, Pending
<1>2. Valid(call[c].request, "refresh") => call[c].request.user \in Users
    BY <1>1 DEF Valid, TokenOK, NoToken
<1> QED BY <1>2, GrantKeeps, RefuseKeeps DEF ServeRefresh

LEMMA ServeLogoutKeeps ==
    ASSUME AccessInv, NEW c \in Calls, ServeLogout(c)
    PROVE  AccessInv'
<1>1. call[c].kind = "logout" /\ Answer(c, "granted", EmptyJar, NoToken) BY DEF ServeLogout
<1>2. AnswerOK([kind |-> "answered", of |-> call[c].kind, sender |-> call[c].sender,
                standing |-> call[c].standing, result |-> "granted", set |-> EmptyJar,
                more |-> NoToken])
    BY <1>1 DEF AnswerOK, Honest, Pending
<1> QED BY <1>1, <1>2, AnswerKeeps DEF Pending

\* A page that echoes its CSRF cookie is not refused as forged.
LEMMA EchoPasses ==
    ASSUME NEW r, r.header = NoToken \/ r.header = r.csrf, ~CsrfPasses(r)
    PROVE  r.header.type # "csrf"
BY DEF CsrfPasses, NoToken

\* A request that passed the checks is charged to the user it acts as.
LEMMA ChargedAlike ==
    ASSUME NEW r, TokenOK(r.bearer, "access"), TokenOK(r.access, "access"), CsrfOK(r.csrf),
           r.header = NoToken \/ r.header = r.csrf, CsrfPasses(r), Valid(Raw(r), "access")
    PROVE  /\ Raw(r).user \in Users
           /\ IF r.bearer.type = "access" THEN RateLimitIdentity(r) = <<"user", Raw(r).user>>
              ELSE /\ RateLimitIdentity(r) = <<"ip">>
                   /\ r.header.type = "csrf" \/ ~r.unsafe
<1>1. NoToken.type = "none" BY DEF NoToken
<1>2. CASE r.bearer = NoToken
    <2>1. Raw(r) = r.access /\ r.access.type = "access" BY <1>1, <1>2 DEF Raw, Valid
    <2>2. r.access.user \in Users BY <1>1, <2>1 DEF TokenOK
    <2>3. RateLimitIdentity(r) = <<"ip">> BY <1>1, <1>2 DEF RateLimitIdentity, Valid
    <2>4. r.header.type = "csrf" \/ ~r.unsafe
        BY <1>1, <1>2, <2>1 DEF CsrfPasses, CsrfOK
    <2> QED BY <1>1, <1>2, <2>1, <2>2, <2>3, <2>4
<1>3. CASE r.bearer.type = "access" /\ r.bearer.user \in Users
    <2>1. Raw(r) = r.bearer BY <1>3 DEF Raw
    <2>2. RateLimitIdentity(r) = <<"user", r.bearer.user>> BY <2>1 DEF RateLimitIdentity
    <2> QED BY <1>3, <2>1, <2>2
<1> QED BY <1>2, <1>3 DEF TokenOK

LEMMA ServeUseKeeps ==
    ASSUME AccessInv, NEW c \in Calls, ServeUse(c)
    PROVE  AccessInv'
<1> DEFINE r == call[c].request
           answer(result, more) ==
               [kind |-> "answered", of |-> call[c].kind, sender |-> call[c].sender,
                standing |-> call[c].standing, result |-> result, set |-> NoToken,
                more |-> more]
<1>1. call[c].kind = "use" /\ call[c].kind \in Pending BY DEF ServeUse, Pending
<1>2. StandingOK(call[c], account) BY <1>1, Asked
<1>3. /\ TokenOK(r.bearer, "access") /\ TokenOK(r.access, "access") /\ CsrfOK(r.csrf)
      /\ r.header = NoToken \/ r.header = r.csrf
    BY <1>1, Asked DEF RequestOK
<1>4. CASE ~CsrfPasses(r) /\ Answer(c, "forged", NoToken, [echo |-> r.header.type = "csrf"])
    <2> DEFINE more == [echo |-> r.header.type = "csrf"]
    <2>1. ~more.echo BY <1>3, <1>4, EchoPasses
    <2>2. AnswerOK(answer("forged", more))
        <3> HIDE DEF more
        <3> QED BY <1>1, <2>1 DEF AnswerOK, Honest
    <2> QED BY <1>1, <1>4, <2>2, AnswerKeeps
<1>5. ASSUME CsrfPasses(r), Valid(Raw(r), "access"), Active(Raw(r).user),
             Permitted(r, Raw(r).user),
             Answer(c, "granted", NoToken,
                 [acting |-> Raw(r).user, charged |-> RateLimitIdentity(r), need |-> r.need,
                  bearer |-> r.bearer.type = "access",
                  proof |-> r.header.type = "csrf" \/ ~r.unsafe])
      PROVE  AccessInv'
    <2> DEFINE u == Raw(r).user
               more == [acting |-> u, charged |-> RateLimitIdentity(r), need |-> r.need,
                        bearer |-> r.bearer.type = "access",
                        proof |-> r.header.type = "csrf" \/ ~r.unsafe]
    <2>1. u \in Users BY <1>3, <1>5, ChargedAlike
    <2>2. IF r.bearer.type = "access" THEN RateLimitIdentity(r) = <<"user", u>>
          ELSE RateLimitIdentity(r) = <<"ip">> /\ (r.header.type = "csrf" \/ ~r.unsafe)
        BY <1>3, <1>5, ChargedAlike
    <2>3. AtLeast(call[c].standing[u], account[u]) BY <1>2, <2>1 DEF StandingOK
    <2>4. /\ call[c].standing[u] # "inactive"
          /\ Suffices(r.need, u, call[c].standing[u])
        BY <1>5, <2>3, StandingSuffices DEF Active, Permitted
    <2>5. /\ more.acting = u /\ more.charged = RateLimitIdentity(r) /\ more.need = r.need
          /\ more.bearer = (r.bearer.type = "access")
          /\ more.proof = (r.header.type = "csrf" \/ ~r.unsafe)
        OBVIOUS
    <2>6. Answer(c, "granted", NoToken, more) BY <1>5
    <2>7. Honest(answer("granted", more))
        <3> HIDE DEF more, u, r
        <3> QED BY <1>1, <2>2, <2>4, <2>5 DEF Honest
    <2>8. AnswerOK(answer("granted", more))
        <3> HIDE DEF more, u, r
        <3> QED BY <1>1, <2>7 DEF AnswerOK
    <2> HIDE DEF more, u, r
    <2> QED BY <1>1, <2>6, <2>8, AnswerKeeps
<1>6. CASE Refuse(c) BY <1>6, RefuseKeeps
<1> QED BY <1>4, <1>5, <1>6 DEF ServeUse

-----------------------------------------------------------------------------
(* Responses arrive, time passes, rights shrink *)

LEMMA Answered ==
    ASSUME AccessInv, NEW c \in Calls, call[c].kind = "answered"
    PROVE  AnswerOK(call[c])
<1>1. CallOK(call[c], account) BY DEF AccessInv
<1> QED BY <1>1 DEF CallOK, Idle, Pending

LEMMA ForgetKeeps ==
    ASSUME AccessInv, NEW c \in Calls, Forget(c), UNCHANGED account
    PROVE  /\ call' = [d \in Calls |-> call'[d]]
           /\ \A d \in Calls : CallOK(call'[d], account')
<1>1. CallOK(Idle, account) BY DEF CallOK
<1> QED BY <1>1, OneCall DEF Forget

LEMMA ReceiveKeeps ==
    ASSUME AccessInv, NEW c \in Calls, Receive(c)
    PROVE  AccessInv'
<1>1. AnswerOK(call[c]) BY Answered DEF Receive
<1>2. /\ call' = [d \in Calls |-> call'[d]]
      /\ \A d \in Calls : CallOK(call'[d], account')
    BY ForgetKeeps DEF Receive
<1>3. call[c].of # "logout" => IssueOK(call[c].set)
    BY <1>1 DEF AnswerOK, Pending, Receive, Free
<1>4. now \in Int /\ UNCHANGED <<now, account>> BY DEF Receive, AccessInv
<1>5. /\ account' = [u \in Users |-> account'[u]] /\ now' \in Int BY <1>4 DEF AccessInv
<1>6. CASE call[c].of = "logout" /\ jar' = call[c].set /\ UNCHANGED held
    <2>1. JarOK' BY <1>1, <1>6 DEF AnswerOK, JarOK, EmptyJar
    <2> QED BY <1>2, <1>5, <1>6, <2>1 DEF AccessInv
<1>7. CASE call[c].of # "logout" /\ jar' = SetAuthCookies(call[c].set) /\ UNCHANGED held
    <2>1. /\ now + AccessTTL \in Int /\ now + RefreshTTL \in Int
          /\ now + AccessTTL <= now + RefreshTTL
        BY <1>4, AccessAssumption DEF AccessAssumption
    <2>2. JarOK' BY <1>3, <1>7, <2>1 DEF SetAuthCookies, IssueOK, JarOK
    <2> QED BY <1>2, <1>5, <1>7, <2>2 DEF AccessInv
<1>8. CASE /\ call[c].of # "logout" /\ UNCHANGED jar
           /\ held' = [access |-> call[c].set.access, refresh |-> call[c].set.refresh]
    <2>1. TokenOK(held.access, "access")' /\ TokenOK(held.refresh, "refresh")'
        BY <1>3, <1>8 DEF IssueOK, TokenOK
    <2>2. JarOK' BY <1>8 DEF AccessInv, JarOK
    <2> QED BY <1>2, <1>5, <2>1, <2>2 DEF AccessInv
<1> QED BY <1>6, <1>7, <1>8 DEF Receive

LEMMA LoseKeeps ==
    ASSUME AccessInv, NEW c \in Calls, Lose(c)
    PROVE  AccessInv'
<1>1. /\ call' = [d \in Calls |-> call'[d]]
      /\ \A d \in Calls : CallOK(call'[d], account')
    BY ForgetKeeps DEF Lose
<1> QED BY <1>1 DEF Lose, AccessInv, JarOK

\* Whoever stood above what is stored still does.
LEMMA LowerKeeps ==
    ASSUME AccessInv, NEW u \in Lowered, Lower(u)
    PROVE  AccessInv'
<1>1. PICK less \in {"operator", "inactive"} :
         /\ account' = [account EXCEPT ![u] = less]
         /\ less = "operator" => account[u] = "admin"
    BY DEF Lower
<1>2. UNCHANGED <<now, jar, held, issues, call>> BY DEF Lower
<1>3. account' = [v \in Users |-> account'[v]]
    BY <1>1 DEF AccessInv
<1>4. ASSUME NEW c \in Calls PROVE CallOK(call[c], account')
    <2>1. CallOK(call[c], account) BY DEF AccessInv
    <2>2. StandingOK(call[c], account) => StandingOK(call[c], account')
        <3>1. \A v \in Users : account'[v] = IF v = u THEN less ELSE account[v]
            BY <1>1 DEF AccessInv
        <3> QED BY <1>1, <3>1 DEF StandingOK, AtLeast
    <2> QED BY <2>1, <2>2 DEF CallOK
<1> QED BY <1>2, <1>3, <1>4 DEF AccessInv, JarOK

LEMMA TickKeeps ==
    ASSUME AccessInv, Tick
    PROVE  AccessInv'
BY DEF AccessInv, Tick, JarOK

-----------------------------------------------------------------------------
(* Theorems *)

LEMMA StepKeeps == AccessInv /\ [Next]_vars => AccessInv'
<1> SUFFICES ASSUME AccessInv, [Next]_vars PROVE AccessInv' OBVIOUS
<1>1. ASSUME NEW c \in Calls, SendLogin(c) \/ SendRefresh(c) \/ SendLogout(c) \/ SendUse(c)
      PROVE  AccessInv'
    BY <1>1, SendLoginKeeps, SendRefreshKeeps, SendLogoutKeeps, SendUseKeeps
<1>2. ASSUME NEW c \in Calls,
             ServeLogin(c) \/ ServeRefresh(c) \/ ServeLogout(c) \/ ServeUse(c)
      PROVE  AccessInv'
    BY <1>2, ServeLoginKeeps, ServeRefreshKeeps, ServeLogoutKeeps, ServeUseKeeps
<1>3. ASSUME NEW c \in Calls, Receive(c) \/ Lose(c)
      PROVE  AccessInv'
    BY <1>3, ReceiveKeeps, LoseKeeps
<1>4. ASSUME NEW u \in Lowered, Lower(u)
      PROVE  AccessInv'
    BY <1>4, LowerKeeps
<1>5. CASE Tick BY <1>5, TickKeeps
<1>6. CASE UNCHANGED vars BY <1>6 DEF vars, AccessInv, JarOK
<1> QED BY <1>1, <1>2, <1>3, <1>4, <1>5, <1>6 DEF Next

\* The invariant of sessions: tokens, cookies and requests under way carry users
\* and rights that stood when they were made, and answers are honest about them.
THEOREM AccessInvariant == Spec => []AccessInv
<1>1. Init => AccessInv BY InitHolds, AccessAssumption
<1> QED BY <1>1, StepKeeps, PTL DEF Spec

\* A request sent after rights were taken away gets neither the old rights nor
\* new tokens (api/deps.py, current_user and require_role go by the database).
THEOREM RevocationIsFinal == Spec => []RevocationHolds
<1>1. AccessInv => RevocationHolds
    <2> SUFFICES ASSUME AccessInv, NEW c \in Granted
                 PROVE  /\ call[c].of = "use" =>
                               /\ call[c].standing[call[c].more.acting] # "inactive"
                               /\ Suffices(call[c].more.need, call[c].more.acting,
                                           call[c].standing[call[c].more.acting])
                        /\ call[c].of \in {"login", "refresh"} =>
                               call[c].standing[call[c].set.access.user] # "inactive"
        BY DEF RevocationHolds
    <2>1. c \in Calls /\ call[c].kind = "answered" /\ call[c].result = "granted" BY DEF Granted
    <2> QED BY <2>1, Answered DEF AnswerOK, Honest
<1> QED BY <1>1, AccessInvariant, PTL

\* rate_limit and current_user agree on who is calling, although each finds out
\* for itself.
THEOREM ChargesAreRight == Spec => []ChargedAsActing
<1>1. AccessInv => ChargedAsActing
    <2> SUFFICES ASSUME AccessInv, NEW c \in Granted, call[c].of = "use"
                 PROVE  IF call[c].more.bearer
                        THEN call[c].more.charged = <<"user", call[c].more.acting>>
                        ELSE call[c].more.charged = <<"ip">> /\ call[c].more.proof
        BY DEF ChargedAsActing
    <2>1. c \in Calls /\ call[c].kind = "answered" /\ call[c].result = "granted" BY DEF Granted
    <2> QED BY <2>1, Answered DEF AnswerOK, Honest
<1> QED BY <1>1, AccessInvariant, PTL

\* Responses in any order never mix the cookies of two sessions
\* (api/cookies.py, set_auth_cookies and clear_auth_cookies).
THEOREM CookiesBelongTogether == Spec => []JarIsWhole
<1>1. AccessInv => JarIsWhole
    <2> SUFFICES ASSUME AccessInv PROVE JarIsWhole OBVIOUS
    <2>1. ASSUME Sent("access").type = "access"
          PROVE  /\ Sent("refresh").type = "refresh"
                 /\ Sent("refresh").user = Sent("access").user
                 /\ Sent("csrf").type = "csrf"
        <3>1. jar # EmptyJar BY <2>1 DEF EmptyJar, NoCookie, NoToken, Sent
        <3>2. jar.access.until > now BY <2>1 DEF Sent, NoToken
        <3>3. /\ now \in Int
              /\ jar.access.until \in Int /\ jar.refresh.until \in Int /\ jar.csrf.until \in Int
              /\ jar.access.until <= jar.refresh.until
              /\ jar.access.until <= jar.csrf.until
            BY <3>1 DEF AccessInv, JarOK
        <3>4. jar.refresh.until > now /\ jar.csrf.until > now
            <4> HIDE DEF AccessInv
            <4> QED BY <3>2, <3>3
        <3> QED BY <3>1, <3>2, <3>4 DEF AccessInv, JarOK, Sent
    <2>2. ASSUME NEW c \in Calls, call[c].kind = "answered", call[c].result = "forged"
          PROVE  ~call[c].more.echo
        BY <2>2, Answered DEF AnswerOK, Honest
    <2> QED BY <2>1, <2>2 DEF JarIsWhole
<1> QED BY <1>1, AccessInvariant, PTL

-----------------------------------------------------------------------------
(* Types *)

\* The rest of TypeOK, which nothing above depends on.
Shapes ==
    /\ now \in 0..MaxTime /\ issues \in 0..MaxIssues
    /\ account \in [Users -> DOMAIN ROLE_RANK \cup {"inactive"}]
    /\ DOMAIN jar = {"access", "refresh", "csrf"} /\ DOMAIN held = {"access", "refresh"}

\* Only a response that arrives touches what a sender keeps.
LEMMA ReceiveShapes ==
    ASSUME AccessInv, Shapes, NEW c \in Calls, Receive(c)
    PROVE  Shapes'
<1>1. AnswerOK(call[c])
    BY Answered DEF Receive
<1>2. UNCHANGED <<now, account, issues>>
    BY DEF Receive
<1>3. DOMAIN jar' = {"access", "refresh", "csrf"}
    BY <1>1 DEF Receive, Shapes, AnswerOK, EmptyJar, SetAuthCookies
<1>4. DOMAIN held' = {"access", "refresh"}
    BY DEF Receive, Shapes
<1> QED BY <1>2, <1>3, <1>4 DEF Shapes

\* Every step keeps the shapes.
LEMMA ShapesKept ==
    ASSUME AccessAssumption, AccessInv, Shapes, [Next]_vars
    PROVE  Shapes'
<1>1. ASSUME NEW c \in Calls, SendLogin(c) \/ SendRefresh(c) \/ SendLogout(c) \/ SendUse(c)
      PROVE  Shapes'
    BY <1>1 DEF SendLogin, SendRefresh, SendLogout, SendUse, Send, Shapes
<1>2. ASSUME NEW c \in Calls, Lose(c) PROVE Shapes'
    BY <1>2 DEF Lose, Shapes
<1>3. ASSUME NEW c \in Calls, ServeLogin(c) \/ ServeRefresh(c) PROVE Shapes'
  <2>1. UNCHANGED <<now, account, jar, held>>
    BY <1>3 DEF ServeLogin, ServeRefresh, Grant, Answer, Refuse
  <2>2. UNCHANGED issues \/ (issues < MaxIssues /\ issues' = issues + 1)
    BY <1>3 DEF ServeLogin, ServeRefresh, Grant, Refuse
  <2>3. issues' \in 0..MaxIssues
    BY <2>2 DEF Shapes, AccessAssumption
  <2> QED BY <2>1, <2>3 DEF Shapes
<1>4. ASSUME NEW c \in Calls, ServeLogout(c) \/ ServeUse(c) PROVE Shapes'
    BY <1>4 DEF ServeLogout, ServeUse, Answer, Refuse, Shapes
<1>5. ASSUME NEW u \in Lowered, Lower(u) PROVE Shapes'
    BY <1>5 DEF Lower, Shapes, ROLE_RANK
<1>6. CASE Tick
    BY <1>6 DEF Tick, Shapes, AccessAssumption
<1>7. CASE UNCHANGED vars
    BY <1>7 DEF vars, Shapes
<1> QED BY <1>1, <1>2, <1>3, <1>4, <1>5, <1>6, <1>7, ReceiveShapes DEF Next

\* Every variable keeps its type; cookies and kept tokens stand under their names.
THEOREM AccessTypes == Spec => []TypeOK
<1>1. Init => Shapes
    BY AccessAssumption DEF Init, Shapes, AccessAssumption, ROLE_RANK, EmptyJar
<1>2. AccessInv /\ Shapes /\ [Next]_vars => Shapes'
    BY AccessAssumption, ShapesKept
<1>3. AccessInv /\ Shapes => TypeOK
  <2> SUFFICES ASSUME AccessInv, Shapes PROVE TypeOK
    OBVIOUS
  <2>1. \A name \in DOMAIN jar : jar[name].value.type \in {"none", name}
    <3>1. /\ jar["access"].value.type \in {"none", "access"}
          /\ jar["refresh"].value.type \in {"none", "refresh"}
          /\ jar["csrf"].value.type \in {"none", "csrf"}
      <4>1. CASE jar = EmptyJar
        BY <4>1 DEF EmptyJar, NoCookie, NoToken
      <4>2. CASE jar # EmptyJar
        BY <4>2 DEF AccessInv, JarOK
      <4> QED BY <4>1, <4>2
    <3> QED BY <3>1 DEF Shapes
  <2>2. \A name \in DOMAIN held : held[name].type \in {"none", name}
    <3>1. /\ held["access"].type \in {"none", "access"}
          /\ held["refresh"].type \in {"none", "refresh"}
      <4>1. TokenOK(held.access, "access") /\ TokenOK(held.refresh, "refresh")
        BY DEF AccessInv
      <4>2. \A token, type : TokenOK(token, type) => token.type \in {"none", type}
        BY DEF TokenOK, NoToken
      <4> QED BY <4>1, <4>2
    <3> QED BY <3>1 DEF Shapes
  <2>3. \A c \in Calls :
           call[c].kind \in {"idle", "login", "refresh", "logout", "use", "answered"}
    <3> TAKE c \in Calls
    <3>1. call[c] = Idle \/ call[c].kind \in Pending \/ call[c].kind = "answered"
      BY DEF AccessInv, CallOK, AnswerOK
    <3> QED BY <3>1 DEF Idle, Pending
  <2> QED BY <2>1, <2>2, <2>3 DEF Shapes, TypeOK
<1> QED BY <1>1, <1>2, <1>3, AccessInvariant, PTL DEF Spec

=============================================================================
