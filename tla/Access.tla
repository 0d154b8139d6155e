------------------------------- MODULE Access -------------------------------
(***************************************************************************)
(* Who a request acts as, over the life of a session: login, refresh and   *)
(* logout, the cookies they set, the tokens they hand out, and the checks  *)
(* every other request passes (CSRF, rate-limit identity, access token,    *)
(* stored user, role).                                                     *)
(*                                                                         *)
(* A browser keeps a cookie jar, an API client keeps the two tokens of a   *)
(* response body.  Requests are under way together and their responses     *)
(* arrive in any order or not at all, while time passes and an operator    *)
(* lowers roles or deactivates accounts in the database.  Signatures are   *)
(* not modelled: every token is one that the server made.                  *)
(***************************************************************************)
EXTENDS Integers

CONSTANTS
    Users,
    Seeds,       \* the users of the default tenant
    Calls,       \* requests under way
    AccessTTL,   \* access_token_ttl_min, in ticks
    RefreshTTL,  \* refresh_token_ttl_days, in ticks
    Lowered,     \* bounds the users whose rights an operator takes away
    MaxTime,     \* bounds the clock
    MaxIssues,   \* bounds the logins and refreshes that succeed
    Endpoints    \* [need, unsafe]: what they ask for, and whether by an unsafe method

ASSUME AccessAssumption ==
    /\ Seeds \subseteq Users /\ Lowered \subseteq Users
    /\ AccessTTL \in Nat \ {0} /\ RefreshTTL \in Nat \ {0}
    /\ AccessTTL <= RefreshTTL
    /\ MaxTime \in Nat /\ MaxIssues \in Nat
    /\ Endpoints \subseteq [need : {"any", "operator", "platform"}, unsafe : BOOLEAN]

VARIABLES
    now,      \* the clock, as datetime.now and the browser read it
    account,  \* account[u]: stored role of u, or "inactive"
    jar,      \* the browser's cookies
    held,     \* the tokens an API client keeps
    issues,   \* number of token pairs issued; names the CSRF tokens
    call      \* call[c]: request c, or its latest result

vars == <<now, account, jar, held, issues, call>>

ROLE_RANK == [viewer |-> 0, user |-> 1, operator |-> 2, admin |-> 3]

\* A role the code does not know ranks below all others.
RoleRank(role) == IF role \in DOMAIN ROLE_RANK THEN ROLE_RANK[role] ELSE -1

HasRequiredRole(role, required) == RoleRank(role) >= RoleRank(required)

NoToken == [type |-> "none"]

NoCookie == [value |-> NoToken, until |-> 0]

EmptyJar == [access |-> NoCookie, refresh |-> NoCookie, csrf |-> NoCookie]

\* The cookies that the browser still sends.
Sent(name) == IF jar[name].until > now THEN jar[name].value ELSE NoToken

Idle == [kind |-> "idle"]

Init ==
    /\ now = 0
    /\ account = [u \in Users |-> "admin"]
    /\ jar = EmptyJar
    /\ held = [access |-> NoToken, refresh |-> NoToken]
    /\ issues = 0
    /\ call = [c \in Calls |-> Idle]

Active(u) == account[u] # "inactive"

-----------------------------------------------------------------------------
(* Tokens *)

AccessToken(u) ==
    [type |-> "access", user |-> u, role |-> account[u], exp |-> now + AccessTTL]

RefreshToken(u) == [type |-> "refresh", user |-> u, exp |-> now + RefreshTTL]

\* decode_token with an expected type.
Valid(token, type) == token.type = type /\ token.exp > now

\* _issue_tokens: both tokens and a new CSRF token, in the body and as cookies.
Issue(u) ==
    [access |-> AccessToken(u), refresh |-> RefreshToken(u),
     csrf |-> [type |-> "csrf", id |-> issues]]

\* Mutant of SetAuthCookies: a browser that has a refresh token keeps it.
SetAuthCookiesOnce(issue) ==
    [access |-> [value |-> issue.access, until |-> now + AccessTTL],
     refresh |-> IF Sent("refresh").type = "refresh" THEN jar.refresh
                 ELSE [value |-> issue.refresh, until |-> now + RefreshTTL],
     csrf |-> [value |-> issue.csrf, until |-> now + RefreshTTL]]

\* The browser counts max_age from the moment the response arrives.
SetAuthCookies(issue) ==
    [access |-> [value |-> issue.access, until |-> now + AccessTTL],
     refresh |-> [value |-> issue.refresh, until |-> now + RefreshTTL],
     csrf |-> [value |-> issue.csrf, until |-> now + RefreshTTL]]

-----------------------------------------------------------------------------
(* Requests leave: from the web pages, which have cookies only, or from a     *)
(* holder of a bearer token.  On the API's own /docs page the token is typed  *)
(* in and the cookies of the site, if there are any, go along.                *)

Senders == {"page", "client"}

Bearer(sender) == IF sender = "page" THEN NoToken ELSE held.access

\* An answer that sets nothing changes nothing, whether it arrives or not.
Free(c) ==
    \/ call[c].kind = "idle"
    \/ call[c].kind = "answered" /\ call[c].set = NoToken

\* `standing` remembers what the database held when the request was sent.
Send(c, kind, sender, request) ==
    /\ Free(c)
    /\ call' = [call EXCEPT ![c] =
           [kind |-> kind, sender |-> sender, request |-> request, standing |-> account]]
    /\ UNCHANGED <<now, account, jar, held, issues>>

SendLogin(c) ==
    \E u \in Users : \E sender \in Senders : Send(c, "login", sender, u)

SendRefresh(c) ==
    \/ Send(c, "refresh", "page", Sent("refresh"))
    \/ Send(c, "refresh", "client", held.refresh)

SendLogout(c) == Send(c, "logout", "page", NoToken)

\* Pages read the CSRF cookie and echo it in a header; other programs may not.
\* A page reads the cookie just before the browser attaches its cookies to the
\* request; here both are one step.
SendUse(c) ==
    \E sender \in Senders : \E e \in Endpoints : \E echo \in {e.unsafe, FALSE} :
        Send(c, "use", sender,
             [need |-> e.need, unsafe |-> e.unsafe, bearer |-> Bearer(sender),
              access |-> Sent("access"), csrf |-> Sent("csrf"),
              header |-> IF echo THEN Sent("csrf") ELSE NoToken])

-----------------------------------------------------------------------------
(* The server answers *)

Answer(c, result, set, more) ==
    /\ call' = [call EXCEPT ![c] =
           [kind |-> "answered", of |-> call[c].kind, sender |-> call[c].sender,
            standing |-> call[c].standing, result |-> result, set |-> set, more |-> more]]
    /\ UNCHANGED <<now, account, jar, held>>

\* Nothing deletes users, so the subject of a token is always found.
Grant(c, u) ==
    /\ issues < MaxIssues
    /\ issues' = issues + 1
    /\ Answer(c, "granted", Issue(u), NoToken)

\* A refusal changes nothing, in a browser or in a client.
Refuse(c) ==
    /\ call' = [call EXCEPT ![c] = Idle]
    /\ UNCHANGED <<now, account, jar, held, issues>>

\* One answer for an unknown email, an inactive user and a wrong password.
ServeLogin(c) ==
    /\ call[c].kind = "login"
    /\ \/ Active(call[c].request) /\ Grant(c, call[c].request)
       \/ Refuse(c)

ServeRefresh(c) ==
    /\ call[c].kind = "refresh"
    /\ LET token == call[c].request IN
       IF Valid(token, "refresh") /\ Active(token.user) THEN Grant(c, token.user) ELSE Refuse(c)

\* logout forgets nothing: it asks the browser to.
ServeLogout(c) ==
    /\ call[c].kind = "logout"
    /\ Answer(c, "granted", EmptyJar, NoToken)
    /\ UNCHANGED issues

\* csrf_protect.
CsrfPasses(r) ==
    \/ ~r.unsafe
    \/ r.bearer.type # "none"
    \/ r.access.type = "none"
    \/ r.header.type # "none" /\ r.header = r.csrf

\* _rate_limit_identity: the subject of a valid bearer token, else the address.
RateLimitIdentity(r) ==
    IF Valid(r.bearer, "access") THEN <<"user", r.bearer.user>> ELSE <<"ip">>

\* Mutant of Raw: the cookie takes precedence.
RawCookieFirst(r) == IF r.access.type # "none" THEN r.access ELSE r.bearer

\* current_user takes the bearer token, valid or not, before the cookie.
Raw(r) == IF r.bearer.type # "none" THEN r.bearer ELSE r.access

\* Whether a user with this role may use an endpoint.
Suffices(need, u, role) ==
    \/ need = "any"
    \/ need = "operator" /\ HasRequiredRole(role, "operator")
    \/ need = "platform" /\ HasRequiredRole(role, "admin") /\ u \in Seeds

\* Mutant of Permitted: the role is the one in the token.
PermittedByClaim(r, u) == Suffices(r.need, u, Raw(r).role)

\* current_user, require_role and platform_admin go by the stored role.
Permitted(r, u) == Suffices(r.need, u, account[u])

\* The dependencies of an endpoint in the order FastAPI solves them: CSRF, the
\* user, the rate limit, the role.
ServeUse(c) ==
    /\ call[c].kind = "use"
    /\ LET r == call[c].request
           token == Raw(r)
           known == Valid(token, "access") /\ Active(token.user)
       IN \/ /\ ~CsrfPasses(r)
             /\ Answer(c, "forged", NoToken, [echo |-> r.header.type = "csrf"])
             /\ UNCHANGED issues
          \/ /\ CsrfPasses(r) /\ known /\ Permitted(r, token.user)
             /\ Answer(c, "granted", NoToken,
                   [acting |-> token.user, charged |-> RateLimitIdentity(r), need |-> r.need,
                    bearer |-> r.bearer.type = "access",
                    proof |-> r.header.type = "csrf" \/ ~r.unsafe])
             /\ UNCHANGED issues
          \/ /\ CsrfPasses(r)
             /\ known => ~Permitted(r, token.user)
             /\ Refuse(c)

-----------------------------------------------------------------------------
(* Responses arrive *)

Forget(c) == call' = [call EXCEPT ![c] = Idle]

\* A response with tokens replaces all three cookies, one of logout drops them.
Receive(c) ==
    /\ ~Free(c) /\ call[c].kind = "answered"
    /\ LET set == call[c].set IN
       \/ /\ call[c].of = "logout"
          /\ jar' = set
          /\ UNCHANGED held
       \/ /\ call[c].of # "logout" /\ call[c].sender = "page"
          /\ jar' = SetAuthCookies(set)
          /\ UNCHANGED held
       \/ /\ call[c].of # "logout" /\ call[c].sender = "client"
          /\ held' = [access |-> set.access, refresh |-> set.refresh]
          /\ UNCHANGED jar
    /\ Forget(c)
    /\ UNCHANGED <<now, account, issues>>

\* The connection breaks.
Lose(c) ==
    /\ ~Free(c) /\ call[c].kind = "answered"
    /\ Forget(c)
    /\ UNCHANGED <<now, account, jar, held, issues>>

\* The operator takes rights away, as SQL on the users table.
Lower(u) ==
    /\ \/ account[u] = "admin" /\ account' = [account EXCEPT ![u] = "operator"]
       \/ Active(u) /\ account' = [account EXCEPT ![u] = "inactive"]
    /\ UNCHANGED <<now, jar, held, issues, call>>

Tick ==
    /\ now < MaxTime
    /\ now' = now + 1
    /\ UNCHANGED <<account, jar, held, issues, call>>

Next ==
    \/ \E c \in Calls :
          \/ SendLogin(c) \/ SendRefresh(c) \/ SendLogout(c) \/ SendUse(c)
          \/ ServeLogin(c) \/ ServeRefresh(c) \/ ServeLogout(c) \/ ServeUse(c)
          \/ Receive(c) \/ Lose(c)
    \/ \E u \in Lowered : Lower(u)
    \/ Tick

Spec == Init /\ [][Next]_vars

-----------------------------------------------------------------------------
(* Properties *)

TypeOK ==
    /\ now \in 0..MaxTime
    /\ account \in [Users -> DOMAIN ROLE_RANK \cup {"inactive"}]
    /\ issues \in 0..MaxIssues
    /\ \A name \in DOMAIN jar : jar[name].value.type \in {"none", name}
    /\ \A name \in DOMAIN held : held[name].type \in {"none", name}
    /\ \A c \in Calls : call[c].kind \in
           {"idle", "login", "refresh", "logout", "use", "answered"}

Granted == {c \in Calls : call[c].kind = "answered" /\ call[c].result = "granted"}

\* Tokens are stateless and outlive what they were issued for, in cookies, in
\* clients and in responses under way.  A request sent after an operator lowered
\* a role or deactivated an account gets neither the old rights nor new tokens.
RevocationHolds ==
    \A c \in Granted :
        /\ call[c].of = "use" =>
               LET u == call[c].more.acting IN
               /\ call[c].standing[u] # "inactive"
               /\ Suffices(call[c].more.need, u, call[c].standing[u])
        /\ call[c].of \in {"login", "refresh"} =>
               call[c].standing[call[c].set.access.user] # "inactive"

\* rate_limit and current_user each find out for themselves who is calling: a
\* bearer call spends the budget of the user it acts as, however its tokens
\* rotate and whatever cookies go along; a cookie call that changes something
\* has echoed the CSRF token.
ChargedAsActing ==
    \A c \in Granted : call[c].of = "use" =>
        LET use == call[c].more IN
        IF use.bearer THEN use.charged = <<"user", use.acting>>
        ELSE use.charged = <<"ip">> /\ use.proof

\* However the responses of two users, of refreshes and of logouts overtake each
\* other, the cookies that a browser sends belong together: with an access token
\* there go the same user's refresh token and a CSRF token, so that no page that
\* echoes it is refused as forged.
JarIsWhole ==
    /\ Sent("access").type = "access" =>
           /\ Sent("refresh").type = "refresh" /\ Sent("refresh").user = Sent("access").user
           /\ Sent("csrf").type = "csrf"
    /\ \A c \in Calls :
           call[c].kind = "answered" /\ call[c].result = "forged" => ~call[c].more.echo

=============================================================================
