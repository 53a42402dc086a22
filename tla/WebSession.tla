----------------------------- MODULE WebSession -----------------------------
(***************************************************************************)
(* The web kit's server side (docs/design/web-kit/lib): login and logout   *)
(* set and clear the two session cookies, and every API call is forwarded  *)
(* to the tenant runtime with a bearer that is resolved per request: the   *)
(* cookie of a person, or the token the process mints for its own service  *)
(* account and caches.  A refused bearer is renewed once, the cookie's     *)
(* with the refresh cookie, the minted one by a new mint.                  *)
(*                                                                         *)
(* One browser, several requests in work.  A request carries the cookies   *)
(* of the moment it was sent; what it sets arrives with its answer.        *)
(* A token is its number of issue; it is fresh, then within the skew, then *)
(* expired, as webClock goes on.                                           *)
(***************************************************************************)
EXTENDS Naturals, Sequences

CONSTANTS
    Persons,        \* people who log in with this browser
    WebCalls,       \* requests that may be in work at once
    WebRegimes      \* what may happen in a behaviour: which requests,
                    \* a refresh token is good once, the client has refresh
                    \* tokens; bounds: who logs in, the requests made,
                    \* failures, tokens issued, how often time passes

ASSUME WebAssumption ==
    WebRegimes \subseteq [calls : SUBSET WebCalls, revoke : BOOLEAN, refresh : BOOLEAN, people : SUBSET Persons,
                         visits : Nat, faults : Nat, tokens : Nat, time : Nat]

VARIABLES
    issued,       \* tokens of Keycloak: whose, of which of its sessions, when
    endedLogins,  \* Keycloak sessions that are over
    jar,          \* the browser's cookies hrobot_token and hrobot_refresh
    cachedToken,  \* keycloak-token.ts cached
    minting,      \* keycloak-token.ts inFlight
    webCall,      \* locals of the requests
    signedIn,     \* history: the login the person last made and has not left
    webClock,
    webRegime,
    webVisits,    \* requests still to be made
    webFaults     \* failures still to come

webVars == <<issued, endedLogins, jar, cachedToken, minting, webCall, signedIn, webClock, webRegime,
           webVisits, webFaults>>

ServiceAccount == "service account"
NoToken == 0
NoCookies == [access |-> NoToken, refresh |-> NoToken]

NoWebCall == [at |-> "idle", source |-> "none", who |-> ServiceAccount, token |-> NoToken, refresh |-> NoToken,
              rejected |-> NoToken, login |-> 0, sets |-> NoCookies]

WebInit ==
    /\ issued = <<>>
    /\ endedLogins = {}
    /\ jar = NoCookies
    /\ cachedToken = NoToken
    /\ minting = FALSE
    /\ webCall = [c \in WebCalls |-> NoWebCall]
    /\ signedIn = 0
    /\ webClock = 0
    /\ webRegime \in WebRegimes
    /\ webVisits = webRegime.visits
    /\ webFaults = webRegime.faults

Age(t) == webClock - issued[t].at
Fresh(t) == Age(t) < 1        \* before refreshAt, the expiry less REFRESH_SKEW_MS
Expired(t) == Age(t) > 1

Become(c, w) == webCall' = [webCall EXCEPT ![c] = w]
Sets(c, w, cookies) == Become(c, [w EXCEPT !.at = "answer", !.sets = cookies])
Closed(c) == Become(c, NoWebCall)
WebFault == webFaults > 0 /\ webFaults' = webFaults - 1

WebArrives(c) ==
    /\ c \in webRegime.calls /\ webCall[c] = NoWebCall
    /\ webVisits > 0 /\ webVisits' = webVisits - 1

-----------------------------------------------------------------------------
(* Keycloak *)

\* The tokens of a login are issued as a pair with one number.
IssueToken(who, login) ==
    /\ Len(issued) < webRegime.tokens
    /\ issued' = Append(issued, [who |-> who, login |-> login, at |-> webClock])

Issuing == Len(issued) + 1

\* With revocation only the newest refresh token of a session is good.
Refreshable(t) ==
    /\ issued[t].login \notin endedLogins
    /\ webRegime.revoke => \A u \in (t + 1)..Len(issued) : issued[u].login # issued[t].login

PassTime ==
    /\ webClock < webRegime.time
    /\ webClock' = webClock + 1
    /\ UNCHANGED <<issued, endedLogins, jar, cachedToken, minting, webCall, signedIn, webRegime, webVisits, webFaults>>

LoginEnds(t) ==
    /\ t \in DOMAIN issued /\ issued[t].who \in Persons
    /\ issued[t].login \notin endedLogins
    /\ endedLogins' = endedLogins \cup {issued[t].login}
    /\ UNCHANGED <<issued, jar, cachedToken, minting, webCall, signedIn, webClock, webRegime, webVisits, webFaults>>

-----------------------------------------------------------------------------
(* Login, logout and the browser *)

Login(c, p) ==
    /\ WebArrives(c)
    /\ Become(c, [NoWebCall EXCEPT !.at = "login", !.who = p])
    /\ UNCHANGED <<issued, endedLogins, jar, cachedToken, minting, signedIn, webClock, webRegime, webFaults>>

LoginAnswer(c) ==
    /\ webCall[c].at = "login"
    /\ \/ /\ IssueToken(webCall[c].who, Issuing)
          /\ Sets(c, [webCall[c] EXCEPT !.login = Issuing],
                  [access |-> Issuing, refresh |-> IF webRegime.refresh THEN Issuing ELSE NoToken])
          /\ UNCHANGED webFaults
       \/ WebFault /\ Closed(c) /\ UNCHANGED issued
    /\ UNCHANGED <<endedLogins, jar, cachedToken, minting, signedIn, webClock, webRegime, webVisits>>

Logout(c) ==
    /\ WebArrives(c)
    /\ Sets(c, [NoWebCall EXCEPT !.source = "logout"], NoCookies)
    /\ UNCHANGED <<issued, endedLogins, jar, cachedToken, minting, signedIn, webClock, webRegime, webFaults>>

\* The answer reaches the browser with the cookies it sets.  A login without
\* a refresh token leaves the refresh cookie alone.
BrowserApplies(c) ==
    LET w == webCall[c]
    IN  /\ w.at = "answer"
        /\ jar' = IF w.sets # NoCookies /\ w.sets.refresh = NoToken
                  THEN [jar EXCEPT !.access = w.sets.access] ELSE w.sets
        /\ signedIn' = CASE w.source = "logout" -> 0 [] w.login # 0 -> w.login [] OTHER -> signedIn
        /\ Closed(c)
        /\ UNCHANGED <<issued, endedLogins, cachedToken, minting, webClock, webRegime, webVisits, webFaults>>

\* maxAge of the cookies is the refresh window of the session they hold.
CookiesExpire ==
    /\ jar # NoCookies
    /\ issued[jar.access].login \in endedLogins
    /\ jar' = NoCookies
    /\ UNCHANGED <<issued, endedLogins, cachedToken, minting, webCall, signedIn, webClock, webRegime, webVisits, webFaults>>

-----------------------------------------------------------------------------
(* The service account's token *)

\* getKeycloakToken(forceRefresh): the cached token while it is fresh, else
\* the mint that is in flight, which the first to ask has started.
UseCached(force) == ~force /\ cachedToken # NoToken /\ Fresh(cachedToken)

GetToken(c) ==
    LET w == webCall[c]
        again == w.rejected # NoToken
    IN  /\ w.at = "token"
        /\ IF UseCached(again)
           THEN /\ Become(c, [w EXCEPT !.token = cachedToken, !.at = IF again THEN "resend" ELSE "send"])
                /\ UNCHANGED minting
           ELSE Become(c, [w EXCEPT !.at = "mint"]) /\ minting' = TRUE
        /\ UNCHANGED <<issued, endedLogins, jar, cachedToken, signedIn, webClock, webRegime, webVisits, webFaults>>

\* Those who await a mint: with its token they send, or send again; without
\* one the first is answered 401 and the second keeps the 401 it has.
Awaited(w, token) ==
    IF w.at # "mint" THEN w
    ELSE IF token = NoToken THEN NoWebCall
    ELSE [w EXCEPT !.token = token, !.at = IF w.rejected # NoToken THEN "resend" ELSE "send"]

MintAnswer ==
    /\ minting
    /\ \/ /\ IssueToken(ServiceAccount, Issuing)
          /\ cachedToken' = Issuing
          /\ webCall' = [c \in WebCalls |-> Awaited(webCall[c], Issuing)]
          /\ UNCHANGED webFaults
       \/ /\ WebFault
          /\ webCall' = [c \in WebCalls |-> Awaited(webCall[c], NoToken)]
          /\ UNCHANGED <<issued, cachedToken>>
    /\ minting' = FALSE
    /\ UNCHANGED <<endedLogins, jar, signedIn, webClock, webRegime, webVisits>>

-----------------------------------------------------------------------------
(* proxyToTenantRuntime *)

\* resolveAuthorization: the cookie before the minted token.
Resolve(c) ==
    /\ WebArrives(c)
    /\ Become(c, IF jar.access # NoToken
                 THEN [NoWebCall EXCEPT !.at = "send", !.source = "cookie", !.who = issued[jar.access].who,
                                        !.token = jar.access, !.refresh = jar.refresh]
                 ELSE [NoWebCall EXCEPT !.at = "token", !.source = "minted"])
    /\ UNCHANGED <<issued, endedLogins, jar, cachedToken, minting, signedIn, webClock, webRegime, webFaults>>

\* The bearer was refused: mint again, or rotate with the refresh cookie the
\* request came with; without one the session is over.
RejectedAnySource(c, w) == Become(c, [w EXCEPT !.at = "token", !.rejected = w.token])
Rejected(c, w) ==
    CASE w.source = "minted"   -> Become(c, [w EXCEPT !.at = "token", !.rejected = w.token])
      [] w.refresh # NoToken   -> Become(c, [w EXCEPT !.at = "rotate", !.rejected = w.token])
      [] OTHER                 -> Sets(c, w, NoCookies)

\* The tenant runtime refuses a token that is expired, or that it cannot
\* verify just then; or it is not reached at all (502).
SendOnce(c) ==
    LET w == webCall[c]
    IN  /\ w.at = "send"
        /\ \/ Expired(w.token) /\ Rejected(c, w) /\ UNCHANGED webFaults
           \/ ~Expired(w.token) /\ Closed(c) /\ UNCHANGED webFaults
           \/ WebFault /\ Rejected(c, w)
           \/ WebFault /\ Closed(c)
        /\ UNCHANGED <<issued, endedLogins, jar, cachedToken, minting, signedIn, webClock, webRegime, webVisits>>

\* refreshAccessToken: a new pair of the same session, or nothing.
RotatedKeepsRefresh(w) == [w EXCEPT !.token = Issuing]
Rotated(w) == [w EXCEPT !.token = Issuing, !.refresh = Issuing]

RefreshAnswer(c) ==
    LET w == webCall[c]
        r == issued[w.refresh]
    IN  /\ w.at = "rotate"
        /\ \/ /\ Refreshable(w.refresh)
              /\ IssueToken(r.who, r.login)
              /\ Become(c, [Rotated(w) EXCEPT !.at = "resend"])
              /\ UNCHANGED webFaults
           \/ /\ ~Refreshable(w.refresh)
              /\ Sets(c, w, NoCookies)
              /\ UNCHANGED <<issued, webFaults>>
           \/ /\ WebFault
              /\ Sets(c, w, NoCookies)
              /\ UNCHANGED issued
        /\ UNCHANGED <<endedLogins, jar, cachedToken, minting, signedIn, webClock, webRegime, webVisits>>

\* The second attempt, whose answer is final.  The rotated cookies are set
\* after it, so a backend that is not reached loses them.
ResendOnce(c) ==
    LET w == webCall[c]
    IN  /\ w.at = "resend"
        /\ \/ /\ IF w.source = "cookie" THEN Sets(c, w, [access |-> w.token, refresh |-> w.refresh]) ELSE Closed(c)
              /\ UNCHANGED webFaults
           \/ WebFault /\ Closed(c)
        /\ UNCHANGED <<issued, endedLogins, jar, cachedToken, minting, signedIn, webClock, webRegime, webVisits>>

WebNext ==
    \/ PassTime \/ CookiesExpire \/ MintAnswer
    \/ \E t \in DOMAIN issued : LoginEnds(t)
    \/ \E c \in WebCalls :
        \/ \E p \in webRegime.people : Login(c, p)
        \/ LoginAnswer(c) \/ Logout(c) \/ BrowserApplies(c)
        \/ Resolve(c) \/ GetToken(c) \/ SendOnce(c) \/ RefreshAnswer(c) \/ ResendOnce(c)

WebSpec == WebInit /\ [][WebNext]_webVars

-----------------------------------------------------------------------------
Tokens == 0..webRegime.tokens
Cookies == [access : Tokens, refresh : Tokens]
Request == [at : {"idle", "login", "token", "mint", "send", "rotate", "resend", "answer"},
            source : {"none", "cookie", "minted", "logout"},
            who : Persons \cup {ServiceAccount}, token : Tokens, refresh : Tokens,
            rejected : Tokens, login : Tokens, sets : Cookies]

\* The types of the session's state.
WebTypeOK ==
    /\ issued \in Seq([who : Persons \cup {ServiceAccount}, login : Tokens, at : Nat])
    /\ Len(issued) <= webRegime.tokens
    /\ endedLogins \subseteq Tokens
    /\ jar \in Cookies /\ cachedToken \in Tokens /\ minting \in BOOLEAN
    /\ webCall \in [WebCalls -> Request]
    /\ signedIn \in Tokens /\ webClock \in Nat
    /\ webRegime \in WebRegimes /\ webVisits \in Nat /\ webFaults \in Nat

\* A request that came with a person's cookie reaches the tenant runtime as
\* that person, after a rotation too, whatever logins, logouts and mints of
\* the service account ran meanwhile; and the browser's two cookies are of
\* one Keycloak session (tenant-runtime.ts resolveAuthorization and the two
\* branches for a 401).
OwnIdentity ==
    /\ \A c \in WebCalls : webCall[c].source = "cookie" =>
          issued[webCall[c].token].who = webCall[c].who
    /\ jar.refresh # NoToken => issued[jar.refresh].login = issued[jar.access].login

\* The retry after a 401 never sends the token that was refused, nor an
\* older one: also when it joins a mint another request had in flight
\* (keycloak-token.ts forceRefresh, refresh-token.ts).
RetryIsFresh ==
    \A c \in WebCalls : webCall[c].at = "resend" => webCall[c].token > webCall[c].rejected

\* What the proxy sends to the tenant runtime: the caller's own token and,
\* after a 401, a newer one.
OwnFreshToken == OwnIdentity /\ RetryIsFresh

\* One request at a time, and nobody failing.
Undisturbed ==
    (\E c \in WebCalls : webRegime.calls = {c}) /\ webRegime.refresh /\ webRegime.faults = 0

\* One request at a time and nobody failing: the browser is signed in as the
\* person's last login says.  A session goes on over any number of expired
\* access tokens until logout or the end of the Keycloak session, also when
\* Keycloak lets a refresh token be used only once (auth-actions.ts maxAge,
\* the re-set of both cookies in tenant-runtime.ts).
SessionFollowsLogin ==
    Undisturbed /\ (\A c \in WebCalls : webCall[c] = NoWebCall) =>
        /\ jar # NoCookies => issued[jar.access].login = signedIn
        /\ signedIn # 0 /\ signedIn \notin endedLogins => jar # NoCookies

-----------------------------------------------------------------------------
\* Why OwnFreshToken holds: a session of Keycloak is one person's ...
OneHolder ==
    \A t \in DOMAIN issued :
        /\ issued[t].login <= t
        /\ \A u \in DOMAIN issued : issued[u].login = issued[t].login => issued[u].who = issued[t].who

\* ... two tokens that are kept together are of one session, and a client
\* without refresh tokens never holds one ...
Pair(access, refresh) ==
    /\ access <= Len(issued) /\ refresh <= Len(issued)
    /\ refresh # NoToken => /\ webRegime.refresh /\ access # NoToken
                            /\ issued[refresh].login = issued[access].login

\* ... and a request keeps to the source its bearer came from.
RequestInv(w) ==
    /\ w.at = "answer" => Pair(w.sets.access, w.sets.refresh)
    /\ w.at = "answer" /\ webRegime.refresh /\ w.sets # NoCookies => w.sets.refresh # NoToken
    /\ w.source = "cookie" => /\ w.token # NoToken /\ Pair(w.token, w.refresh)
                              /\ issued[w.token].who = w.who
    /\ w.at \in {"token", "mint"} => w.source = "minted"
    /\ w.source = "minted" => w.refresh = NoToken
    /\ w.at = "send" => w.source \in {"cookie", "minted"}
    /\ w.at = "rotate" => w.source = "cookie" /\ w.refresh # NoToken
    /\ w.at = "resend" /\ w.source = "cookie" => w.refresh # NoToken
    /\ w.token <= Len(issued) /\ w.rejected <= Len(issued)
    /\ w.at = "resend" => w.token > w.rejected

WebInv ==
    /\ OneHolder
    /\ Pair(jar.access, jar.refresh)
    /\ cachedToken <= Len(issued)
    /\ \A c \in WebCalls : RequestInv(webCall[c])

-----------------------------------------------------------------------------
\* Why SessionFollowsLogin holds: a pair of cookies stands for a login if it
\* is of that session and can still be rotated, and only a session that is
\* over has none ...
StandFor(cookies, login) ==
    /\ cookies # NoCookies =>
         /\ cookies.refresh # NoToken /\ issued[cookies.access].login = login
         /\ webRegime.revoke => \A u \in DOMAIN issued : cookies.refresh < u => issued[u].login # login
    /\ login # 0 /\ login \notin endedLogins => cookies # NoCookies

\* ... which is true of the browser's cookies, of those a request works with,
\* and of those it brings, once it has rotated the others away.
Replacing(w) == w.at = "answer" \/ (w.at = "resend" /\ w.source = "cookie")

LoginAfter(w) == CASE w.source = "logout" -> 0 [] w.login # 0 -> w.login [] OTHER -> signedIn

CallFollows(w) ==
    /\ w.at = "answer" => StandFor(w.sets, LoginAfter(w))
    /\ w.source = "cookie" =>
         w.login = 0 /\ (w.at # "answer" => StandFor([access |-> w.token, refresh |-> w.refresh], signedIn))
    /\ ~Replacing(w) => StandFor(jar, signedIn)
    /\ w.at = "login" => w.source = "none"

SessionInv ==
    Undisturbed =>
        /\ webFaults = 0
        /\ \A c \in WebCalls : IF c \in webRegime.calls THEN CallFollows(webCall[c]) ELSE webCall[c] = NoWebCall
=============================================================================
