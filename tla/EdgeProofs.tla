----------------------------- MODULE EdgeProofs -----------------------------
(***************************************************************************)
(* Proofs about the two programs at the edges: the web kit with its        *)
(* session (module WebSession) and the screens that act on rows (module    *)
(* Screens), and the tenant runtime's own provisioning pipeline (module    *)
(* RuntimePipeline).                                                       *)
(***************************************************************************)
EXTENDS WebSession, RuntimePipeline, Screens, SequenceTheorems, FiniteSetTheorems, TLAPS

(* The web session *)

WebOK == WebTypeOK /\ WebInv

LEMMA RegimeTypes ==
  ASSUME NEW r \in WebRegimes
  PROVE  /\ r.calls \subseteq WebCalls /\ r.revoke \in BOOLEAN /\ r.refresh \in BOOLEAN
         /\ r.people \subseteq Persons /\ r.visits \in Nat /\ r.faults \in Nat /\ r.tokens \in Nat /\ r.time \in Nat
  BY WebAssumption

LEMMA InitWeb == WebInit => WebOK
  <1> SUFFICES ASSUME WebInit PROVE WebOK
    OBVIOUS
  <1>1. /\ issued = <<>> /\ endedLogins = {} /\ jar = NoCookies /\ cachedToken = NoToken /\ minting = FALSE
        /\ webCall = [c \in WebCalls |-> NoWebCall] /\ signedIn = 0 /\ webClock = 0 /\ webRegime \in WebRegimes
        /\ webVisits = webRegime.visits /\ webFaults = webRegime.faults
    BY DEF WebInit
  <1>2. webRegime.tokens \in Nat /\ webVisits \in Nat /\ webFaults \in Nat
    BY <1>1, RegimeTypes
  <1>3. 0 \in Tokens
    BY <1>2 DEF Tokens
  <1>4. NoCookies \in Cookies /\ NoWebCall \in Request
    BY <1>3 DEF NoCookies, Cookies, NoWebCall, Request, NoToken
  <1>5. Len(issued) = 0 /\ DOMAIN issued = {} /\ issued \in Seq([who : Persons \cup {ServiceAccount}, login : Tokens, at : Nat])
    BY <1>1, EmptySeq
  <1>6. WebTypeOK
    <2>1. webCall \in [WebCalls -> Request]
      BY <1>1, <1>4
    <2>2. Len(issued) <= webRegime.tokens /\ endedLogins \subseteq Tokens /\ webClock \in Nat
      BY <1>1, <1>2, <1>5
    <2>4. minting \in BOOLEAN
      BY <1>1
    <2>3. jar \in Cookies /\ cachedToken \in Tokens /\ signedIn \in Tokens
      BY <1>1, <1>3, <1>4 DEF NoToken
    <2> QED
      BY <1>1, <1>2, <1>5, <2>1, <2>2, <2>3, <2>4 DEF WebTypeOK
  <1>7. Pair(0, 0)
    BY <1>5 DEF Pair, NoToken
  <1>8. RequestInv(NoWebCall)
    BY <1>5, <1>7 DEF RequestInv, NoWebCall, NoCookies, NoToken
  <1>9. WebInv
    BY <1>1, <1>5, <1>7, <1>8 DEF WebInv, OneHolder, NoCookies, NoToken
  <1> QED
    BY <1>6, <1>9 DEF WebOK

\* What is known of the tokens while none is issued.
LEMMA SameTokens ==
  ASSUME UNCHANGED <<issued, webRegime>>
  PROVE  /\ OneHolder => OneHolder'
         /\ Tokens' = Tokens /\ Cookies' = Cookies /\ Request' = Request
         /\ \A a, r : Pair(a, r) => Pair(a, r)'
         /\ \A w : RequestInv(w) => RequestInv(w)'
  <1>1. \A a, r : Pair(a, r)' = Pair(a, r)
    BY DEF Pair
  <1>2. \A w : RequestInv(w) => RequestInv(w)'
    BY <1>1 DEF RequestInv
  <1> QED
    BY <1>1, <1>2 DEF OneHolder, Tokens, Cookies, Request

\* One more token: of a new session, or of a person's.
LEMMA TokenIssued ==
  ASSUME WebOK, NEW who \in Persons \cup {ServiceAccount}, NEW login \in Nat, IssueToken(who, login),
         UNCHANGED webRegime,
         \/ login = Issuing
         \/ \E t \in DOMAIN issued : issued[t].login = login /\ issued[t].who = who
  PROVE  /\ issued' \in Seq([who : Persons \cup {ServiceAccount}, login : Tokens, at : Nat])
         /\ Issuing \in Tokens /\ Issuing \in Nat /\ Len(issued) \in Nat
         /\ Len(issued') = Issuing /\ Len(issued') <= webRegime.tokens /\ Issuing = Len(issued) + 1
         /\ issued'[Issuing].who = who /\ issued'[Issuing].login = login
         /\ OneHolder'
         /\ Tokens' = Tokens /\ Cookies' = Cookies /\ Request' = Request
         /\ \A a, r \in Tokens : Pair(a, r) => Pair(a, r)'
         /\ \A w \in Request : RequestInv(w) => RequestInv(w)'
  <1>1. PICK n : n = Len(issued) + 1
    OBVIOUS
  <1>2. PICK row : row = [who |-> who, login |-> login, at |-> webClock]
    OBVIOUS
  <1>3. /\ issued' = Append(issued, row) /\ Len(issued) < webRegime.tokens /\ Issuing = n
        /\ webRegime.tokens \in Nat /\ webClock \in Nat
        /\ issued \in Seq([who : Persons \cup {ServiceAccount}, login : Tokens, at : Nat])
    BY <1>1, <1>2, RegimeTypes DEF IssueToken, Issuing, WebOK, WebTypeOK
  <1>4. Len(issued) \in Nat /\ DOMAIN issued = 1..Len(issued)
    BY <1>3, LenProperties
  <1>5. n \in Tokens /\ n \in Nat /\ n <= webRegime.tokens
    BY <1>1, <1>3, <1>4 DEF Tokens
  <1>6. \A t \in DOMAIN issued : issued[t].login <= t /\ issued[t].login \in Tokens /\ issued[t].login \in Nat /\ t \in Nat /\ t < n
    <2>1. \A t \in DOMAIN issued : issued[t] \in [who : Persons \cup {ServiceAccount}, login : Tokens, at : Nat]
      BY <1>3, <1>4, ElementOfSeq
    <2>2. \A t \in DOMAIN issued : issued[t].login <= t
      BY DEF WebOK, WebInv, OneHolder
    <2> QED
      BY <1>1, <1>4, <2>1, <2>2 DEF Tokens
  <1>7. login \in Tokens /\ login <= n
    BY <1>3, <1>5, <1>6 DEF Tokens
  <1>8. row \in [who : Persons \cup {ServiceAccount}, login : Tokens, at : Nat]
    BY <1>2, <1>3, <1>7
  <1>9. /\ issued' \in Seq([who : Persons \cup {ServiceAccount}, login : Tokens, at : Nat])
        /\ Len(issued') = n /\ issued'[n] = row
        /\ \A t \in 1..Len(issued) : issued'[t] = issued[t]
    BY <1>1, <1>3, <1>8, AppendProperties
  <1>10. DOMAIN issued' = DOMAIN issued \cup {n} /\ n \notin DOMAIN issued
    <2>1. DOMAIN issued' = 1..n
      BY <1>9, LenProperties
    <2> QED
      BY <1>1, <1>4, <2>1
  <1>11. \A t \in DOMAIN issued : issued'[t] = issued[t]
    BY <1>4, <1>9
  <1>12. \A t \in DOMAIN issued : issued[t].login = login => issued[t].who = who
    <2>1. CASE login = Issuing
      BY <1>3, <1>6, <2>1
    <2>2. CASE \E t \in DOMAIN issued : issued[t].login = login /\ issued[t].who = who
      BY <2>2 DEF WebOK, WebInv, OneHolder
    <2> QED
      BY <2>1, <2>2
  <1>13. OneHolder'
    <2>1. ASSUME NEW t \in DOMAIN issued' PROVE issued'[t].login <= t
      BY <1>2, <1>6, <1>7, <1>9, <1>10, <1>11
    <2>2. ASSUME NEW t \in DOMAIN issued', NEW u \in DOMAIN issued', issued'[u].login = issued'[t].login
          PROVE  issued'[u].who = issued'[t].who
      <3>1. CASE t \in DOMAIN issued /\ u \in DOMAIN issued
        BY <1>11, <2>2, <3>1 DEF WebOK, WebInv, OneHolder
      <3>2. CASE t = n \/ u = n
        BY <1>2, <1>9, <1>10, <1>11, <1>12, <2>2, <3>2
      <3> QED
        BY <1>10, <3>1, <3>2
    <2> QED
      BY <2>1, <2>2 DEF OneHolder
  <1>14. Tokens' = Tokens /\ Cookies' = Cookies /\ Request' = Request
    BY DEF Tokens, Cookies, Request
  <1>15. ASSUME NEW a \in Tokens, NEW r \in Tokens, Pair(a, r) PROVE Pair(a, r)'
    <2>1. /\ a \in Nat /\ r \in Nat /\ a <= Len(issued) /\ r <= Len(issued)
          /\ r # 0 => webRegime.refresh /\ a # 0 /\ issued[r].login = issued[a].login
      BY <1>3, <1>15 DEF Pair, Tokens, NoToken
    <2>2. a <= n /\ r <= n
      BY <1>1, <1>4, <2>1
    <2>3. r # 0 => issued'[r] = issued[r] /\ issued'[a] = issued[a]
      BY <1>4, <1>11, <2>1
    <2> QED
      BY <1>9, <2>1, <2>2, <2>3 DEF Pair, NoToken
  <1>16. ASSUME NEW w \in Request, RequestInv(w) PROVE RequestInv(w)'
    <2>1. /\ w.token \in Tokens /\ w.refresh \in Tokens /\ w.rejected \in Tokens
          /\ w.sets.access \in Tokens /\ w.sets.refresh \in Tokens
      BY DEF Request, Cookies
    <2>2. w.token \in Nat /\ w.rejected \in Nat /\ w.token <= Len(issued) /\ w.rejected <= Len(issued)
      BY <1>3, <1>16, <2>1 DEF RequestInv, Tokens
    <2>3. w.token <= Len(issued') /\ w.rejected <= Len(issued')
      BY <1>1, <1>4, <1>9, <2>2
    <2>4. w.token # 0 => issued'[w.token] = issued[w.token]
      BY <1>4, <1>11, <2>2
    <2>5. /\ w.at = "answer" => Pair(w.sets.access, w.sets.refresh)'
          /\ w.source = "cookie" => Pair(w.token, w.refresh)'
      BY <1>15, <1>16, <2>1 DEF RequestInv
    <2> QED
      BY <1>16, <2>3, <2>4, <2>5 DEF RequestInv, NoToken
  <1> QED
    BY <1>1, <1>2, <1>3, <1>4, <1>5, <1>9, <1>13, <1>14, <1>15, <1>16

\* A step that issues no token: it moves one request, or none.
LEMMA CookieStep ==
  ASSUME WebOK, UNCHANGED <<issued, webRegime, cachedToken>>, jar' \in Cookies, Pair(jar'.access, jar'.refresh),
         webCall' \in [WebCalls -> Request], \A c \in WebCalls : RequestInv(webCall'[c]),
         minting' \in BOOLEAN, endedLogins' \subseteq Tokens, signedIn' \in Tokens,
         webClock' \in Nat, webVisits' \in Nat, webFaults' \in Nat
  PROVE  WebOK'
  <1>1. WebTypeOK'
    BY SameTokens DEF WebOK, WebTypeOK
  <1>2. Pair(jar.access, jar.refresh)'
    <2>1. PICK a, r : a = jar'.access /\ r = jar'.refresh
      OBVIOUS
    <2> QED
      BY <2>1, SameTokens DEF Pair
  <1>3. ASSUME NEW c \in WebCalls PROVE RequestInv(webCall[c])'
    <2>1. PICK w : w = webCall'[c]
      OBVIOUS
    <2>2. RequestInv(w)
      BY <2>1
    <2>3. RequestInv(w)'
      BY <2>2, SameTokens
    <2> QED
      BY <2>1, <2>3 DEF RequestInv, Pair
  <1> QED
    BY <1>1, <1>2, <1>3, SameTokens DEF WebOK, WebInv

\* A step of one request that leaves tokens and browser alone.
LEMMA RequestStep ==
  ASSUME WebOK, NEW c \in WebCalls, NEW w \in Request, RequestInv(w), Become(c, w),
         UNCHANGED <<issued, webRegime, cachedToken, jar, endedLogins, signedIn, webClock>>,
         minting' \in BOOLEAN, webVisits' \in Nat, webFaults' \in Nat
  PROVE  WebOK'
  <1>1. webCall' = [webCall EXCEPT ![c] = w] /\ webCall \in [WebCalls -> Request]
    BY DEF Become, WebOK, WebTypeOK
  <1>2. webCall' \in [WebCalls -> Request] /\ \A d \in WebCalls : RequestInv(webCall'[d])
    BY <1>1 DEF WebOK, WebInv
  <1>3. jar' \in Cookies /\ Pair(jar'.access, jar'.refresh)
    BY DEF WebOK, WebTypeOK, WebInv
  <1>4. endedLogins' \subseteq Tokens /\ signedIn' \in Tokens /\ webClock' \in Nat
    BY DEF WebOK, WebTypeOK
  <1> QED
    BY <1>2, <1>3, <1>4, CookieStep

LEMMA FreshRequests ==
  ASSUME WebOK
  PROVE  /\ NoWebCall \in Request /\ RequestInv(NoWebCall) /\ NoCookies \in Cookies /\ 0 \in Tokens
         /\ Pair(0, 0) /\ Len(issued) \in Nat /\ webVisits \in Nat /\ webFaults \in Nat
  <1>1. /\ webRegime.tokens \in Nat /\ Len(issued) \in Nat /\ webVisits \in Nat /\ webFaults \in Nat
    BY RegimeTypes, LenProperties DEF WebOK, WebTypeOK
  <1>2. 0 \in Tokens
    BY <1>1 DEF Tokens
  <1>3. NoCookies \in Cookies /\ NoWebCall \in Request
    BY <1>2 DEF NoCookies, Cookies, NoWebCall, Request, NoToken
  <1>4. Pair(0, 0)
    BY <1>1 DEF Pair, NoToken
  <1>5. RequestInv(NoWebCall)
    BY <1>1, <1>4 DEF RequestInv, NoWebCall, NoCookies, NoToken
  <1> QED
    BY <1>1, <1>2, <1>3, <1>4, <1>5

LEMMA TokenRow ==
  ASSUME WebOK, NEW t \in DOMAIN issued
  PROVE  /\ issued[t].who \in Persons \cup {ServiceAccount} /\ issued[t].login \in Tokens
         /\ t \in Tokens /\ Tokens \subseteq Nat
  <1>1. issued \in Seq([who : Persons \cup {ServiceAccount}, login : Tokens, at : Nat])
        /\ Len(issued) <= webRegime.tokens /\ webRegime.tokens \in Nat
    BY RegimeTypes DEF WebOK, WebTypeOK
  <1>2. DOMAIN issued = 1..Len(issued) /\ Len(issued) \in Nat
    BY <1>1, LenProperties
  <1>3. issued[t] \in [who : Persons \cup {ServiceAccount}, login : Tokens, at : Nat]
    BY <1>1, <1>2, ElementOfSeq
  <1> QED
    BY <1>1, <1>2, <1>3 DEF Tokens

\* An answer that clears the cookies.
LEMMA Cleared ==
  ASSUME WebOK, NEW w \in Request, RequestInv(w)
  PROVE  LET x == [w EXCEPT !.at = "answer", !.sets = NoCookies] IN x \in Request /\ RequestInv(x)
  <1>1. PICK x : x = [w EXCEPT !.at = "answer", !.sets = NoCookies]
    OBVIOUS
  <1>2. x \in Request
    BY <1>1, FreshRequests DEF Request
  <1>3. /\ x.at = "answer" /\ x.sets = NoCookies /\ x.source = w.source /\ x.who = w.who /\ x.token = w.token
        /\ x.refresh = w.refresh /\ x.rejected = w.rejected
    BY <1>1 DEF Request
  <1>4. Pair(x.sets.access, x.sets.refresh)
    BY <1>3, FreshRequests DEF NoCookies, NoToken
  <1>5. RequestInv(x)
    BY <1>3, <1>4 DEF RequestInv
  <1> QED
    BY <1>1, <1>2, <1>5

LEMMA FaultLeft ==
  ASSUME WebOK, WebFault \/ UNCHANGED webFaults
  PROVE  webFaults' \in Nat
  BY FreshRequests DEF WebFault

LEMMA VisitsLeft ==
  ASSUME WebOK, NEW c, WebArrives(c)
  PROVE  webVisits' \in Nat
  BY FreshRequests DEF WebArrives

LEMMA LoginWeb ==
  ASSUME WebOK, NEW c \in WebCalls,
         \/ \E p \in webRegime.people : Login(c, p)
         \/ Logout(c) \/ Resolve(c) \/ GetToken(c)
  PROVE  WebOK'
  <1>1. /\ webCall[c] \in Request /\ RequestInv(webCall[c]) /\ jar \in Cookies /\ Pair(jar.access, jar.refresh)
        /\ minting \in BOOLEAN /\ cachedToken \in Tokens /\ cachedToken <= Len(issued)
    BY DEF WebOK, WebTypeOK, WebInv
  <1>2. PICK w0 : w0 = webCall[c]
    OBVIOUS
  <1>3. ASSUME NEW p \in webRegime.people, Login(c, p) PROVE WebOK'
    <2>1. PICK w : w = [NoWebCall EXCEPT !.at = "login", !.who = p]
      OBVIOUS
    <2>2. p \in Persons
      BY RegimeTypes DEF WebOK, WebTypeOK
    <2>3. w \in Request
      BY <2>1, <2>2, FreshRequests DEF Request
    <2>4. RequestInv(w)
      BY <2>1, FreshRequests DEF RequestInv, NoWebCall, NoToken
    <2> QED
      BY <1>1, <1>3, <2>1, <2>3, <2>4, VisitsLeft, FreshRequests, RequestStep DEF Login
  <1>4. ASSUME Logout(c) PROVE WebOK'
    <2>1. PICK w : w = [NoWebCall EXCEPT !.source = "logout"]
      OBVIOUS
    <2>2. w \in Request
      BY <2>1, FreshRequests DEF Request
    <2>3. RequestInv(w)
      BY <2>1, FreshRequests DEF RequestInv, NoWebCall, NoToken
    <2>4. PICK x : x = [w EXCEPT !.at = "answer", !.sets = NoCookies]
      OBVIOUS
    <2>5. x \in Request /\ RequestInv(x)
      BY <2>2, <2>3, <2>4, Cleared
    <2>6. Become(c, x)
      BY <1>4, <2>1, <2>4 DEF Logout, Sets
    <2> QED
      BY <1>1, <1>4, <2>5, <2>6, VisitsLeft, FreshRequests, RequestStep DEF Logout
  <1>5. ASSUME Resolve(c) PROVE WebOK'
    <2>1. PICK w : w = IF jar.access # NoToken
                 THEN [NoWebCall EXCEPT !.at = "send", !.source = "cookie", !.who = issued[jar.access].who,
                                        !.token = jar.access, !.refresh = jar.refresh]
                 ELSE [NoWebCall EXCEPT !.at = "token", !.source = "minted"]
      OBVIOUS
    <2>2. CASE jar.access # NoToken
      <3>1. jar.access \in Tokens /\ jar.refresh \in Tokens /\ jar.access <= Len(issued)
        BY <1>1 DEF Cookies, Pair
      <3>2. webRegime.tokens \in Nat
        BY RegimeTypes DEF WebOK, WebTypeOK
      <3>3. jar.access \in DOMAIN issued
        BY <2>2, <3>1, <3>2, FreshRequests, LenProperties DEF Tokens, NoToken, WebOK, WebTypeOK
      <3>4. issued[jar.access].who \in Persons \cup {ServiceAccount}
        BY <3>3, TokenRow
      <3>5. w \in Request
        BY <2>1, <2>2, <3>1, <3>4, FreshRequests DEF Request
      <3>6. RequestInv(w)
        BY <1>1, <2>1, <2>2, <3>1, FreshRequests DEF RequestInv, NoWebCall, NoToken
      <3> QED
        BY <1>1, <1>5, <2>1, <3>5, <3>6, VisitsLeft, FreshRequests, RequestStep DEF Resolve
    <2>3. CASE jar.access = NoToken
      <3>1. w \in Request
        BY <2>1, <2>3, FreshRequests DEF Request
      <3>2. RequestInv(w)
        BY <2>1, <2>3, FreshRequests DEF RequestInv, NoWebCall, NoToken
      <3> QED
        BY <1>1, <1>5, <2>1, <3>1, <3>2, VisitsLeft, FreshRequests, RequestStep DEF Resolve
    <2> QED
      BY <2>2, <2>3
  <1>6. ASSUME GetToken(c) PROVE WebOK'
    <2>1. w0.at = "token" /\ w0 \in Request /\ RequestInv(w0)
      BY <1>1, <1>2, <1>6 DEF GetToken
    <2>2. CASE UseCached(w0.rejected # NoToken)
      <3>1. PICK w : w = [w0 EXCEPT !.token = cachedToken, !.at = "send"]
        OBVIOUS
      <3>2. w0.rejected = NoToken
        BY <2>2 DEF UseCached
      <3>3. Become(c, w) /\ UNCHANGED minting
        BY <1>2, <1>6, <2>2, <3>1, <3>2 DEF GetToken
      <3>4. w \in Request
        BY <1>1, <2>1, <3>1 DEF Request
      <3>5. RequestInv(w)
        BY <1>1, <2>1, <3>1 DEF RequestInv, Request
      <3> QED
        BY <1>1, <1>6, <3>3, <3>4, <3>5, FreshRequests, RequestStep DEF GetToken
    <2>3. CASE ~UseCached(w0.rejected # NoToken)
      <3>1. PICK w : w = [w0 EXCEPT !.at = "mint"]
        OBVIOUS
      <3>2. Become(c, w) /\ minting' = TRUE
        BY <1>2, <1>6, <2>3, <3>1 DEF GetToken
      <3>3. w \in Request
        BY <2>1, <3>1 DEF Request
      <3>4. RequestInv(w)
        BY <2>1, <3>1 DEF RequestInv, Request
      <3> QED
        BY <1>1, <1>6, <3>2, <3>3, <3>4, FreshRequests, RequestStep DEF GetToken
    <2> QED
      BY <2>2, <2>3
  <1> QED
    BY <1>3, <1>4, <1>5, <1>6

\* A refused bearer.
LEMMA RejectedWeb ==
  ASSUME WebOK, NEW c \in WebCalls, NEW w \in Request, RequestInv(w), w.at = "send", w.source \in {"cookie", "minted"},
         Rejected(c, w), UNCHANGED <<issued, webRegime, cachedToken, jar, minting, endedLogins, signedIn, webClock>>,
         webVisits' \in Nat, webFaults' \in Nat
  PROVE  WebOK'
  <1>1. minting' \in BOOLEAN
    BY DEF WebOK, WebTypeOK
  <1>2. CASE w.source = "minted"
    <2>1. PICK x : x = [w EXCEPT !.at = "token", !.rejected = w.token]
      OBVIOUS
    <2>2. Become(c, x)
      BY <1>2, <2>1 DEF Rejected, Become, RequestInv
    <2>3. x \in Request
      BY <2>1 DEF Request
    <2>4. RequestInv(x)
      BY <1>2, <2>1 DEF RequestInv, Request
    <2> QED
      BY <1>1, <2>2, <2>3, <2>4, RequestStep
  <1>3. CASE w.source = "cookie" /\ w.refresh # NoToken
    <2>1. PICK x : x = [w EXCEPT !.at = "rotate", !.rejected = w.token]
      OBVIOUS
    <2>2. Become(c, x)
      BY <1>3, <2>1 DEF Rejected
    <2>3. x \in Request
      BY <2>1 DEF Request
    <2>4. RequestInv(x)
      BY <1>3, <2>1 DEF RequestInv, Request
    <2> QED
      BY <1>1, <2>2, <2>3, <2>4, RequestStep
  <1>4. CASE w.source = "cookie" /\ w.refresh = NoToken
    <2>1. PICK x : x = [w EXCEPT !.at = "answer", !.sets = NoCookies]
      OBVIOUS
    <2>2. Become(c, x)
      BY <1>4, <2>1 DEF Rejected, Sets
    <2> QED
      BY <1>1, <2>1, <2>2, Cleared, RequestStep
  <1> QED
    BY <1>2, <1>3, <1>4

LEMMA SendOnceWeb ==
  ASSUME WebOK, NEW c \in WebCalls, SendOnce(c)
  PROVE  WebOK'
  <1>1. webCall[c] \in Request /\ RequestInv(webCall[c]) /\ minting \in BOOLEAN
    BY DEF WebOK, WebTypeOK, WebInv
  <1>2. PICK w : w = webCall[c]
    OBVIOUS
  <1>3. /\ w.at = "send" /\ (WebFault \/ UNCHANGED webFaults) /\ (Rejected(c, w) \/ Closed(c))
        /\ UNCHANGED <<issued, webRegime, cachedToken, jar, minting, endedLogins, signedIn, webClock, webVisits>>
    BY <1>2 DEF SendOnce
  <1>4. webVisits' \in Nat /\ webFaults' \in Nat
    BY <1>3, FaultLeft, FreshRequests
  <1>5. CASE Closed(c)
    BY <1>1, <1>3, <1>4, <1>5, FreshRequests, RequestStep DEF Closed
  <1>6. CASE Rejected(c, w)
    BY <1>1, <1>2, <1>3, <1>4, <1>6, RejectedWeb DEF RequestInv
  <1> QED
    BY <1>3, <1>5, <1>6

LEMMA ResendOnceWeb ==
  ASSUME WebOK, NEW c \in WebCalls, ResendOnce(c)
  PROVE  WebOK'
  <1>1. webCall[c] \in Request /\ RequestInv(webCall[c]) /\ minting \in BOOLEAN
    BY DEF WebOK, WebTypeOK, WebInv
  <1>2. PICK w : w = webCall[c]
    OBVIOUS
  <1>3. PICK cookies : cookies = [access |-> w.token, refresh |-> w.refresh]
    OBVIOUS
  <1>4. /\ w.at = "resend" /\ (WebFault \/ UNCHANGED webFaults)
        /\ (w.source = "cookie" /\ Sets(c, w, cookies)) \/ Closed(c)
        /\ UNCHANGED <<issued, webRegime, cachedToken, jar, minting, endedLogins, signedIn, webClock, webVisits>>
    BY <1>2, <1>3 DEF ResendOnce
  <1>5. webVisits' \in Nat /\ webFaults' \in Nat
    BY <1>4, FaultLeft, FreshRequests
  <1>6. CASE Closed(c)
    BY <1>1, <1>4, <1>5, <1>6, FreshRequests, RequestStep DEF Closed
  <1>7. CASE w.source = "cookie" /\ Sets(c, w, cookies)
    <2>1. PICK x : x = [w EXCEPT !.at = "answer", !.sets = cookies]
      OBVIOUS
    <2>2. x \in Request
      BY <1>1, <1>2, <1>3, <2>1 DEF Request, Cookies
    <2>3. /\ x.at = "answer" /\ x.sets.access = w.token /\ x.sets.refresh = w.refresh /\ x.source = w.source
          /\ x.who = w.who /\ x.token = w.token /\ x.refresh = w.refresh /\ x.rejected = w.rejected
      BY <1>1, <1>2, <1>3, <2>1 DEF Request
    <2>4. RequestInv(x)
      BY <1>1, <1>2, <1>4, <1>7, <2>3 DEF RequestInv
    <2> QED
      BY <1>1, <1>4, <1>5, <1>7, <2>1, <2>2, <2>4, RequestStep DEF Sets
  <1> QED
    BY <1>4, <1>6, <1>7

\* Time, the end of a login, and what reaches or leaves the browser.
LEMMA BrowserWeb ==
  ASSUME WebOK,
         \/ PassTime \/ CookiesExpire
         \/ \E t \in DOMAIN issued : LoginEnds(t)
         \/ \E c \in WebCalls : BrowserApplies(c)
  PROVE  WebOK'
  <1>1. /\ webCall \in [WebCalls -> Request] /\ \A d \in WebCalls : RequestInv(webCall[d])
        /\ jar \in Cookies /\ Pair(jar.access, jar.refresh) /\ minting \in BOOLEAN /\ endedLogins \subseteq Tokens
        /\ signedIn \in Tokens /\ webClock \in Nat /\ webVisits \in Nat /\ webFaults \in Nat
    BY DEF WebOK, WebTypeOK, WebInv
  <1>2. Pair(NoCookies.access, NoCookies.refresh) /\ NoCookies \in Cookies
    BY FreshRequests DEF NoCookies, NoToken
  <1>3. ASSUME PassTime PROVE WebOK'
    BY <1>1, <1>3, CookieStep DEF PassTime
  <1>4. ASSUME CookiesExpire PROVE WebOK'
    BY <1>1, <1>2, <1>4, CookieStep DEF CookiesExpire
  <1>5. ASSUME NEW t \in DOMAIN issued, LoginEnds(t) PROVE WebOK'
    <2>1. endedLogins' \subseteq Tokens
      BY <1>1, <1>5, TokenRow DEF LoginEnds
    <2> QED
      BY <1>1, <1>5, <2>1, CookieStep DEF LoginEnds
  <1>6. ASSUME NEW c \in WebCalls, BrowserApplies(c) PROVE WebOK'
    <2>1. PICK w : w = webCall[c]
      OBVIOUS
    <2>2. w \in Request /\ RequestInv(w) /\ w.at = "answer" /\ w.login \in Tokens /\ w.sets \in Cookies
      BY <1>1, <1>6, <2>1 DEF BrowserApplies, Request
    <2>3. /\ Pair(w.sets.access, w.sets.refresh)
          /\ webRegime.refresh /\ w.sets # NoCookies => w.sets.refresh # NoToken
      BY <2>2 DEF RequestInv
    <2>4. /\ jar' = IF w.sets # NoCookies /\ w.sets.refresh = NoToken
                    THEN [jar EXCEPT !.access = w.sets.access] ELSE w.sets
          /\ signedIn' \in {0, w.login, signedIn} /\ webCall' = [webCall EXCEPT ![c] = NoWebCall]
          /\ UNCHANGED <<issued, endedLogins, cachedToken, minting, webClock, webRegime, webVisits, webFaults>>
      BY <1>6, <2>1 DEF BrowserApplies, Closed, Become
    <2>5. webCall' \in [WebCalls -> Request] /\ \A d \in WebCalls : RequestInv(webCall'[d])
      BY <1>1, <2>4, FreshRequests
    <2>6. signedIn' \in Tokens
      BY <1>1, <2>2, <2>4, FreshRequests
    <2>7. jar' \in Cookies /\ Pair(jar'.access, jar'.refresh)
      <3>1. CASE w.sets # NoCookies /\ w.sets.refresh = NoToken
        <4>1. jar'.access = w.sets.access /\ jar'.refresh = jar.refresh /\ jar' \in Cookies
          BY <1>1, <2>2, <2>4, <3>1 DEF Cookies
        <4>2. jar.refresh = NoToken
          BY <1>1, <2>3, <3>1 DEF Pair
        <4> QED
          BY <2>3, <3>1, <4>1, <4>2
      <3>2. CASE ~(w.sets # NoCookies /\ w.sets.refresh = NoToken)
        BY <2>2, <2>3, <2>4, <3>2
      <3> QED
        BY <3>1, <3>2
    <2> QED
      BY <1>1, <2>4, <2>5, <2>6, <2>7, CookieStep
  <1> QED
    BY <1>3, <1>4, <1>5, <1>6

\* A step that issues a token.
LEMMA TokenStep ==
  ASSUME WebOK, NEW who \in Persons \cup {ServiceAccount}, NEW login \in Nat, IssueToken(who, login),
         \/ login = Issuing
         \/ \E t \in DOMAIN issued : issued[t].login = login /\ issued[t].who = who,
         NEW calls \in [WebCalls -> Request], webCall' = calls, \A d \in WebCalls : RequestInv(calls[d])',
         UNCHANGED <<endedLogins, jar, signedIn, webClock, webRegime, webVisits>>,
         cachedToken' \in {cachedToken, Issuing}, minting' \in BOOLEAN, webFaults' \in Nat
  PROVE  WebOK'
  <1>1. /\ issued' \in Seq([who : Persons \cup {ServiceAccount}, login : Tokens, at : Nat])
        /\ Issuing \in Tokens /\ Issuing \in Nat /\ Len(issued) \in Nat
        /\ Len(issued') = Issuing /\ Len(issued') <= webRegime.tokens /\ Issuing = Len(issued) + 1
        /\ OneHolder'
        /\ Tokens' = Tokens /\ Cookies' = Cookies /\ Request' = Request
        /\ \A a, r \in Tokens : Pair(a, r) => Pair(a, r)'
    BY TokenIssued
  <1>2. /\ jar \in Cookies /\ Pair(jar.access, jar.refresh) /\ endedLogins \subseteq Tokens
        /\ signedIn \in Tokens /\ webClock \in Nat /\ webVisits \in Nat
        /\ webRegime \in WebRegimes /\ cachedToken \in Tokens /\ cachedToken <= Len(issued)
    BY DEF WebOK, WebTypeOK, WebInv
  <1>3. ASSUME NEW d \in WebCalls PROVE RequestInv(webCall[d])'
    <2>1. PICK y : y = calls[d]
      OBVIOUS
    <2>2. RequestInv(y)'
      BY <2>1
    <2> QED
      BY <2>1, <2>2 DEF RequestInv, Pair
  <1>4. Pair(jar.access, jar.refresh)'
    <2>1. PICK a \in Tokens, r \in Tokens : a = jar.access /\ r = jar.refresh
      BY <1>2 DEF Cookies
    <2>2. Pair(a, r)'
      BY <1>1, <1>2, <2>1
    <2> QED
      BY <2>1, <2>2 DEF Pair
  <1>5. cachedToken' \in Tokens /\ cachedToken' <= Len(issued')
    BY <1>1, <1>2, RegimeTypes DEF Tokens
  <1>6. WebTypeOK'
    BY <1>1, <1>2, <1>5 DEF WebTypeOK
  <1>7. WebInv'
    BY <1>1, <1>3, <1>4, <1>5 DEF WebInv
  <1> QED
    BY <1>6, <1>7 DEF WebOK

LEMMA LoginAnswerWeb ==
  ASSUME WebOK, NEW c \in WebCalls, LoginAnswer(c)
  PROVE  WebOK'
  <1>1. /\ webCall \in [WebCalls -> Request] /\ \A d \in WebCalls : RequestInv(webCall[d])
        /\ minting \in BOOLEAN /\ webFaults \in Nat /\ webRegime \in WebRegimes
    BY DEF WebOK, WebTypeOK, WebInv
  <1>2. PICK w : w = webCall[c]
    OBVIOUS
  <1>3. PICK cookies : cookies = [access |-> Issuing, refresh |-> IF webRegime.refresh THEN Issuing ELSE NoToken]
    OBVIOUS
  <1>4. /\ w \in Request /\ RequestInv(w) /\ w.at = "login" /\ w.who \in Persons \cup {ServiceAccount}
        /\ UNCHANGED <<endedLogins, jar, cachedToken, minting, signedIn, webClock, webRegime, webVisits>>
    BY <1>1, <1>2 DEF LoginAnswer, Request
  <1>5. ASSUME IssueToken(w.who, Issuing), Sets(c, [w EXCEPT !.login = Issuing], cookies), UNCHANGED webFaults
        PROVE  WebOK'
    <2>1. Issuing \in Nat
      BY FreshRequests DEF Issuing
    <2>2. /\ Issuing \in Tokens /\ Len(issued') = Issuing /\ Issuing = Len(issued) + 1
          /\ \A v \in Request : RequestInv(v) => RequestInv(v)'
      BY <1>4, <1>5, <2>1, TokenIssued
    <2>3. PICK x : x = [w EXCEPT !.login = Issuing, !.at = "answer", !.sets = cookies]
      OBVIOUS
    <2>4. cookies \in Cookies /\ cookies # NoCookies
      BY <1>3, <2>2, FreshRequests DEF Cookies, NoCookies, NoToken
    <2>5. x \in Request
      BY <1>4, <2>2, <2>3, <2>4 DEF Request
    <2>6. /\ x.at = "answer" /\ x.sets = cookies /\ x.source = w.source /\ x.who = w.who /\ x.token = w.token
          /\ x.refresh = w.refresh /\ x.rejected = w.rejected
      BY <1>4, <2>3 DEF Request
    <2>7. RequestInv(w)'
      BY <1>4, <2>2
    <2>8. Pair(x.sets.access, x.sets.refresh)'
      BY <1>1, <1>3, <1>4, <2>1, <2>2, <2>6, RegimeTypes, FreshRequests DEF Pair, NoToken
    <2>9. RequestInv(x)'
      BY <1>3, <1>4, <2>2, <2>6, <2>7, <2>8, FreshRequests DEF RequestInv, NoToken
    <2>10. PICK calls : calls = [webCall EXCEPT ![c] = x]
      OBVIOUS
    <2>11. webCall' = calls /\ calls \in [WebCalls -> Request]
      BY <1>1, <1>5, <2>3, <2>5, <2>10 DEF Sets, Become
    <2>12. ASSUME NEW d \in WebCalls PROVE RequestInv(calls[d])'
      <3>1. PICK y \in Request : y = webCall[d] /\ RequestInv(y)
        BY <1>1
      <3>2. CASE d = c
        BY <1>1, <2>9, <2>10, <3>2 DEF RequestInv, Pair
      <3>3. CASE d # c
        <4>1. calls[d] = y /\ RequestInv(y)'
          BY <1>1, <2>2, <2>10, <3>1, <3>3
        <4> QED
          BY <4>1 DEF RequestInv, Pair
      <3> QED
        BY <3>2, <3>3
    <2> QED
      BY <1>1, <1>4, <1>5, <2>1, <2>11, <2>12, TokenStep
  <1>6. ASSUME WebFault, Closed(c), UNCHANGED issued PROVE WebOK'
    BY <1>1, <1>4, <1>6, FaultLeft, FreshRequests, RequestStep DEF Closed
  <1> QED
    BY <1>2, <1>3, <1>5, <1>6 DEF LoginAnswer

LEMMA RefreshAnswerWeb ==
  ASSUME WebOK, NEW c \in WebCalls, RefreshAnswer(c)
  PROVE  WebOK'
  <1>1. /\ webCall \in [WebCalls -> Request] /\ \A d \in WebCalls : RequestInv(webCall[d])
        /\ minting \in BOOLEAN /\ webFaults \in Nat /\ webRegime \in WebRegimes
    BY DEF WebOK, WebTypeOK, WebInv
  <1>2. PICK w : w = webCall[c]
    OBVIOUS
  <1>3. PICK r : r = issued[w.refresh]
    OBVIOUS
  <1>4. /\ w \in Request /\ RequestInv(w) /\ w.at = "rotate" /\ w.source = "cookie" /\ w.refresh # 0
        /\ w.refresh \in Tokens /\ w.token \in Tokens /\ w.rejected \in Tokens /\ w.who \in Persons \cup {ServiceAccount}
        /\ UNCHANGED <<endedLogins, jar, cachedToken, minting, signedIn, webClock, webRegime, webVisits>>
    BY <1>1, <1>2 DEF RefreshAnswer, Request, RequestInv, NoToken
  <1>5. /\ w.refresh \in DOMAIN issued /\ w.token \in DOMAIN issued /\ webRegime.refresh
        /\ issued[w.refresh].login = issued[w.token].login /\ issued[w.token].who = w.who
    <2>1. /\ w.refresh <= Len(issued) /\ w.token <= Len(issued) /\ w.token # 0 /\ webRegime.refresh
          /\ issued[w.refresh].login = issued[w.token].login /\ issued[w.token].who = w.who
      BY <1>4 DEF RequestInv, Pair, NoToken
    <2>2. DOMAIN issued = 1..Len(issued) /\ webRegime.tokens \in Nat
      BY LenProperties, RegimeTypes, <1>1 DEF WebOK, WebTypeOK
    <2> QED
      BY <1>4, <2>1, <2>2, FreshRequests DEF Tokens
  <1>6. r.who = w.who /\ r.login \in Nat
    BY <1>3, <1>4, <1>5, TokenRow DEF WebOK, WebInv, OneHolder
  <1>7. ASSUME IssueToken(r.who, r.login), Become(c, [Rotated(w) EXCEPT !.at = "resend"]), UNCHANGED webFaults
        PROVE  WebOK'
    <2>1. r.who \in Persons \cup {ServiceAccount} /\ \E t \in DOMAIN issued : issued[t].login = r.login /\ issued[t].who = r.who
      BY <1>3, <1>4, <1>5, <1>6
    <2>2. /\ Issuing \in Tokens /\ Issuing \in Nat /\ Len(issued') = Issuing /\ Issuing = Len(issued) + 1
          /\ issued'[Issuing].who = r.who
          /\ \A v \in Request : RequestInv(v) => RequestInv(v)'
      BY <1>4, <1>6, <1>7, <2>1, TokenIssued
    <2>3. PICK x : x = [w EXCEPT !.token = Issuing, !.refresh = Issuing, !.at = "resend"]
      OBVIOUS
    <2>4. x \in Request
      BY <1>4, <2>2, <2>3 DEF Request
    <2>5. /\ x.at = "resend" /\ x.source = "cookie" /\ x.who = w.who /\ x.token = Issuing
          /\ x.refresh = Issuing /\ x.rejected = w.rejected /\ w.rejected \in Nat /\ w.rejected <= Len(issued)
      BY <1>1, <1>4, <2>3, RegimeTypes DEF Request, RequestInv, Tokens
    <2>6. Pair(x.token, x.refresh)'
      BY <1>4, <1>5, <2>2, <2>5, FreshRequests DEF Pair, NoToken
    <2>7. x.token # 0 /\ x.token > x.rejected /\ x.token <= Len(issued') /\ x.rejected <= Len(issued')
      BY <2>2, <2>5, FreshRequests
    <2>8. RequestInv(x)'
      BY <1>6, <2>2, <2>5, <2>6, <2>7 DEF RequestInv, NoToken
    <2>9. PICK calls : calls = [webCall EXCEPT ![c] = x]
      OBVIOUS
    <2>10. webCall' = calls /\ calls \in [WebCalls -> Request]
      BY <1>1, <1>7, <2>3, <2>4, <2>9 DEF Become, Rotated
    <2>11. ASSUME NEW d \in WebCalls PROVE RequestInv(calls[d])'
      <3>1. PICK y \in Request : y = webCall[d] /\ RequestInv(y)
        BY <1>1
      <3>2. CASE d = c
        BY <1>1, <2>8, <2>9, <3>2 DEF RequestInv, Pair
      <3>3. CASE d # c
        <4>1. calls[d] = y /\ RequestInv(y)'
          BY <1>1, <2>2, <2>9, <3>1, <3>3
        <4> QED
          BY <4>1 DEF RequestInv, Pair
      <3> QED
        BY <3>2, <3>3
    <2> QED
      BY <1>1, <1>4, <1>6, <1>7, <2>1, <2>10, <2>11, TokenStep
  <1>8. ASSUME Sets(c, w, NoCookies), UNCHANGED issued, WebFault \/ UNCHANGED webFaults PROVE WebOK'
    <2>1. PICK x : x = [w EXCEPT !.at = "answer", !.sets = NoCookies]
      OBVIOUS
    <2>2. Become(c, x)
      BY <1>8, <2>1 DEF Sets
    <2>3. x \in Request /\ RequestInv(x)
      BY <1>4, <2>1, Cleared
    <2> QED
      BY <1>1, <1>4, <1>8, <2>2, <2>3, FaultLeft, FreshRequests, RequestStep
  <1> QED
    BY <1>2, <1>3, <1>7, <1>8 DEF RefreshAnswer

LEMMA MintAnswerWeb ==
  ASSUME WebOK, MintAnswer
  PROVE  WebOK'
  <1>1. /\ webCall \in [WebCalls -> Request] /\ \A d \in WebCalls : RequestInv(webCall[d])
        /\ webFaults \in Nat /\ webRegime \in WebRegimes
    BY DEF WebOK, WebTypeOK, WebInv
  <1>2. UNCHANGED <<endedLogins, jar, signedIn, webClock, webRegime, webVisits>> /\ minting' = FALSE
    BY DEF MintAnswer
  <1>3. ASSUME IssueToken(ServiceAccount, Issuing), cachedToken' = Issuing, UNCHANGED webFaults,
               webCall' = [c \in WebCalls |-> Awaited(webCall[c], Issuing)]
        PROVE  WebOK'
    <2>1. Issuing \in Nat
      BY FreshRequests DEF Issuing
    <2>2. /\ Issuing \in Tokens /\ Len(issued') = Issuing /\ Issuing = Len(issued) + 1 /\ Len(issued) \in Nat
          /\ \A v \in Request : RequestInv(v) => RequestInv(v)'
      BY <1>2, <1>3, <2>1, TokenIssued
    <2>3. PICK calls : calls = [c \in WebCalls |-> Awaited(webCall[c], Issuing)]
      OBVIOUS
    <2>4. ASSUME NEW d \in WebCalls PROVE calls[d] \in Request /\ RequestInv(calls[d])'
      <3>1. PICK w \in Request : w = webCall[d] /\ RequestInv(w)
        BY <1>1
      <3>2. RequestInv(w)'
        BY <2>2, <3>1
      <3>3. PICK x : x = Awaited(w, Issuing)
        OBVIOUS
      <3>4. CASE w.at # "mint"
        <4>1. calls[d] = w
          BY <2>3, <3>1, <3>4 DEF Awaited
        <4> QED
          BY <3>2, <4>1 DEF RequestInv, Pair
      <3>5. CASE w.at = "mint"
        <4>1. x = [w EXCEPT !.token = Issuing, !.at = IF w.rejected # NoToken THEN "resend" ELSE "send"]
          BY <2>2, <3>3, <3>5 DEF Awaited, NoToken
        <4>2. x \in Request
          BY <2>2, <4>1 DEF Request
        <4>3. /\ x.at \in {"resend", "send"} /\ w.source = "minted" /\ x.source = "minted" /\ x.token = Issuing /\ x.refresh = w.refresh
              /\ x.rejected = w.rejected /\ w.rejected \in Nat /\ w.rejected <= Len(issued)
          BY <1>1, <3>1, <3>5, <4>1, RegimeTypes DEF Request, RequestInv, Tokens
        <4>4. x.token > x.rejected /\ x.token <= Len(issued') /\ x.rejected <= Len(issued')
          BY <2>1, <2>2, <4>3
        <4>5. RequestInv(x)'
          BY <3>2, <4>3, <4>4 DEF RequestInv
        <4>6. calls[d] = x
          BY <2>3, <3>1, <3>3
        <4> QED
          BY <4>2, <4>5, <4>6 DEF RequestInv, Pair
      <3> QED
        BY <3>4, <3>5
    <2>5. calls \in [WebCalls -> Request]
      BY <2>3, <2>4
    <2>6. minting' \in BOOLEAN
      BY <1>2
    <2> QED
      BY <1>1, <1>2, <1>3, <2>1, <2>3, <2>4, <2>5, <2>6, TokenStep
  <1>4. ASSUME WebFault, UNCHANGED <<issued, cachedToken>>,
               webCall' = [c \in WebCalls |-> Awaited(webCall[c], NoToken)]
        PROVE  WebOK'
    <2>1. \A d \in WebCalls : Awaited(webCall[d], NoToken) \in {webCall[d], NoWebCall}
      BY DEF Awaited
    <2>2. webCall' \in [WebCalls -> Request] /\ \A d \in WebCalls : RequestInv(webCall'[d])
      BY <1>1, <1>4, <2>1, FreshRequests
    <2>3. /\ jar' \in Cookies /\ Pair(jar'.access, jar'.refresh) /\ endedLogins' \subseteq Tokens
          /\ signedIn' \in Tokens /\ webClock' \in Nat /\ webVisits' \in Nat
      BY <1>2 DEF WebOK, WebTypeOK, WebInv
    <2>4. minting' \in BOOLEAN
      BY <1>2
    <2> QED
      BY <1>2, <1>4, <2>2, <2>3, <2>4, FaultLeft, CookieStep
  <1> QED
    BY <1>3, <1>4 DEF MintAnswer

LEMMA NextWeb ==
  ASSUME WebOK, [WebNext]_webVars
  PROVE  WebOK'
  <1>1. CASE UNCHANGED webVars
    <2>1. UNCHANGED <<issued, endedLogins, jar, cachedToken, minting, webCall, signedIn, webClock, webRegime,
                      webVisits, webFaults>>
      BY <1>1 DEF webVars
    <2>2. /\ webCall' \in [WebCalls -> Request] /\ \A d \in WebCalls : RequestInv(webCall'[d])
          /\ jar' \in Cookies /\ Pair(jar'.access, jar'.refresh) /\ endedLogins' \subseteq Tokens /\ minting' \in BOOLEAN
          /\ signedIn' \in Tokens /\ webClock' \in Nat /\ webVisits' \in Nat /\ webFaults' \in Nat
      BY <2>1 DEF WebOK, WebTypeOK, WebInv
    <2> QED
      BY <2>1, <2>2, CookieStep
  <1>2. ASSUME WebNext PROVE WebOK'
    BY <1>2, BrowserWeb, MintAnswerWeb, LoginWeb, LoginAnswerWeb, SendOnceWeb, RefreshAnswerWeb, ResendOnceWeb
       DEF WebNext
  <1> QED
    BY <1>1, <1>2

\* Every token belongs to one login, and what a request or the browser keeps
\* together is of one login.
THEOREM WebCorrect == WebSpec => [](WebTypeOK /\ WebInv)
  <1>1. WebOK /\ [WebNext]_webVars => WebOK'
    BY NextWeb
  <1>2. WebOK <=> WebTypeOK /\ WebInv
    BY DEF WebOK
  <1> QED
    BY InitWeb, <1>1, <1>2, PTL DEF WebSpec

\* What the proxy sends is the caller's own token and, after a 401, a newer one.
THEOREM ProxySendsOwnToken == WebSpec => []OwnFreshToken
  <1>1. WebTypeOK /\ WebInv => OwnFreshToken
    BY DEF WebInv, RequestInv, Pair, OwnFreshToken, OwnIdentity, RetryIsFresh
  <1> QED
    BY <1>1, WebCorrect, PTL

LEMMA WiderSeq ==
  ASSUME NEW S, NEW T, S \subseteq T, NEW s \in Seq(S)
  PROVE  s \in Seq(T)
  <1>1. s \in [1..Len(s) -> S] /\ Len(s) \in Nat
    BY LenProperties
  <1> QED
    BY <1>1

\* A new token comes last and takes nothing away.
LEMMA Appended ==
  ASSUME WebOK, NEW who, NEW login, IssueToken(who, login)
  PROVE  /\ Issuing \notin DOMAIN issued /\ DOMAIN issued' = DOMAIN issued \cup {Issuing} /\ issued'[Issuing].login = login
         /\ Issuing \in Nat \ {0}
         /\ \A t \in DOMAIN issued : t \in Nat \ {0} /\ t < Issuing /\ issued'[t] = issued[t]
  <1>1. PICK S : issued \in Seq(S)
    BY DEF WebOK, WebTypeOK
  <1>2. PICK row : row = [who |-> who, login |-> login, at |-> webClock]
    OBVIOUS
  <1>3. issued' = Append(issued, row) /\ Issuing = Len(issued) + 1 /\ row.login = login
    BY <1>2 DEF IssueToken, Issuing
  <1>4. PICK T : T = S \cup {row}
    OBVIOUS
  <1>5. issued \in Seq(T) /\ row \in T
    BY <1>1, <1>4, WiderSeq
  <1>6. Len(issued) \in Nat /\ DOMAIN issued = 1..Len(issued)
    BY <1>5, LenProperties
  <1>7. /\ issued' \in Seq(T) /\ Len(issued') = Len(issued) + 1 /\ issued'[Len(issued) + 1] = row
        /\ \A t \in 1..Len(issued) : issued'[t] = issued[t]
    BY <1>3, <1>5, AppendProperties
  <1>8. DOMAIN issued' = 1..(Len(issued) + 1)
    BY <1>7, LenProperties
  <1> QED
    BY <1>3, <1>6, <1>7, <1>8

\* The session that a pair of cookies is of.
LEMMA OfSession ==
  ASSUME WebOK, NEW k \in Cookies, Pair(k.access, k.refresh), k # NoCookies, NEW login, StandFor(k, login)
  PROVE  /\ k.access \in DOMAIN issued /\ k.refresh \in DOMAIN issued
         /\ issued[k.access].login = login /\ issued[k.refresh].login = login
         /\ login \in Nat /\ login # Issuing /\ k.refresh # 0
  <1>1. k.refresh # 0 /\ issued[k.access].login = login
    BY DEF StandFor, NoToken
  <1>2. /\ k.access # 0 /\ k.access <= Len(issued) /\ k.refresh <= Len(issued)
        /\ issued[k.refresh].login = issued[k.access].login
    BY <1>1 DEF Pair, NoToken
  <1>3. k.access \in Nat /\ k.refresh \in Nat /\ Len(issued) \in Nat /\ DOMAIN issued = 1..Len(issued)
    BY RegimeTypes, LenProperties DEF Cookies, Tokens, WebOK, WebTypeOK
  <1>4. k.access \in DOMAIN issued /\ k.refresh \in DOMAIN issued
    BY <1>1, <1>2, <1>3
  <1>5. login \in Nat /\ login <= k.access
    BY <1>1, <1>4, TokenRow DEF WebOK, WebInv, OneHolder
  <1>6. login # Issuing
    BY <1>2, <1>3, <1>5 DEF Issuing
  <1> QED
    BY <1>1, <1>2, <1>4, <1>5, <1>6

\* Sessions end and tokens of other sessions are issued.
LEMMA StandKept ==
  ASSUME WebOK, NEW k \in Cookies, Pair(k.access, k.refresh), NEW login, StandFor(k, login),
         UNCHANGED webRegime, endedLogins \subseteq endedLogins',
         UNCHANGED issued \/ \E who, other : IssueToken(who, other) /\ (other = Issuing \/ other # login)
  PROVE  StandFor(k, login)'
  <1>1. CASE k = NoCookies
    BY <1>1 DEF StandFor
  <1>2. CASE k # NoCookies
    <2>1. k.access \in DOMAIN issued /\ login # Issuing /\ k.refresh # NoToken
      BY <1>2, OfSession DEF NoToken
    <2>2. issued[k.access].login = login /\ (webRegime.revoke => \A u \in DOMAIN issued : k.refresh < u => issued[u].login # login)
      BY <1>2 DEF StandFor
    <2>3. CASE UNCHANGED issued
      BY <1>2, <2>1, <2>2, <2>3 DEF StandFor
    <2>4. ASSUME NEW who, NEW other, IssueToken(who, other), other = Issuing \/ other # login PROVE StandFor(k, login)'
      <3>1. /\ DOMAIN issued' = DOMAIN issued \cup {Issuing} /\ issued'[Issuing].login = other
            /\ \A t \in DOMAIN issued : issued'[t] = issued[t]
        BY <2>4, Appended
      <3>2. other # login
        BY <2>1, <2>4
      <3>3. \A u \in DOMAIN issued' : u = Issuing => issued'[u].login # login
        BY <3>1, <3>2
      <3>4. webRegime.revoke => \A u \in DOMAIN issued' : k.refresh < u => issued'[u].login # login
        BY <2>2, <3>1, <3>3
      <3> QED
        BY <1>2, <2>1, <2>2, <3>1, <3>4 DEF StandFor
    <2> QED
      BY <2>3, <2>4
  <1> QED
    BY <1>1, <1>2

\* One request at a time, and nobody failing.
FollowOK == WebOK /\ SessionInv /\ Undisturbed

\* The only request there is.
LEMMA TheCall ==
  ASSUME FollowOK, NEW c \in WebCalls, webCall[c] # NoWebCall \/ c \in webRegime.calls
  PROVE  /\ webRegime.calls = {c} /\ webRegime.refresh /\ webFaults = 0 /\ ~WebFault
         /\ webCall[c] \in Request /\ RequestInv(webCall[c]) /\ CallFollows(webCall[c])
         /\ jar \in Cookies /\ Pair(jar.access, jar.refresh)
  <1>1. c \in webRegime.calls /\ CallFollows(webCall[c]) /\ webFaults = 0
    BY DEF FollowOK, SessionInv
  <1>2. webRegime.calls = {c} /\ webRegime.refresh
    BY <1>1 DEF FollowOK, Undisturbed
  <1>3. ~WebFault
    BY <1>1 DEF WebFault
  <1> QED
    BY <1>1, <1>2, <1>3 DEF FollowOK, WebOK, WebTypeOK, WebInv

\* What a step of the only request has to show.
LEMMA OneStep ==
  ASSUME FollowOK, NEW c \in WebCalls, webCall[c] # NoWebCall \/ c \in webRegime.calls,
         NEW x, Become(c, x), UNCHANGED <<webRegime, webFaults>>, CallFollows(x)'
  PROVE  SessionInv'
  <1>1. webRegime'.calls = {c} /\ webFaults' = 0
    BY TheCall
  <1>2. webCall' = [webCall EXCEPT ![c] = x] /\ webCall \in [WebCalls -> Request]
    BY DEF Become, FollowOK, WebOK, WebTypeOK
  <1>3. webCall'[c] = x /\ \A d \in WebCalls \ {c} : webCall'[d] = webCall[d]
    BY <1>2
  <1>4. CallFollows(webCall[c])'
    BY <1>3 DEF CallFollows, Replacing, LoginAfter, StandFor
  <1>5. \A d \in WebCalls \ {c} : webCall'[d] = NoWebCall
    BY <1>1, <1>3 DEF FollowOK, SessionInv
  <1> QED
    BY <1>1, <1>4, <1>5 DEF SessionInv

\* The request is over and the browser's cookies stand for the login.
LEMMA Over ==
  ASSUME StandFor(jar, signedIn)'
  PROVE  CallFollows(NoWebCall)'
  BY DEF CallFollows, NoWebCall

LEMMA SameStand ==
  ASSUME UNCHANGED <<issued, endedLogins, webRegime>>
  PROVE  \A k, login : StandFor(k, login)' <=> StandFor(k, login)
  BY DEF StandFor

LEMMA ArrivalsFollow ==
  ASSUME FollowOK, NEW c \in WebCalls, (\E p \in webRegime.people : Login(c, p)) \/ Logout(c) \/ Resolve(c)
  PROVE  SessionInv'
  <1>1. /\ c \in webRegime.calls /\ webCall[c] = NoWebCall
        /\ UNCHANGED <<issued, endedLogins, jar, signedIn, webRegime, webFaults>>
    <2>1. CASE \E p \in webRegime.people : Login(c, p)
      <3>1. PICK p \in webRegime.people : Login(c, p)
        BY <2>1
      <3> QED
        BY <3>1, Zenon DEF Login, WebArrives
    <2>2. CASE Logout(c)
      BY <2>2 DEF Logout, WebArrives
    <2>3. CASE Resolve(c)
      BY <2>3 DEF Resolve, WebArrives
    <2> QED
      BY <2>1, <2>2, <2>3
  <1>2. StandFor(jar, signedIn) /\ jar \in Cookies
    <2>1. NoWebCall.at = "idle"
      BY DEF NoWebCall
    <2>2. CallFollows(NoWebCall) /\ jar \in Cookies
      BY <1>1, TheCall
    <2> QED
      BY <2>1, <2>2 DEF CallFollows, Replacing
  <1>3. ASSUME NEW p \in webRegime.people, Login(c, p) PROVE SessionInv'
    <2>1. PICK x : x = [NoWebCall EXCEPT !.at = "login", !.who = p]
      OBVIOUS
    <2>2. x.at = "login" /\ x.source = "none"
      BY <2>1 DEF NoWebCall
    <2>3. CallFollows(x)'
      BY <1>1, <1>2, <2>2, SameStand DEF CallFollows, Replacing
    <2>4. Become(c, x)
      BY <1>3, <2>1, Zenon DEF Login, Become
    <2> QED
      BY <1>1, <2>3, <2>4, OneStep
  <1>4. CASE Logout(c)
    <2>1. PICK x : x = [[NoWebCall EXCEPT !.source = "logout"] EXCEPT !.at = "answer", !.sets = NoCookies]
      OBVIOUS
    <2>2. x.at = "answer" /\ x.source = "logout" /\ x.sets = NoCookies /\ x.login = 0
      BY <2>1 DEF NoWebCall
    <2>3. StandFor(NoCookies, 0)'
      BY DEF StandFor
    <2>4. CallFollows(x)'
      <3>1. LoginAfter(x)' = 0
        BY <2>2 DEF LoginAfter
      <3> QED
        BY <2>2, <2>3, <3>1 DEF CallFollows, Replacing
    <2>5. Become(c, x)
      BY <1>4, <2>1 DEF Logout, Sets
    <2> QED
      BY <1>1, <2>4, <2>5, OneStep
  <1>5. CASE Resolve(c)
    <2>1. PICK x : x = IF jar.access # NoToken
                       THEN [NoWebCall EXCEPT !.at = "send", !.source = "cookie", !.who = issued[jar.access].who,
                                              !.token = jar.access, !.refresh = jar.refresh]
                       ELSE [NoWebCall EXCEPT !.at = "token", !.source = "minted"]
      OBVIOUS
    <2>2. Become(c, x)
      BY <1>5, <2>1 DEF Resolve
    <2>3. /\ x.source = "cookie" => x.at = "send" /\ x.token = jar.access /\ x.refresh = jar.refresh /\ x.login = 0
          /\ x.source \in {"cookie", "minted"} /\ x.at \in {"send", "token"}
      BY <2>1 DEF NoWebCall
    <2>4. x.source = "cookie" => [access |-> x.token, refresh |-> x.refresh] = jar
      BY <1>2, <2>3 DEF Cookies
    <2>5. CallFollows(x)'
      BY <1>1, <1>2, <2>3, <2>4, SameStand DEF CallFollows, Replacing
    <2> QED
      BY <1>1, <2>2, <2>5, OneStep
  <1> QED
    BY <1>3, <1>4, <1>5

LEMMA LoginFollows ==
  ASSUME FollowOK, NEW c \in WebCalls, LoginAnswer(c)
  PROVE  SessionInv'
  <1>1. PICK w : w = webCall[c]
    OBVIOUS
  <1>2. w.at = "login" /\ w # NoWebCall
    BY <1>1 DEF LoginAnswer, NoWebCall
  <1>3. /\ w \in Request /\ webRegime.refresh /\ ~WebFault /\ w.source = "none"
    BY <1>1, <1>2, TheCall DEF CallFollows
  <1>4. PICK k : k = [access |-> Issuing, refresh |-> Issuing]
    OBVIOUS
  <1>5. PICK x : x = [[w EXCEPT !.login = Issuing] EXCEPT !.at = "answer", !.sets = k]
    OBVIOUS
  <1>6. IssueToken(w.who, Issuing) /\ Become(c, x) /\ UNCHANGED <<webRegime, webFaults>>
    BY <1>1, <1>3, <1>4, <1>5 DEF LoginAnswer, Sets
  <1>7. x.at = "answer" /\ x.source = "none" /\ x.login = Issuing /\ x.sets = k
    BY <1>3, <1>5 DEF Request
  <1>8. /\ DOMAIN issued' = DOMAIN issued \cup {Issuing} /\ issued'[Issuing].login = Issuing /\ Issuing \in Nat \ {0}
        /\ \A t \in DOMAIN issued : t \in Nat /\ t < Issuing
    BY <1>6, Appended DEF FollowOK
  <1>9. k.access = Issuing /\ k.refresh = Issuing
    BY <1>4
  <1>10. k # NoCookies
    BY <1>8, <1>9 DEF NoCookies, NoToken
  <1>11. \A u \in DOMAIN issued' : ~(Issuing < u)
    BY <1>8
  <1>12. StandFor(k, x.login)'
    BY <1>7, <1>8, <1>9, <1>10, <1>11 DEF StandFor, NoToken
  <1>13. CallFollows(x)'
    BY <1>7, <1>8, <1>12 DEF CallFollows, Replacing, LoginAfter
  <1> QED
    BY <1>1, <1>2, <1>6, <1>13, OneStep

LEMMA BrowserFollows ==
  ASSUME FollowOK, NEW c \in WebCalls, BrowserApplies(c)
  PROVE  SessionInv'
  <1>1. PICK w : w = webCall[c]
    OBVIOUS
  <1>2. w.at = "answer" /\ w # NoWebCall /\ Become(c, NoWebCall)
        /\ UNCHANGED <<issued, endedLogins, webRegime, webFaults>>
    BY <1>1 DEF BrowserApplies, NoWebCall, Closed
  <1>3. RequestInv(w) /\ webRegime.refresh /\ StandFor(w.sets, LoginAfter(w))
    BY <1>1, <1>2, TheCall DEF CallFollows
  <1>4. w.sets # NoCookies => w.sets.refresh # NoToken
    BY <1>2, <1>3 DEF RequestInv
  <1>5. jar' = w.sets /\ signedIn' = LoginAfter(w)
    BY <1>1, <1>4 DEF BrowserApplies, LoginAfter
  <1>6. StandFor(jar, signedIn)'
    BY <1>2, <1>3, <1>5 DEF StandFor
  <1> QED
    BY <1>1, <1>2, <1>6, Over, OneStep

\* A step of a request that keeps to its source and to the cookies it has.
LEMMA SendFollows ==
  ASSUME FollowOK, NEW c \in WebCalls, SendOnce(c)
  PROVE  SessionInv'
  <1>1. PICK w : w = webCall[c]
    OBVIOUS
  <1>2. w.at = "send" /\ w # NoWebCall /\ UNCHANGED <<issued, endedLogins, jar, signedIn, webRegime>>
    BY <1>1 DEF SendOnce, NoWebCall
  <1>3. /\ w \in Request /\ RequestInv(w) /\ ~WebFault /\ StandFor(jar, signedIn) /\ w.source \in {"cookie", "minted"}
        /\ w.source = "cookie" => w.login = 0 /\ StandFor([access |-> w.token, refresh |-> w.refresh], signedIn)
    BY <1>1, <1>2, TheCall DEF CallFollows, Replacing, RequestInv
  <1>4. webFaults' = webFaults /\ (Rejected(c, w) \/ Become(c, NoWebCall))
    BY <1>1, <1>3 DEF SendOnce, Closed
  <1>5. CASE Become(c, NoWebCall)
    <2>1. StandFor(jar, signedIn)'
      BY <1>2, <1>3 DEF StandFor
    <2> QED
      BY <1>1, <1>2, <1>4, <1>5, <2>1, Over, OneStep
  <1>6. CASE Rejected(c, w) /\ w.source = "minted"
    <2>1. PICK x : x = [w EXCEPT !.at = "token", !.rejected = w.token]
      OBVIOUS
    <2>2. x.at = "token" /\ x.source = "minted" /\ w.refresh = NoToken
      BY <1>3, <1>6, <2>1 DEF Request, RequestInv
    <2>3. CallFollows(x)'
      BY <1>2, <1>3, <2>2, SameStand DEF CallFollows, Replacing
    <2>4. Become(c, x)
      BY <1>6, <2>1, <2>2 DEF Rejected
    <2> QED
      BY <1>1, <1>2, <1>4, <2>3, <2>4, OneStep
  <1>7. CASE Rejected(c, w) /\ w.source = "cookie"
    <2>1. w.token # NoToken
      BY <1>3, <1>7 DEF RequestInv
    <2>2. [access |-> w.token, refresh |-> w.refresh] # NoCookies
      BY <2>1 DEF NoCookies
    <2>3. w.refresh # NoToken
      BY <1>3, <1>7, <2>2 DEF StandFor
    <2>4. PICK x : x = [w EXCEPT !.at = "rotate", !.rejected = w.token]
      OBVIOUS
    <2>5. x.at = "rotate" /\ x.source = "cookie" /\ x.login = w.login /\ x.token = w.token /\ x.refresh = w.refresh
      BY <1>3, <1>7, <2>4 DEF Request
    <2>6. CallFollows(x)'
      <3>1. StandFor([access |-> x.token, refresh |-> x.refresh], signedIn)
        BY <1>3, <1>7, <2>5
      <3>2. StandFor([access |-> x.token, refresh |-> x.refresh], signedIn)' /\ StandFor(jar, signedIn)'
        BY <1>2, <1>3, <3>1 DEF StandFor
      <3>3. x.login = 0
        BY <1>3, <1>7, <2>5
      <3> QED
        BY <2>5, <3>2, <3>3 DEF CallFollows, Replacing
    <2>7. Become(c, x)
      BY <1>7, <2>3, <2>4 DEF Rejected
    <2> QED
      BY <1>1, <1>2, <1>4, <2>6, <2>7, OneStep
  <1> QED
    BY <1>3, <1>4, <1>5, <1>6, <1>7

\* The rotation: a new pair of the same session, or the end of a session that
\* is over.
LEMMA RotationFollows ==
  ASSUME FollowOK, NEW c \in WebCalls, RefreshAnswer(c)
  PROVE  SessionInv'
  <1>1. PICK w : w = webCall[c]
    OBVIOUS
  <1>2. PICK k : k = [access |-> w.token, refresh |-> w.refresh]
    OBVIOUS
  <1>3. w.at = "rotate" /\ w # NoWebCall /\ UNCHANGED <<endedLogins, jar, signedIn, webRegime>>
    BY <1>1 DEF RefreshAnswer, NoWebCall
  <1>4. /\ w \in Request /\ RequestInv(w) /\ ~WebFault /\ w.source = "cookie" /\ w.login = 0 /\ w.token # NoToken
        /\ StandFor(k, signedIn) /\ Pair(w.token, w.refresh)
    BY <1>1, <1>2, <1>3, TheCall DEF CallFollows, RequestInv
  <1>5. k \in Cookies /\ k # NoCookies /\ k.access = w.token /\ k.refresh = w.refresh
    BY <1>2, <1>4 DEF Cookies, Request, NoCookies
  <1>6. w.refresh \in DOMAIN issued /\ issued[w.refresh].login = signedIn
    BY <1>4, <1>5, OfSession DEF FollowOK
  <1>7. CASE /\ IssueToken(issued[w.refresh].who, issued[w.refresh].login)
             /\ Become(c, [Rotated(w) EXCEPT !.at = "resend"]) /\ webFaults' = webFaults
    <2>1. PICK x : x = [Rotated(w) EXCEPT !.at = "resend"]
      OBVIOUS
    <2>2. x.at = "resend" /\ x.source = "cookie" /\ x.login = 0 /\ x.token = Issuing /\ x.refresh = Issuing
      BY <1>4, <2>1 DEF Request, Rotated
    <2>3. /\ DOMAIN issued' = DOMAIN issued \cup {Issuing} /\ issued'[Issuing].login = signedIn /\ Issuing \in Nat \ {0}
          /\ \A t \in DOMAIN issued : t \in Nat /\ t < Issuing
      BY <1>6, <1>7, Appended DEF FollowOK
    <2>4. PICK n : n = [access |-> Issuing, refresh |-> Issuing]
      OBVIOUS
    <2>5. n.access = Issuing /\ n.refresh = Issuing
      BY <2>4
    <2>6. n # NoCookies
      BY <2>3, <2>5 DEF NoCookies, NoToken
    <2>7. \A u \in DOMAIN issued' : ~(Issuing < u)
      BY <2>3
    <2>8. StandFor(n, signedIn)'
      BY <1>3, <2>3, <2>5, <2>6, <2>7 DEF StandFor, NoToken
    <2>9. [access |-> x.token, refresh |-> x.refresh] = n
      BY <2>2, <2>4
    <2>10. CallFollows(x)'
      BY <2>2, <2>8, <2>9 DEF CallFollows, Replacing
    <2>11. Become(c, x)
      BY <1>7, <2>1
    <2> QED
      BY <1>1, <1>3, <1>7, <2>10, <2>11, OneStep
  <1>8. CASE ~Refreshable(w.refresh) /\ Sets(c, w, NoCookies) /\ UNCHANGED <<issued, webFaults>>
    <2>1. signedIn \in endedLogins
      <3>1. webRegime.revoke => \A u \in DOMAIN issued : w.refresh < u => issued[u].login # signedIn
        BY <1>4, <1>5 DEF StandFor
      <3>2. \A u \in (w.refresh + 1)..Len(issued) : u \in DOMAIN issued /\ w.refresh < u
        <4>1. DOMAIN issued = 1..Len(issued) /\ Len(issued) \in Nat
          BY LenProperties DEF FollowOK, WebOK, WebTypeOK
        <4> QED
          BY <1>6, <4>1
      <3> QED
        BY <1>6, <1>8, <3>1, <3>2 DEF Refreshable
    <2>2. PICK x : x = [w EXCEPT !.at = "answer", !.sets = NoCookies]
      OBVIOUS
    <2>3. x.at = "answer" /\ x.source = "cookie" /\ x.login = 0 /\ x.sets = NoCookies
      BY <1>4, <2>2 DEF Request
    <2>4. StandFor(NoCookies, signedIn)'
      BY <1>3, <2>1 DEF StandFor
    <2>5. CallFollows(x)'
      BY <1>3, <2>3, <2>4 DEF CallFollows, Replacing, LoginAfter
    <2>6. Become(c, x)
      BY <1>8, <2>2 DEF Sets
    <2> QED
      BY <1>1, <1>3, <1>8, <2>5, <2>6, OneStep
  <1> QED
    BY <1>1, <1>4, <1>7, <1>8 DEF RefreshAnswer

LEMMA ResendFollows ==
  ASSUME FollowOK, NEW c \in WebCalls, ResendOnce(c)
  PROVE  SessionInv'
  <1>1. PICK w : w = webCall[c]
    OBVIOUS
  <1>2. /\ w.at = "resend" /\ w # NoWebCall /\ UNCHANGED <<issued, endedLogins, jar, signedIn, webRegime>>
    BY <1>1 DEF ResendOnce, NoWebCall
  <1>3. w \in Request /\ ~WebFault /\ CallFollows(w)
    BY <1>1, <1>2, TheCall
  <1>4. webFaults' = webFaults
    BY <1>1, <1>3 DEF ResendOnce
  <1>5. CASE w.source = "cookie"
    <2>1. PICK k : k = [access |-> w.token, refresh |-> w.refresh]
      OBVIOUS
    <2>2. PICK x : x = [w EXCEPT !.at = "answer", !.sets = k]
      OBVIOUS
    <2>3. Become(c, x)
      BY <1>1, <1>3, <1>5, <2>1, <2>2 DEF ResendOnce, Sets
    <2>4. x.at = "answer" /\ x.source = "cookie" /\ x.login = w.login /\ x.sets = k
      BY <1>3, <1>5, <2>2 DEF Request
    <2>5. w.login = 0 /\ StandFor(k, signedIn)
      BY <1>2, <1>3, <1>5, <2>1 DEF CallFollows
    <2>6. StandFor(k, signedIn)'
      BY <1>2, <2>5 DEF StandFor
    <2>7. CallFollows(x)'
      <3>1. LoginAfter(x)' = signedIn'
        BY <2>4, <2>5 DEF LoginAfter
      <3>2. StandFor(x.sets, LoginAfter(x))'
        BY <2>4, <2>6, <3>1 DEF StandFor
      <3> QED
        BY <2>4, <2>5, <3>2 DEF CallFollows, Replacing
    <2> QED
      BY <1>1, <1>2, <1>4, <2>3, <2>7, OneStep
  <1>6. CASE w.source # "cookie"
    <2>1. Become(c, NoWebCall)
      BY <1>1, <1>3, <1>6 DEF ResendOnce, Closed
    <2>2. StandFor(jar, signedIn)
      BY <1>2, <1>3, <1>6 DEF CallFollows, Replacing
    <2>3. StandFor(jar, signedIn)'
      BY <1>2, <2>2 DEF StandFor
    <2> QED
      BY <1>1, <1>2, <1>4, <2>1, <2>3, Over, OneStep
  <1> QED
    BY <1>5, <1>6

\* What is known of a request is not disturbed from outside.
LEMMA CallKept ==
  ASSUME WebOK, NEW w \in Request, RequestInv(w), CallFollows(w),
         UNCHANGED <<webRegime, signedIn>>, endedLogins \subseteq endedLogins',
         UNCHANGED issued \/ \E who, other : IssueToken(who, other) /\ other = Issuing,
         StandFor(jar, signedIn) => StandFor(jar, signedIn)'
  PROVE  CallFollows(w)'
  <1>1. PICK login : login = LoginAfter(w)
    OBVIOUS
  <1>2. LoginAfter(w)' = login
    BY <1>1 DEF LoginAfter
  <1>3. PICK n : n = signedIn
    OBVIOUS
  <1>4. w.at = "answer" => StandFor(w.sets, LoginAfter(w))'
    <2> HAVE w.at = "answer"
    <2>1. PICK k : k = w.sets
      OBVIOUS
    <2>2. k \in Cookies /\ Pair(k.access, k.refresh) /\ StandFor(k, login)
      BY <1>1, <2>1 DEF CallFollows, RequestInv, Request
    <2>3. StandFor(k, login)'
      BY <2>2, StandKept
    <2> QED
      BY <1>2, <2>1, <2>3 DEF StandFor
  <1>5. w.source = "cookie" =>
          w.login = 0 /\ (w.at # "answer" => StandFor([access |-> w.token, refresh |-> w.refresh], signedIn)')
    <2> HAVE w.source = "cookie"
    <2>1. PICK k : k = [access |-> w.token, refresh |-> w.refresh]
      OBVIOUS
    <2>2. k \in Cookies /\ Pair(k.access, k.refresh) /\ w.login = 0 /\ (w.at # "answer" => StandFor(k, n))
      BY <1>3, <2>1 DEF CallFollows, RequestInv, Request, Cookies
    <2>3. w.at # "answer" => StandFor(k, n)'
      BY <2>2, StandKept
    <2> QED
      BY <1>3, <2>1, <2>2, <2>3 DEF StandFor
  <1>6. Replacing(w)' = Replacing(w)
    BY DEF Replacing
  <1> QED
    BY <1>4, <1>5, <1>6 DEF CallFollows

\* The service account's token is of a session of its own.
LEMMA TokenFollows ==
  ASSUME FollowOK, NEW c \in WebCalls, GetToken(c)
  PROVE  SessionInv'
  <1>1. PICK w : w = webCall[c]
    OBVIOUS
  <1>2. /\ w.at = "token" /\ w # NoWebCall /\ UNCHANGED <<issued, endedLogins, jar, signedIn, webRegime, webFaults>>
    BY <1>1 DEF GetToken, NoWebCall
  <1>3. w \in Request /\ w.source = "minted" /\ StandFor(jar, signedIn)
    BY <1>1, <1>2, TheCall DEF CallFollows, Replacing, RequestInv
  <1>4. StandFor(jar, signedIn)'
    BY <1>2, <1>3 DEF StandFor
  <1>5. ASSUME NEW x, Become(c, x), x.source = "minted", x.at \in {"send", "resend", "mint"} PROVE SessionInv'
    <2>1. CallFollows(x)'
      BY <1>4, <1>5 DEF CallFollows, Replacing
    <2> QED
      BY <1>1, <1>2, <1>5, <2>1, OneStep
  <1>6. PICK at : at = IF w.rejected # NoToken THEN "resend" ELSE "send"
    OBVIOUS
  <1>7. CASE Become(c, [w EXCEPT !.token = cachedToken, !.at = at])
    <2>1. PICK x : x = [w EXCEPT !.token = cachedToken, !.at = at]
      OBVIOUS
    <2>2. x.source = "minted" /\ x.at \in {"send", "resend"}
      BY <1>3, <1>6, <2>1 DEF Request
    <2>3. Become(c, x)
      BY <1>7, <2>1
    <2> QED
      BY <1>5, <2>2, <2>3
  <1>8. CASE Become(c, [w EXCEPT !.at = "mint"])
    <2>1. PICK x : x = [w EXCEPT !.at = "mint"]
      OBVIOUS
    <2>2. x.source = "minted" /\ x.at = "mint"
      BY <1>3, <2>1 DEF Request
    <2>3. Become(c, x)
      BY <1>8, <2>1
    <2> QED
      BY <1>5, <2>2, <2>3
  <1>9. Become(c, [w EXCEPT !.token = cachedToken, !.at = at]) \/ Become(c, [w EXCEPT !.at = "mint"])
    BY <1>1, <1>6 DEF GetToken
  <1> QED
    BY <1>7, <1>8, <1>9

LEMMA MintFollows ==
  ASSUME FollowOK, MintAnswer
  PROVE  SessionInv'
  <1>1. PICK c \in WebCalls : webRegime.calls = {c}
    BY DEF FollowOK, Undisturbed
  <1>2. PICK w : w = webCall[c]
    OBVIOUS
  <1>3. /\ w \in Request /\ RequestInv(w) /\ CallFollows(w) /\ ~WebFault /\ webFaults = 0
        /\ jar \in Cookies /\ Pair(jar.access, jar.refresh)
    BY <1>1, <1>2, TheCall
  <1>4. /\ IssueToken(ServiceAccount, Issuing) /\ webCall' = [d \in WebCalls |-> Awaited(webCall[d], Issuing)]
        /\ UNCHANGED <<endedLogins, jar, signedIn, webRegime, webFaults>>
    BY <1>3 DEF MintAnswer
  <1>5. ASSUME NEW d \in WebCalls \ {c} PROVE webCall'[d] = NoWebCall
    <2>1. webCall[d] = NoWebCall
      BY <1>1 DEF FollowOK, SessionInv
    <2> QED
      <3>1. NoWebCall.at # "mint"
        BY DEF NoWebCall
      <3>2. Awaited(NoWebCall, Issuing) = NoWebCall
        BY <3>1 DEF Awaited
      <3>3. webCall'[d] = Awaited(webCall[d], Issuing)
        BY <1>4
      <3> QED
        BY <2>1, <3>2, <3>3
  <1>6. StandFor(jar, signedIn) => StandFor(jar, signedIn)'
    <2>1. PICK k, login : k = jar /\ login = signedIn
      OBVIOUS
    <2>2. StandFor(k, login) => StandFor(k, login)'
      BY <1>3, <1>4, <2>1, StandKept DEF FollowOK
    <2> QED
      BY <1>4, <2>1, <2>2 DEF StandFor
  <1>7. CASE w.at = "mint"
    <2>1. PICK x : x = webCall'[c]
      OBVIOUS
    <2>2. x.source = "minted" /\ x.at \in {"send", "resend"}
      <3>1. Issuing # NoToken
        BY FreshRequests DEF FollowOK, Issuing, NoToken
      <3>2. x = [w EXCEPT !.token = Issuing, !.at = IF w.rejected # NoToken THEN "resend" ELSE "send"]
        <4>1. x = Awaited(w, Issuing)
          BY <1>2, <1>4, <2>1
        <4> QED
          BY <1>7, <3>1, <4>1 DEF Awaited
      <3> QED
        BY <1>3, <1>7, <3>2 DEF Request, RequestInv
    <2>3. StandFor(jar, signedIn)'
      BY <1>3, <1>6, <1>7 DEF CallFollows, Replacing
    <2>4. CallFollows(x)'
      BY <2>2, <2>3 DEF CallFollows, Replacing
    <2>5. CallFollows(webCall[c])'
      BY <2>1, <2>4 DEF CallFollows, Replacing, LoginAfter, StandFor
    <2> QED
      BY <1>1, <1>3, <1>4, <1>5, <2>5 DEF SessionInv
  <1>8. CASE w.at # "mint"
    <2>1. webCall'[c] = w
      <3>1. webCall'[c] = Awaited(w, Issuing)
        BY <1>2, <1>4
      <3> QED
        BY <1>8, <3>1 DEF Awaited
    <2>2. CallFollows(w)'
      BY <1>3, <1>4, <1>6, CallKept DEF FollowOK
    <2>3. CallFollows(webCall[c])'
      BY <2>1, <2>2 DEF CallFollows, Replacing, LoginAfter, StandFor
    <2> QED
      BY <1>1, <1>3, <1>4, <1>5, <2>3 DEF SessionInv
  <1> QED
    BY <1>7, <1>8

\* Time passes, Keycloak ends a session, the browser drops its cookies.
LEMMA OutsideFollows ==
  ASSUME FollowOK, PassTime \/ CookiesExpire \/ (\E t \in DOMAIN issued : LoginEnds(t)) \/ UNCHANGED webVars
  PROVE  SessionInv'
  <1>1. UNCHANGED <<issued, webCall, signedIn, webRegime, webFaults>> /\ endedLogins \subseteq endedLogins'
    <2>1. CASE PassTime \/ CookiesExpire \/ UNCHANGED webVars
      BY <2>1 DEF PassTime, CookiesExpire, webVars
    <2>2. ASSUME NEW t \in DOMAIN issued, LoginEnds(t) PROVE UNCHANGED <<issued, webCall, signedIn, webRegime, webFaults>> /\ endedLogins \subseteq endedLogins'
      BY <2>2 DEF LoginEnds
    <2> QED
      BY <2>1, <2>2
  <1>2. PICK c \in WebCalls : webRegime.calls = {c}
    BY DEF FollowOK, Undisturbed
  <1>3. PICK w : w = webCall[c]
    OBVIOUS
  <1>4. /\ w \in Request /\ RequestInv(w) /\ CallFollows(w) /\ webFaults = 0
        /\ jar \in Cookies /\ Pair(jar.access, jar.refresh)
    BY <1>2, <1>3, TheCall
  <1>5. StandFor(jar, signedIn) => StandFor(jar, signedIn)'
    <2> HAVE StandFor(jar, signedIn)
    <2>1. PICK k, login : k = jar /\ login = signedIn
      OBVIOUS
    <2>2. StandFor(k, login)'
      BY <1>1, <1>4, <2>1, StandKept DEF FollowOK
    <2>3. CASE jar' = jar
      BY <1>1, <2>1, <2>2, <2>3 DEF StandFor
    <2>4. CASE jar' # jar
      <3>1. jar' = NoCookies /\ jar # NoCookies /\ issued[jar.access].login \in endedLogins /\ endedLogins' = endedLogins
        <4>1. CookiesExpire
          <5>1. ~PassTime /\ ~UNCHANGED webVars
            BY <2>4 DEF PassTime, webVars
          <5>2. ASSUME NEW t \in DOMAIN issued PROVE ~LoginEnds(t)
            BY <2>4 DEF LoginEnds
          <5> QED
            BY <5>1, <5>2
        <4> QED
          BY <4>1 DEF CookiesExpire
      <3> QED
        BY <1>1, <3>1 DEF StandFor
    <2> QED
      BY <2>3, <2>4
  <1>6. CallFollows(w)'
    BY <1>1, <1>4, <1>5, CallKept DEF FollowOK
  <1>7. CallFollows(webCall[c])'
    BY <1>1, <1>3, <1>6 DEF CallFollows, Replacing, LoginAfter, StandFor
  <1>8. \A d \in WebCalls \ {c} : webCall'[d] = NoWebCall
    BY <1>1, <1>2 DEF FollowOK, SessionInv
  <1> QED
    BY <1>1, <1>2, <1>4, <1>7, <1>8 DEF SessionInv

LEMMA FollowsInit ==
  ASSUME WebInit
  PROVE  SessionInv
  <1>1. /\ jar = NoCookies /\ signedIn = 0 /\ webFaults = webRegime.faults /\ webCall = [c \in WebCalls |-> NoWebCall]
    BY DEF WebInit
  <1>2. StandFor(jar, signedIn)
    BY <1>1 DEF StandFor
  <1>3. CallFollows(NoWebCall)
    BY <1>2 DEF CallFollows, NoWebCall
  <1> QED
    BY <1>1, <1>3 DEF SessionInv, Undisturbed

LEMMA FollowsNext ==
  ASSUME WebOK, SessionInv, [WebNext]_webVars
  PROVE  SessionInv'
  <1>1. Undisturbed' <=> Undisturbed
    <2>1. webRegime' = webRegime
      <3>1. PassTime \/ CookiesExpire \/ MintAnswer \/ UNCHANGED webVars => webRegime' = webRegime
        BY DEF PassTime, CookiesExpire, MintAnswer, webVars
      <3>2. \A t : LoginEnds(t) => webRegime' = webRegime
        BY DEF LoginEnds
      <3>3. \A c, p : Login(c, p) => webRegime' = webRegime
        BY Zenon DEF Login
      <3>4. \A c : LoginAnswer(c) \/ Logout(c) \/ BrowserApplies(c) \/ Resolve(c) => webRegime' = webRegime
        BY DEF LoginAnswer, Logout, BrowserApplies, Resolve
      <3>5. \A c : GetToken(c) \/ SendOnce(c) \/ RefreshAnswer(c) \/ ResendOnce(c) => webRegime' = webRegime
        BY DEF GetToken, SendOnce, RefreshAnswer, ResendOnce
      <3> QED
        BY <3>1, <3>2, <3>3, <3>4, <3>5 DEF WebNext
    <2> QED
      BY <2>1 DEF Undisturbed
  <1>2. CASE ~Undisturbed
    BY <1>1, <1>2 DEF SessionInv
  <1>3. CASE Undisturbed
    <2>1. FollowOK
      BY <1>3 DEF FollowOK
    <2>2. CASE PassTime \/ CookiesExpire \/ (\E t \in DOMAIN issued : LoginEnds(t)) \/ UNCHANGED webVars
      BY <2>1, <2>2, OutsideFollows
    <2>3. CASE MintAnswer
      BY <2>1, <2>3, MintFollows
    <2>4. ASSUME NEW c \in WebCalls, (\E p \in webRegime.people : Login(c, p)) \/ Logout(c) \/ Resolve(c) PROVE SessionInv'
      BY <2>1, <2>4, ArrivalsFollow
    <2>5. ASSUME NEW c \in WebCalls,
                 LoginAnswer(c) \/ BrowserApplies(c) \/ GetToken(c) \/ SendOnce(c) \/ RefreshAnswer(c) \/ ResendOnce(c)
          PROVE  SessionInv'
      BY <2>1, <2>5, LoginFollows, BrowserFollows, TokenFollows, SendFollows, RotationFollows, ResendFollows, Zenon
    <2> QED
      BY <2>2, <2>3, <2>4, <2>5 DEF WebNext
  <1> QED
    BY <1>2, <1>3

\* What stands for the login while a request is under way.
THEOREM SessionCorrect == WebSpec => []SessionInv
  <1>1. WebOK /\ SessionInv /\ [WebNext]_webVars => SessionInv'
    BY FollowsNext
  <1>2. WebTypeOK /\ WebInv => WebOK
    BY DEF WebOK
  <1> QED
    BY <1>1, <1>2, FollowsInit, WebCorrect, PTL DEF WebSpec

\* The browser is signed in as the person's last login says, through any
\* number of expired tokens and rotations (auth-actions.ts, tenant-runtime.ts).
THEOREM SessionStays == WebSpec => []SessionFollowsLogin
  <1>1. SessionInv => SessionFollowsLogin
    <2> SUFFICES ASSUME SessionInv, Undisturbed, \A c \in WebCalls : webCall[c] = NoWebCall
                 PROVE  /\ jar # NoCookies => issued[jar.access].login = signedIn
                        /\ signedIn # 0 /\ signedIn \notin endedLogins => jar # NoCookies
      BY DEF SessionFollowsLogin
    <2>1. CallFollows(NoWebCall)
      BY DEF SessionInv, Undisturbed
    <2>2. NoWebCall.at = "idle"
      BY DEF NoWebCall
    <2> QED
      BY <2>1, <2>2 DEF CallFollows, Replacing, StandFor
  <1> QED
    BY <1>1, SessionCorrect, PTL

(* The tenant runtime's pipeline *)

RtOK == RtTypeOK /\ RtInv

CallNames == {"user", "database", "url", "migrate", "root", "realm", "client", "admin", "metadata",
              "activate", "advance", "after", "emit", "catch", "hung", "ack"}
Working == [at : CallNames, tenant : Signups, step : DOMAIN RtHandler, attempts : Nat]

LEMMA InitPipeline == RtInit => RtOK
  <1> SUFFICES ASSUME RtInit PROVE RtOK
    OBVIOUS
  <1>1. /\ rtTenant = [t \in Signups |-> [status |-> "ABSENT", url |-> {}, realm |-> FALSE]]
        /\ rtJob = [t \in Signups |-> [step |-> "CREATE_DB", attempts |-> 0]]
        /\ rtQueue = [t \in Signups |-> 0] /\ rtTimer = [t \in Signups |-> 0]
        /\ rtRole = [n \in Names |-> {}] /\ rtDb = [n \in Names |-> {}]
        /\ rtRealm = [t \in Signups |-> {}] /\ rtWork = [h \in Handlers |-> RtIdle]
    BY DEF RtInit, Names
  <1>2. rtTenant \in [Signups -> [status : {"ABSENT", "PENDING", "ACTIVE"}, url : SUBSET Passwords, realm : BOOLEAN]]
    BY <1>1
  <1>3. rtJob \in [Signups -> [step : DOMAIN RtHandler, attempts : Nat]]
    BY <1>1 DEF RtHandler
  <1>4. RtTypeOK
    BY <1>1, <1>2, <1>3 DEF RtTypeOK
  <1>5. NamesInv
    BY <1>1 DEF NamesInv
  <1>6. RowsInv
    BY <1>1 DEF RowsInv, Reached
  <1>7. \A h \in Handlers : HandlerInv(h, rtWork[h])
    BY <1>1 DEF HandlerInv
  <1> QED
    BY <1>4, <1>5, <1>6, <1>7 DEF RtOK, RtInv

\* The locals of a message in work, and a step to its next call.
LEMMA InWork ==
  ASSUME RtOK, NEW h \in Handlers, NEW w, w = rtWork[h]
  PROVE  /\ w.at # "idle" => w # RtIdle
         /\ w # RtIdle => /\ w \in Working /\ w.tenant \in Signups /\ w.step \in DOMAIN RtHandler /\ w.attempts \in Nat
                          /\ HandlerInv(h, w) /\ ShortId[w.tenant] \in Names
                          /\ TenantOf(h) = w.tenant /\ RoleName(h) = ShortId[w.tenant]
                          /\ Password(h) = <<w.tenant, h, w.attempts>> /\ Password(h) \in Passwords
  <1>1. w.at # "idle" => w # RtIdle
    BY DEF RtIdle
  <1>2. ASSUME w # RtIdle PROVE w \in Working
    BY <1>2 DEF RtOK, RtTypeOK, Working, CallNames
  <1>3. HandlerInv(h, w)
    BY DEF RtOK, RtInv
  <1> QED
    BY <1>1, <1>2, <1>3 DEF Working, TenantOf, RoleName, Password, Names, Passwords

LEMMA JobGoesOn ==
  ASSUME RtOK, NEW h \in Handlers, NEW w, w = rtWork[h], w # RtIdle, NEW at \in CallNames, GoOn(h, at),
         NEW x, x = [w EXCEPT !.at = at]
  PROVE  /\ rtWork' = [rtWork EXCEPT ![h] = x] /\ x \in Working
         /\ x.at = at /\ x.tenant = w.tenant /\ x.step = w.step /\ x.attempts = w.attempts
  <1>1. w \in Working /\ DOMAIN rtWork = Handlers
    BY InWork DEF RtOK, RtTypeOK
  <1>2. x \in Working
    BY <1>1 DEF Working
  <1>3. x.at = at /\ x.tenant = w.tenant /\ x.step = w.step /\ x.attempts = w.attempts
    BY <1>1 DEF Working
  <1>4. rtWork' = [rtWork EXCEPT ![h] = x]
    BY <1>1 DEF GoOn
  <1> QED
    BY <1>2, <1>3, <1>4

\* What keeps what a tenant has reached.
Grows ==
  \A t \in Signups : rtTenant[t].url # {} =>
     /\ rtTenant'[t].url # {}
     /\ rtTenant[t].realm => rtTenant'[t].realm
     /\ \A d \in rtDb'[ShortId[t]] : \E e \in rtDb[ShortId[t]] :
           /\ e.migrated => d.migrated
           /\ e.roots > 0 => d.roots > 0

LEMMA StillReached ==
  ASSUME Grows, NEW t \in Signups, NEW step, Reached(t, step)
  PROVE  Reached(t, step)'
  <1>1. PICK before \in 0..4 : before = CASE step = "RUN_MIGRATIONS" -> 1 [] step = "SEED" -> 2 [] step = "KEYCLOAK_SETUP" -> 3
                    [] step = "DONE" -> 4 [] OTHER -> 0
    OBVIOUS
  <1>2. /\ before >= 1 => rtTenant[t].url # {}
        /\ before >= 2 => \A d \in rtDb[ShortId[t]] : d.migrated
        /\ before >= 3 => \A d \in rtDb[ShortId[t]] : d.roots > 0
        /\ before >= 4 => rtTenant[t].realm
    BY <1>1 DEF Reached
  <1>3. /\ before >= 1 => rtTenant'[t].url # {}
        /\ before >= 2 => \A d \in rtDb'[ShortId[t]] : d.migrated
        /\ before >= 3 => \A d \in rtDb'[ShortId[t]] : d.roots > 0
        /\ before >= 4 => rtTenant'[t].realm
    BY <1>2 DEF Grows
  <1> QED
    BY <1>1, <1>3 DEF Reached

\* A step of one handler.
LEMMA HandlerStep ==
  ASSUME RtOK, NEW h \in Handlers, NEW x, rtWork' = [rtWork EXCEPT ![h] = x], x = RtIdle \/ x \in Working,
         HandlerInv(h, x)', Grows, NamesInv', RowsInv',
         \A n \in Names : /\ rtRole[n] # {} => rtRole'[n] = rtRole[n]
                          /\ rtDb[n] # {} => rtDb'[n] # {},
         rtTenant' \in [Signups -> [status : {"ABSENT", "PENDING", "ACTIVE"}, url : SUBSET Passwords, realm : BOOLEAN]],
         rtJob' \in [Signups -> [step : DOMAIN RtHandler, attempts : Nat]],
         rtQueue' \in [Signups -> Nat], rtTimer' \in [Signups -> Nat],
         rtRole' \in [Names -> SUBSET Passwords], rtDb' \in [Names -> SUBSET Databases],
         rtRealm' \in [Signups -> SUBSET DOMAIN RtKeycloakCalls]
  PROVE  RtOK'
  <1>1. DOMAIN rtWork' = Handlers /\ \A g \in Handlers : rtWork'[g] = IF g = h THEN x ELSE rtWork[g]
    BY DEF RtOK, RtTypeOK
  <1>2. \A g \in Handlers : rtWork'[g] = RtIdle \/ rtWork'[g] \in Working
    BY <1>1, InWork
  <1>3. RtTypeOK'
    BY <1>1, <1>2 DEF RtTypeOK, Working, CallNames
  <1>4. ASSUME NEW g \in Handlers PROVE HandlerInv(g, rtWork[g])'
    <2>1. PICK y : y = rtWork'[g]
      OBVIOUS
    <2>2. CASE g = h
      BY <1>1, <2>2, SMTT(30) DEF HandlerInv, Reached
    <2>3. CASE g # h
      <3>1. y = rtWork[g] /\ HandlerInv(g, y)
        BY <1>1, <2>1, <2>3 DEF RtOK, RtInv
      <3>2. ASSUME y # RtIdle PROVE HandlerInv(g, y)'
        <4>1. y.tenant \in Signups /\ ShortId[y.tenant] \in Names
          BY <3>1, <3>2, InWork
        <4>2. /\ Reached(y.tenant, y.step)'
              /\ y.at = "advance" => Reached(y.tenant, RtNextStep[y.step])'
          BY <3>1, <3>2, <4>1, StillReached DEF HandlerInv
        <4> QED
          BY <3>1, <3>2, <4>1, <4>2 DEF HandlerInv
      <3>3. HandlerInv(g, y)'
        BY <3>2 DEF HandlerInv
      <3> QED
        BY <2>1, <3>3 DEF HandlerInv, Reached
    <2> QED
      BY <2>2, <2>3
  <1> QED
    BY <1>3, <1>4 DEF RtOK, RtInv

\* A step that leaves the rows and what is built alone.
LEMMA RowsSame ==
  ASSUME RtOK, UNCHANGED <<rtTenant, rtJob, rtRole, rtDb, rtRealm>>
  PROVE  /\ Grows /\ NamesInv' /\ RowsInv'
         /\ rtTenant' \in [Signups -> [status : {"ABSENT", "PENDING", "ACTIVE"}, url : SUBSET Passwords, realm : BOOLEAN]]
         /\ rtJob' \in [Signups -> [step : DOMAIN RtHandler, attempts : Nat]]
         /\ rtRole' \in [Names -> SUBSET Passwords] /\ rtDb' \in [Names -> SUBSET Databases]
         /\ rtRealm' \in [Signups -> SUBSET DOMAIN RtKeycloakCalls]
         /\ \A n \in Names : rtRole'[n] = rtRole[n] /\ rtDb'[n] = rtDb[n]
         /\ \A t, step : Reached(t, step)' = Reached(t, step)
         /\ \A h, w : HandlerInv(h, w)' = HandlerInv(h, w)
  <1>1. \A t, step : Reached(t, step)' = Reached(t, step)
    BY DEF Reached
  <1>2. \A h, w : HandlerInv(h, w)' = HandlerInv(h, w)
    BY <1>1 DEF HandlerInv
  <1>3. NamesInv' /\ RowsInv'
    BY <1>1 DEF RtOK, RtInv, NamesInv, RowsInv, Opens
  <1>4. Grows
    BY DEF Grows
  <1> QED
    BY <1>1, <1>2, <1>3, <1>4 DEF RtOK, RtTypeOK

LEMMA Queues ==
  ASSUME RtOK
  PROVE  /\ rtQueue \in [Signups -> Nat] /\ rtTimer \in [Signups -> Nat]
         /\ \A t : Send(t) => rtQueue' \in [Signups -> Nat]
  BY DEF RtOK, RtTypeOK, Send

\* A step of no handler.
LEMMA OutboxStep ==
  ASSUME RtOK, UNCHANGED <<rtTenant, rtJob, rtRole, rtDb, rtRealm, rtWork>>,
         rtQueue' \in [Signups -> Nat], rtTimer' \in [Signups -> Nat]
  PROVE  RtOK'
  <1>1. RtTypeOK'
    BY RowsSame DEF RtOK, RtTypeOK
  <1>2. ASSUME NEW h \in Handlers PROVE HandlerInv(h, rtWork[h])'
    <2>1. PICK w : w = rtWork[h] /\ HandlerInv(h, w)
      BY DEF RtOK, RtInv
    <2>2. HandlerInv(h, w)'
      BY <2>1, RowsSame
    <2> QED
      BY <2>1, <2>2 DEF HandlerInv, Reached
  <1> QED
    BY <1>1, <1>2, RowsSame DEF RtOK, RtInv

LEMMA OutboxRt ==
  ASSUME RtOK,
         \/ \E c \in Ticks : FindPending(c) \/ EmitEvent(c) \/ MarkPublished(c) \/ PublishFails(c)
         \/ \E t \in Signups : RetryTimer(t)
         \/ UNCHANGED rtVars
  PROVE  RtOK'
  <1>1. ASSUME NEW c \in Ticks, FindPending(c) \/ EmitEvent(c) \/ MarkPublished(c) \/ PublishFails(c)
        PROVE  RtOK'
    BY <1>1, Queues, OutboxStep DEF FindPending, EmitEvent, MarkPublished, PublishFails, rtRows, rtBuilt
  <1>2. ASSUME NEW t \in Signups, RetryTimer(t) PROVE RtOK'
    <2>1. rtTimer' \in [Signups -> Nat]
      BY <1>2, Queues DEF RetryTimer
    <2> QED
      BY <1>2, <2>1, Queues, OutboxStep DEF RetryTimer, rtRows, rtBuilt
  <1>3. ASSUME UNCHANGED rtVars PROVE RtOK'
    BY <1>3, Queues, OutboxStep DEF rtVars, rtRows, rtBuilt
  <1> QED
    BY <1>1, <1>2, <1>3

LEMMA SignupRt ==
  ASSUME RtOK, NEW t \in Signups, RtSignup(t)
  PROVE  RtOK'
  <1>1. /\ rtTenant[t].status = "ABSENT" /\ rtTenant' = [rtTenant EXCEPT ![t].status = "PENDING"]
        /\ UNCHANGED <<rtJob, rtRole, rtDb, rtRealm, rtWork, rtQueue, rtTimer>>
    BY DEF RtSignup, rtBuilt
  <1>2. rtTenant \in [Signups -> [status : {"ABSENT", "PENDING", "ACTIVE"}, url : SUBSET Passwords, realm : BOOLEAN]]
    BY DEF RtOK, RtTypeOK
  <1>3. rtTenant' \in [Signups -> [status : {"ABSENT", "PENDING", "ACTIVE"}, url : SUBSET Passwords, realm : BOOLEAN]]
    BY <1>1, <1>2
  <1>4. \A u \in Signups : /\ rtTenant'[u].url = rtTenant[u].url /\ rtTenant'[u].realm = rtTenant[u].realm
                           /\ rtTenant'[u].status = "ACTIVE" => rtTenant[u].status = "ACTIVE"
    BY <1>1, <1>2
  <1>5. RtTypeOK'
    BY <1>1, <1>3 DEF RtOK, RtTypeOK
  <1>6. NamesInv'
    BY <1>1, <1>4 DEF RtOK, RtInv, NamesInv, Opens
  <1>7. Grows
    BY <1>1, <1>4 DEF Grows
  <1>8. RowsInv'
    <2>1. \A u \in Signups : \A step : Reached(u, step) => Reached(u, step)'
      BY <1>7, StillReached, SMTT(30)
    <2> QED
      BY <1>1, <1>4, <2>1 DEF RtOK, RtInv, RowsInv
  <1>9. ASSUME NEW h \in Handlers PROVE HandlerInv(h, rtWork[h])'
    <2>1. PICK w : w = rtWork[h] /\ HandlerInv(h, w)
      BY DEF RtOK, RtInv
    <2>2. ASSUME w # RtIdle PROVE HandlerInv(h, w)'
      <3>1. w.tenant \in Signups
        BY <2>1, <2>2, InWork
      <3>2. \A step : Reached(w.tenant, step) => Reached(w.tenant, step)'
        BY <1>7, <3>1, StillReached
      <3> QED
        BY <1>1, <2>1, <2>2, <3>2 DEF HandlerInv
    <2>3. HandlerInv(h, w)'
      BY <2>2 DEF HandlerInv
    <2> QED
      BY <1>1, <2>1, <2>3 DEF HandlerInv, Reached
  <1> QED
    BY <1>5, <1>6, <1>8, <1>9 DEF RtOK, RtInv

LEMMA RestartRt ==
  ASSUME RtOK, RtRestart
  PROVE  RtOK'
  <1>1. /\ rtQueue' = [t \in Signups |-> rtQueue[t] + Cardinality({h \in Handlers : TenantOf(h) = t})]
        /\ rtTimer' = [t \in Signups |-> 0] /\ rtWork' = [h \in Handlers |-> RtIdle]
        /\ UNCHANGED <<rtTenant, rtJob, rtRole, rtDb, rtRealm>>
    BY DEF RtRestart, rtRows, rtBuilt
  <1>2. rtQueue' \in [Signups -> Nat]
    <2>1. \A t \in Signups : Cardinality({h \in Handlers : TenantOf(h) = t}) \in Nat
      BY RuntimeAssumption, FS_Subset, FS_CardinalityType
    <2> QED
      BY <1>1, <2>1, Queues
  <1>3. RtTypeOK'
    BY <1>1, <1>2, RowsSame DEF RtTypeOK
  <1>4. \A h \in Handlers : HandlerInv(h, rtWork[h])'
    BY <1>1 DEF HandlerInv
  <1> QED
    BY <1>1, <1>3, <1>4, RowsSame DEF RtOK, RtInv

\* What a handler does beside the rows.
LEMMA QuietHandlerRt ==
  ASSUME RtOK, NEW h \in Handlers,
         ReadAfter(h) \/ EmitNextStep(h) \/ RtRefused(h) \/ AckMessage(h)
  PROVE  RtOK'
  <1>1. PICK w : w = rtWork[h]
    OBVIOUS
  <1>2. UNCHANGED <<rtTenant, rtJob, rtRole, rtDb, rtRealm, rtTimer>>
    BY DEF ReadAfter, EmitNextStep, RtRefused, AckMessage, rtRows, rtBuilt
  <1>3. rtQueue' \in [Signups -> Nat] /\ rtTimer' \in [Signups -> Nat]
    BY Queues, <1>2 DEF ReadAfter, EmitNextStep, RtRefused, AckMessage
  <1>4. ASSUME NEW at \in {"ack", "emit", "hung", "catch"}, w.at # "idle", GoOn(h, at) PROVE RtOK'
    <2>1. PICK x : x = [w EXCEPT !.at = at]
      OBVIOUS
    <2>2. w # RtIdle /\ HandlerInv(h, w) /\ at \in CallNames
      BY <1>1, <1>4, InWork DEF CallNames
    <2>3. /\ rtWork' = [rtWork EXCEPT ![h] = x] /\ x \in Working
          /\ x.at = at /\ x.tenant = w.tenant /\ x.step = w.step /\ x.attempts = w.attempts
      BY <1>1, <1>4, <2>1, <2>2, JobGoesOn
    <2>4. HandlerInv(h, x)
      BY <2>2, <2>3 DEF HandlerInv, StepOf
    <2> QED
      BY <1>2, <1>3, <2>3, <2>4, RowsSame, HandlerStep
  <1>5. CASE ReadAfter(h)
    BY <1>1, <1>4, <1>5 DEF ReadAfter
  <1>6. CASE EmitNextStep(h)
    BY <1>1, <1>4, <1>6 DEF EmitNextStep
  <1>7. CASE RtRefused(h)
    BY <1>1, <1>4, <1>7 DEF RtRefused
  <1>8. CASE AckMessage(h)
    <2>1. rtWork' = [rtWork EXCEPT ![h] = RtIdle]
      BY <1>8 DEF AckMessage
    <2>2. HandlerInv(h, RtIdle)'
      BY DEF HandlerInv
    <2> QED
      BY <1>2, <1>3, <2>1, <2>2, RowsSame, HandlerStep
  <1> QED
    BY <1>5, <1>6, <1>7, <1>8

LEMMA ReceiveRt ==
  ASSUME RtOK, NEW h \in Handlers, NEW t \in Signups, Receive(h, t)
  PROVE  RtOK'
  <1>1. PICK step : step = rtJob[t].step
    OBVIOUS
  <1>2. PICK x : x = [at |-> RtHandler[step], tenant |-> t, step |-> step, attempts |-> rtJob[t].attempts]
    OBVIOUS
  <1>3. /\ rtWork' = [rtWork EXCEPT ![h] = x] /\ rtQueue[t] > 0 /\ rtQueue' = [rtQueue EXCEPT ![t] = @ - 1]
        /\ UNCHANGED <<rtTenant, rtJob, rtRole, rtDb, rtRealm, rtTimer>>
    BY <1>1, <1>2 DEF Receive, rtRows, rtBuilt
  <1>4. rtQueue' \in [Signups -> Nat] /\ rtTimer' \in [Signups -> Nat]
    BY <1>3, Queues
  <1>5. step \in DOMAIN RtHandler /\ rtJob[t].attempts \in Nat
    BY <1>1 DEF RtOK, RtTypeOK
  <1>6. x \in Working
    BY <1>2, <1>5 DEF Working, CallNames, RtHandler
  <1>7. Reached(t, step)
    BY <1>1 DEF RtOK, RtInv, RowsInv
  <1>8. HandlerInv(h, x)
    BY <1>2, <1>5, <1>7 DEF HandlerInv, StepOf, RtHandler
  <1> QED
    BY <1>3, <1>4, <1>6, <1>8, RowsSame, HandlerStep

\* The types of the rows.
LEMMA RowTypes ==
  ASSUME RtOK
  PROVE  /\ rtTenant \in [Signups -> [status : {"ABSENT", "PENDING", "ACTIVE"}, url : SUBSET Passwords, realm : BOOLEAN]]
         /\ rtJob \in [Signups -> [step : DOMAIN RtHandler, attempts : Nat]]
         /\ rtRole \in [Names -> SUBSET Passwords] /\ rtDb \in [Names -> SUBSET Databases]
         /\ rtRealm \in [Signups -> SUBSET DOMAIN RtKeycloakCalls]
         /\ NamesInv /\ RowsInv
  BY DEF RtOK, RtTypeOK, RtInv

\* A handler gives up on its step.
LEMMA GivesUp ==
  ASSUME RtOK, NEW h \in Handlers, rtWork[h].at # "idle", GoOn(h, "catch"),
         UNCHANGED <<rtTenant, rtJob, rtRole, rtDb, rtRealm, rtQueue, rtTimer>>
  PROVE  RtOK'
  <1>1. PICK w : w = rtWork[h]
    OBVIOUS
  <1>2. PICK x : x = [w EXCEPT !.at = "catch"]
    OBVIOUS
  <1>3. w # RtIdle /\ HandlerInv(h, w)
    BY <1>1, InWork
  <1>4. /\ rtWork' = [rtWork EXCEPT ![h] = x] /\ x \in Working
        /\ x.at = "catch" /\ x.tenant = w.tenant /\ x.step = w.step /\ x.attempts = w.attempts
    BY <1>1, <1>2, <1>3, JobGoesOn DEF CallNames
  <1>5. HandlerInv(h, x)
    BY <1>3, <1>4 DEF HandlerInv, StepOf
  <1> QED
    BY <1>4, <1>5, Queues, RowsSame, HandlerStep

LEMMA CreateUserRt ==
  ASSUME RtOK, NEW h \in Handlers, CreateUser(h)
  PROVE  RtOK'
  <1>1. PICK w : w = rtWork[h]
    OBVIOUS
  <1>2. w.at = "user" /\ UNCHANGED <<rtTenant, rtJob, rtDb, rtRealm, rtQueue, rtTimer>>
    BY <1>1 DEF CreateUser, rtRows
  <1>3. /\ w # RtIdle /\ w \in Working /\ w.tenant \in Signups /\ w.step \in DOMAIN RtHandler
        /\ HandlerInv(h, w) /\ ShortId[w.tenant] \in Names /\ RoleName(h) = ShortId[w.tenant]
        /\ Password(h) = <<w.tenant, h, w.attempts>> /\ Password(h) \in Passwords
    BY <1>1, <1>2, InWork
  <1>4. PICK n \in Names : n = ShortId[w.tenant]
    BY <1>3
  <1>5. PICK pw \in Passwords : pw = <<w.tenant, h, w.attempts>>
    BY <1>3
  <1>6. rtQueue' \in [Signups -> Nat] /\ rtTimer' \in [Signups -> Nat]
    BY <1>2, Queues
  <1>7. CASE rtRole[n] = {}
    <2>1. PICK x : x = [w EXCEPT !.at = "database"]
      OBVIOUS
    <2>2. rtRole' = [rtRole EXCEPT ![n] = {pw}] /\ GoOn(h, "database")
      BY <1>3, <1>4, <1>5, <1>7 DEF CreateUser
    <2>3. /\ rtWork' = [rtWork EXCEPT ![h] = x] /\ x \in Working
          /\ x.at = "database" /\ x.tenant = w.tenant /\ x.step = w.step /\ x.attempts = w.attempts
      BY <1>1, <1>3, <2>1, <2>2, JobGoesOn DEF CallNames
    <2>4. /\ rtRole' \in [Names -> SUBSET Passwords] /\ rtRole'[n] = {pw}
          /\ \A m \in Names : m # n => rtRole'[m] = rtRole[m]
      BY <2>2, RowTypes
    <2>5. \A t, step : Reached(t, step)' = Reached(t, step)
      BY <1>2 DEF Reached
    <2>6. HandlerInv(h, x)'
      BY <1>2, <1>3, <1>4, <1>5, <2>3, <2>4, <2>5 DEF HandlerInv, StepOf
    <2>7. NamesInv'
      <3>1. rtDb[n] = {}
        BY <1>7, RowTypes DEF NamesInv
      <3>2. \A t \in Signups : rtTenant[t].url # {} => ShortId[t] \in Names /\ ShortId[t] # n
        BY <1>7, RowTypes DEF NamesInv, Opens, Names
      <3>3. ASSUME NEW m \in Names
            PROVE  /\ rtDb'[m] # {} => rtRole'[m] # {}
                   /\ \A p, q \in rtRole'[m] : p = q
                   /\ \A d \in rtDb'[m], p \in rtRole'[m] : d.owner = p[1]
        BY <1>2, <2>4, <3>1, RowTypes DEF NamesInv
      <3>4. ASSUME NEW t \in Signups, rtTenant'[t].url # {} PROVE Opens(t)' /\ \A p \in rtTenant'[t].url : p[1] = t
        BY <1>2, <2>4, <3>2, <3>4, RowTypes DEF NamesInv, Opens
      <3> QED
        BY <3>3, <3>4 DEF NamesInv
    <2>8. Grows /\ RowsInv'
      BY <1>2, <2>5, RowTypes DEF Grows, RowsInv
    <2>9. \A m \in Names : /\ rtRole[m] # {} => rtRole'[m] = rtRole[m]
                           /\ rtDb[m] # {} => rtDb'[m] # {}
      BY <1>2, <1>7, <2>4
    <2> QED
      BY <1>2, <1>6, <2>3, <2>4, <2>6, <2>7, <2>8, <2>9, RowTypes, HandlerStep
  <1>8. CASE rtRole[n] # {}
    <2>1. UNCHANGED rtRole /\ GoOn(h, "catch")
      BY <1>3, <1>4, <1>8 DEF CreateUser
    <2> QED
      BY <1>1, <1>2, <2>1, GivesUp
  <1> QED
    BY <1>7, <1>8

LEMMA CreateDatabaseRt ==
  ASSUME RtOK, NEW h \in Handlers, CreateDatabase(h)
  PROVE  RtOK'
  <1>1. PICK w : w = rtWork[h]
    OBVIOUS
  <1>2. w.at = "database" /\ UNCHANGED <<rtTenant, rtJob, rtRole, rtRealm, rtQueue, rtTimer>>
    BY <1>1 DEF CreateDatabase, rtRows
  <1>3. /\ w # RtIdle /\ w \in Working /\ w.tenant \in Signups /\ w.step \in DOMAIN RtHandler
        /\ HandlerInv(h, w) /\ ShortId[w.tenant] \in Names /\ RoleName(h) = ShortId[w.tenant]
        /\ TenantOf(h) = w.tenant
    BY <1>1, <1>2, InWork
  <1>4. PICK n \in Names : n = ShortId[w.tenant]
    BY <1>3
  <1>5. PICK d : d = [owner |-> w.tenant, migrated |-> FALSE, roots |-> 0]
    OBVIOUS
  <1>6. rtQueue' \in [Signups -> Nat] /\ rtTimer' \in [Signups -> Nat]
    BY <1>2, Queues
  <1>7. ASSUME rtDb[n] = {} PROVE RtOK'
    <2>1. PICK x : x = [w EXCEPT !.at = "url"]
      OBVIOUS
    <2>2. rtDb' = [rtDb EXCEPT ![n] = {d}] /\ GoOn(h, "url")
      BY <1>3, <1>4, <1>5, <1>7 DEF CreateDatabase
    <2>3. /\ rtWork' = [rtWork EXCEPT ![h] = x] /\ x \in Working
          /\ x.at = "url" /\ x.tenant = w.tenant /\ x.step = w.step /\ x.attempts = w.attempts
      BY <1>1, <1>3, <2>1, <2>2, JobGoesOn DEF CallNames
    <2>4. d \in Databases
      BY <1>3, <1>5 DEF Databases
    <2>5. /\ rtDb' \in [Names -> SUBSET Databases] /\ rtDb'[n] = {d}
          /\ \A m \in Names : m # n => rtDb'[m] = rtDb[m]
      BY <2>2, <2>4, RowTypes
    <2>6. \A t \in Signups : rtTenant[t].url # {} => ShortId[t] \in Names /\ ShortId[t] # n
      BY <1>7, RowTypes DEF NamesInv, Opens, Names
    <2>7. Grows
      BY <1>2, <2>5, <2>6 DEF Grows
    <2>8. \A t \in Signups : \A step : Reached(t, step) => Reached(t, step)'
      BY <2>7, StillReached
    <2>9. RowsInv'
      BY <1>2, <2>8, RowTypes DEF RowsInv
    <2>10. rtRole[n] = {<<w.tenant, h, w.attempts>>}
      BY <1>2, <1>3, <1>4 DEF HandlerInv
    <2>11. HandlerInv(h, x)'
      BY <1>2, <1>3, <1>4, <2>3, <2>5, <2>8, <2>10 DEF HandlerInv, StepOf
    <2>12. NamesInv'
      <3>1. ASSUME NEW m \in Names
            PROVE  /\ rtDb'[m] # {} => rtRole'[m] # {}
                   /\ \A p, q \in rtRole'[m] : p = q
                   /\ \A e \in rtDb'[m], p \in rtRole'[m] : e.owner = p[1]
        <4>1. CASE m = n
          <5>1. PICK pw : pw = <<w.tenant, h, w.attempts>>
            OBVIOUS
          <5>2. rtRole'[m] = {pw} /\ rtDb'[m] = {d} /\ pw[1] = w.tenant /\ d.owner = w.tenant
            BY <1>2, <1>5, <2>5, <2>10, <4>1, <5>1
          <5> QED
            BY <5>2
        <4>2. CASE m # n
          BY <1>2, <2>5, <4>2, RowTypes DEF NamesInv
        <4> QED
          BY <4>1, <4>2
      <3>2. ASSUME NEW t \in Signups, rtTenant'[t].url # {} PROVE Opens(t)' /\ \A p \in rtTenant'[t].url : p[1] = t
        BY <1>2, <2>5, <2>6, <3>2, RowTypes DEF NamesInv, Opens
      <3> QED
        BY <3>1, <3>2 DEF NamesInv
    <2>13. \A m \in Names : /\ rtRole[m] # {} => rtRole'[m] = rtRole[m]
                            /\ rtDb[m] # {} => rtDb'[m] # {}
      BY <1>2, <1>7, <2>5
    <2> QED
      BY <1>2, <1>6, <2>3, <2>5, <2>7, <2>9, <2>11, <2>12, <2>13, RowTypes, HandlerStep
  <1>8. ASSUME rtDb[n] # {} PROVE RtOK'
    <2>1. UNCHANGED rtDb /\ GoOn(h, "catch")
      BY <1>3, <1>4, <1>8 DEF CreateDatabase
    <2> QED
      BY <1>1, <1>2, <2>1, GivesUp
  <1> QED
    BY <1>7, <1>8

\* A handler that is done with its step.
LEMMA Advances ==
  ASSUME RtOK, NEW h \in Handlers, NEW w, w = rtWork[h], w # RtIdle, GoOn(h, "advance"),
         w.step \in DOMAIN RtNextStep, Reached(w.tenant, RtNextStep[w.step])', Grows
  PROVE  \E x \in Working : /\ rtWork' = [rtWork EXCEPT ![h] = x]
                            /\ HandlerInv(h, x)'
  <1>1. PICK x : x = [w EXCEPT !.at = "advance"]
    OBVIOUS
  <1>2. /\ rtWork' = [rtWork EXCEPT ![h] = x] /\ x \in Working
        /\ x.at = "advance" /\ x.tenant = w.tenant /\ x.step = w.step /\ x.attempts = w.attempts
    BY <1>1, JobGoesOn DEF CallNames
  <1>3. Reached(w.tenant, w.step) /\ w.tenant \in Signups
    BY InWork DEF HandlerInv
  <1>4. Reached(w.tenant, w.step)'
    BY <1>3, StillReached
  <1>5. HandlerInv(h, x)'
    BY <1>2, <1>4 DEF HandlerInv, StepOf
  <1> QED
    BY <1>2, <1>5

LEMMA StoreUrlRt ==
  ASSUME RtOK, NEW h \in Handlers, StoreUrl(h)
  PROVE  RtOK'
  <1>1. PICK w : w = rtWork[h]
    OBVIOUS
  <1>2. w.at = "url" /\ UNCHANGED <<rtJob, rtRole, rtDb, rtRealm, rtQueue, rtTimer>> /\ GoOn(h, "advance")
    BY <1>1 DEF StoreUrl, rtBuilt
  <1>3. /\ w # RtIdle /\ w \in Working /\ w.tenant \in Signups /\ w.step \in DOMAIN RtHandler
        /\ HandlerInv(h, w) /\ ShortId[w.tenant] \in Names /\ TenantOf(h) = w.tenant
        /\ Password(h) = <<w.tenant, h, w.attempts>> /\ Password(h) \in Passwords
    BY <1>1, <1>2, InWork
  <1>4. PICK pw \in Passwords : pw = <<w.tenant, h, w.attempts>>
    BY <1>3
  <1>5. rtTenant' = [rtTenant EXCEPT ![w.tenant].url = {pw}]
    BY <1>3, <1>4 DEF StoreUrl
  <1>6. /\ rtTenant' \in [Signups -> [status : {"ABSENT", "PENDING", "ACTIVE"}, url : SUBSET Passwords, realm : BOOLEAN]]
        /\ \A t \in Signups : /\ rtTenant'[t].status = rtTenant[t].status /\ rtTenant'[t].realm = rtTenant[t].realm
                              /\ rtTenant'[t].url = IF t = w.tenant THEN {pw} ELSE rtTenant[t].url
    BY <1>3, <1>5, RowTypes
  <1>7. rtRole[ShortId[w.tenant]] = {pw} /\ rtDb[ShortId[w.tenant]] # {} /\ w.step = "CREATE_DB"
    BY <1>2, <1>3, <1>4 DEF HandlerInv, StepOf
  <1>8. Grows
    BY <1>2, <1>6 DEF Grows
  <1>9. \A t \in Signups : \A step : Reached(t, step) => Reached(t, step)'
    BY <1>8, StillReached
  <1>10. RowsInv'
    BY <1>2, <1>6, <1>9, RowTypes DEF RowsInv
  <1>11. NamesInv'
    <2>1. ASSUME NEW t \in Signups, rtTenant'[t].url # {} PROVE Opens(t)' /\ \A p \in rtTenant'[t].url : p[1] = t
      <3>1. CASE t = w.tenant
        <4>1. pw[1] = w.tenant
          BY <1>4
        <4>2. Opens(t)'
          BY <1>2, <1>6, <1>7, <3>1 DEF Opens
        <4> QED
          BY <1>6, <3>1, <4>1, <4>2
      <3>2. CASE t # w.tenant
        BY <1>2, <1>6, <2>1, <3>2, RowTypes DEF NamesInv, Opens
      <3> QED
        BY <3>1, <3>2
    <2> QED
      BY <1>2, <2>1, RowTypes DEF NamesInv
  <1>12. w.step \in DOMAIN RtNextStep /\ Reached(w.tenant, RtNextStep[w.step])'
    BY <1>3, <1>6, <1>7 DEF RtNextStep, Reached
  <1>13. PICK x \in Working : rtWork' = [rtWork EXCEPT ![h] = x] /\ HandlerInv(h, x)'
    BY <1>1, <1>2, <1>3, <1>8, <1>12, Advances
  <1> QED
    BY <1>2, <1>6, <1>8, <1>10, <1>11, <1>13, Queues, RowTypes, HandlerStep

\* A handler writes the databases of a name, each in place of the one it was.
LEMMA Rewrites ==
  ASSUME RtOK, NEW h \in Handlers, NEW w, w = rtWork[h], w # RtIdle, GoOn(h, "advance"),
         UNCHANGED <<rtTenant, rtJob, rtRole, rtRealm, rtQueue, rtTimer>>,
         NEW n \in Names, n = ShortId[w.tenant], NEW f, rtDb' = [rtDb EXCEPT ![n] = {f[d] : d \in @}],
         \A d \in rtDb[n] : /\ f[d] \in Databases /\ f[d].owner = d.owner
                            /\ d.migrated => f[d].migrated
                            /\ d.roots > 0 => f[d].roots > 0,
         w.step \in DOMAIN RtNextStep, Reached(w.tenant, RtNextStep[w.step])'
  PROVE  RtOK'
  <1>1. /\ rtDb' \in [Names -> SUBSET Databases] /\ rtDb'[n] = {f[d] : d \in rtDb[n]}
        /\ \A m \in Names : m # n => rtDb'[m] = rtDb[m]
    BY RowTypes
  <1>2. \A m \in Names : rtDb[m] # {} <=> rtDb'[m] # {}
    BY <1>1
  <1>3. \A m \in Names : \A d \in rtDb'[m] : \E e \in rtDb[m] :
          /\ d.owner = e.owner
          /\ e.migrated => d.migrated
          /\ e.roots > 0 => d.roots > 0
    BY <1>1
  <1>4. Grows
    BY <1>3 DEF Grows, Names
  <1>5. \A t \in Signups : \A step : Reached(t, step) => Reached(t, step)'
    BY <1>4, StillReached
  <1>6. RowsInv'
    BY <1>5, RowTypes DEF RowsInv
  <1>7. NamesInv'
    <2>1. ASSUME NEW m \in Names
          PROVE  /\ rtDb'[m] # {} => rtRole'[m] # {}
                 /\ \A p, q \in rtRole'[m] : p = q
                 /\ \A e \in rtDb'[m], p \in rtRole'[m] : e.owner = p[1]
      BY <1>2, <1>3, RowTypes, SMTT(30) DEF NamesInv
    <2>2. ASSUME NEW t \in Signups, rtTenant'[t].url # {} PROVE Opens(t)' /\ \A p \in rtTenant'[t].url : p[1] = t
      BY <1>2, <2>2, RowTypes, ZenonT(40) DEF NamesInv, Opens, Names
    <2> QED
      BY <2>1, <2>2 DEF NamesInv
  <1>8. PICK x \in Working : rtWork' = [rtWork EXCEPT ![h] = x] /\ HandlerInv(h, x)'
    BY <1>4, Advances
  <1> QED
    BY <1>1, <1>2, <1>4, <1>6, <1>7, <1>8, Queues, RowTypes, HandlerStep

LEMMA RunMigrationsRt ==
  ASSUME RtOK, NEW h \in Handlers, RunMigrations(h)
  PROVE  RtOK'
  <1>1. PICK w : w = rtWork[h]
    OBVIOUS
  <1>2. w.at = "migrate" /\ UNCHANGED <<rtTenant, rtJob, rtRole, rtRealm, rtQueue, rtTimer>>
    BY <1>1 DEF RunMigrations, rtRows
  <1>3. /\ w # RtIdle /\ w \in Working /\ w.tenant \in Signups /\ HandlerInv(h, w)
        /\ ShortId[w.tenant] \in Names /\ RoleName(h) = ShortId[w.tenant] /\ TenantOf(h) = w.tenant
    BY <1>1, <1>2, InWork
  <1>4. PICK n \in Names : n = ShortId[w.tenant]
    BY <1>3
  <1>5. ASSUME Opens(w.tenant) PROVE RtOK'
    <2>1. rtDb' = [rtDb EXCEPT ![n] = {[d EXCEPT !.migrated = TRUE] : d \in @}] /\ GoOn(h, "advance")
      BY <1>3, <1>4, <1>5 DEF RunMigrations
    <2>2. PICK f : f = [d \in rtDb[n] |-> [d EXCEPT !.migrated = TRUE]]
      OBVIOUS
    <2>3. rtDb[n] \subseteq Databases
      BY RowTypes
    <2>4. \A d \in rtDb[n] : /\ f[d] \in Databases /\ f[d].owner = d.owner /\ f[d].roots = d.roots /\ f[d].migrated
      BY <2>2, <2>3 DEF Databases
    <2>5. rtDb' = [rtDb EXCEPT ![n] = {f[d] : d \in @}]
      BY <2>1, <2>2, RowTypes
    <2>6. w.step = "RUN_MIGRATIONS"
      BY <1>2, <1>3 DEF HandlerInv, StepOf
    <2>7. w.step \in DOMAIN RtNextStep /\ Reached(w.tenant, RtNextStep[w.step])'
      BY <1>2, <1>4, <1>5, <2>4, <2>5, <2>6, RowTypes DEF RtNextStep, Reached, Opens
    <2>8. \A d \in rtDb[n] : /\ f[d] \in Databases /\ f[d].owner = d.owner
                             /\ d.migrated => f[d].migrated
                             /\ d.roots > 0 => f[d].roots > 0
      BY <1>5, <2>4
    <2> QED
      BY <1>1, <1>2, <1>3, <1>4, <2>1, <2>5, <2>7, <2>8, Rewrites
  <1>6. ASSUME ~Opens(w.tenant) PROVE RtOK'
    BY <1>1, <1>2, <1>3, <1>6, GivesUp DEF RunMigrations
  <1> QED
    BY <1>5, <1>6

LEMMA CreateRootUnitRt ==
  ASSUME RtOK, NEW h \in Handlers, CreateRootUnit(h)
  PROVE  RtOK'
  <1>1. PICK w : w = rtWork[h]
    OBVIOUS
  <1>2. w.at = "root" /\ UNCHANGED <<rtTenant, rtJob, rtRole, rtRealm, rtQueue, rtTimer>>
    BY <1>1 DEF CreateRootUnit, rtRows
  <1>3. /\ w # RtIdle /\ w \in Working /\ w.tenant \in Signups /\ HandlerInv(h, w)
        /\ ShortId[w.tenant] \in Names /\ RoleName(h) = ShortId[w.tenant] /\ TenantOf(h) = w.tenant
    BY <1>1, <1>2, InWork
  <1>4. PICK n \in Names : n = ShortId[w.tenant]
    BY <1>3
  <1>5. ASSUME Opens(w.tenant), \A d \in rtDb[n] : d.migrated PROVE RtOK'
    <2>1. rtDb' = [rtDb EXCEPT ![n] = {[d EXCEPT !.roots = IF @ < 2 THEN @ + 1 ELSE @] : d \in @}] /\ GoOn(h, "advance")
      BY <1>3, <1>4, <1>5 DEF CreateRootUnit
    <2>2. PICK f : f = [d \in rtDb[n] |-> [d EXCEPT !.roots = IF @ < 2 THEN @ + 1 ELSE @]]
      OBVIOUS
    <2>3. rtDb[n] \subseteq Databases
      BY RowTypes
    <2>4. \A d \in rtDb[n] : /\ f[d] \in Databases /\ f[d].owner = d.owner /\ f[d].roots > 0 /\ f[d].migrated = d.migrated
      BY <2>2, <2>3 DEF Databases
    <2>5. rtDb' = [rtDb EXCEPT ![n] = {f[d] : d \in @}]
      BY <2>1, <2>2, RowTypes
    <2>6. w.step = "SEED"
      BY <1>2, <1>3 DEF HandlerInv, StepOf
    <2>7. w.step \in DOMAIN RtNextStep /\ Reached(w.tenant, RtNextStep[w.step])'
      BY <1>2, <1>4, <1>5, <2>4, <2>5, <2>6, RowTypes DEF RtNextStep, Reached, Opens
    <2>8. \A d \in rtDb[n] : /\ f[d] \in Databases /\ f[d].owner = d.owner
                             /\ d.migrated => f[d].migrated
                             /\ d.roots > 0 => f[d].roots > 0
      BY <1>5, <2>4
    <2> QED
      BY <1>1, <1>2, <1>3, <1>4, <2>1, <2>5, <2>7, <2>8, Rewrites
  <1>6. ASSUME ~(Opens(w.tenant) /\ \A d \in rtDb[n] : d.migrated) PROVE RtOK'
    BY <1>1, <1>2, <1>3, <1>4, <1>6, GivesUp DEF CreateRootUnit
  <1> QED
    BY <1>5, <1>6

LEMMA CallKeycloakRt ==
  ASSUME RtOK, NEW h \in Handlers, CallKeycloak(h)
  PROVE  RtOK'
  <1>1. PICK w : w = rtWork[h]
    OBVIOUS
  <1>2. /\ w.at \in {"realm", "client", "admin"} /\ UNCHANGED <<rtTenant, rtJob, rtRole, rtDb, rtQueue, rtTimer>>
        /\ GoOn(h, RtKeycloakCalls[w.at])
        /\ UNCHANGED rtRealm \/ rtRealm' = [rtRealm EXCEPT ![TenantOf(h)] = @ \cup {w.at}]
    BY <1>1 DEF CallKeycloak, RtKeycloakCalls, rtRows
  <1>3. w # RtIdle /\ HandlerInv(h, w) /\ w.tenant \in Signups /\ TenantOf(h) = w.tenant
    BY <1>1, <1>2, InWork
  <1>4. PICK at \in CallNames : at = RtKeycloakCalls[w.at] /\ at \in {"client", "admin", "metadata"}
    BY <1>2 DEF RtKeycloakCalls, CallNames
  <1>5. PICK x : x = [w EXCEPT !.at = at]
    OBVIOUS
  <1>6. /\ rtWork' = [rtWork EXCEPT ![h] = x] /\ x \in Working
        /\ x.at = at /\ x.tenant = w.tenant /\ x.step = w.step /\ x.attempts = w.attempts
    BY <1>1, <1>2, <1>3, <1>4, <1>5, JobGoesOn
  <1>7. rtRealm' \in [Signups -> SUBSET DOMAIN RtKeycloakCalls]
    BY <1>2, <1>3, RowTypes DEF RtKeycloakCalls
  <1>8. \A t, step : Reached(t, step)' = Reached(t, step)
    BY <1>2 DEF Reached
  <1>9. Reached(w.tenant, w.step) /\ w.step = "KEYCLOAK_SETUP"
    BY <1>2, <1>3 DEF HandlerInv, StepOf
  <1>10. HandlerInv(h, x)'
    BY <1>4, <1>6, <1>8, <1>9 DEF HandlerInv, StepOf
  <1>11. Grows /\ RowsInv' /\ NamesInv'
    BY <1>2, <1>8, RowTypes DEF Grows, RowsInv, NamesInv, Opens
  <1>12. \A n \in Names : rtRole'[n] = rtRole[n] /\ rtDb'[n] = rtDb[n]
    BY <1>2
  <1> QED
    BY <1>2, <1>6, <1>7, <1>10, <1>11, <1>12, Queues, RowTypes, HandlerStep

\* A handler writes its tenant's row, and not the url.
LEMMA WritesTenant ==
  ASSUME RtOK, NEW h \in Handlers, NEW w, w = rtWork[h], w # RtIdle, GoOn(h, "advance"),
         UNCHANGED <<rtJob, rtRole, rtDb, rtRealm, rtQueue, rtTimer>>,
         rtTenant' \in [Signups -> [status : {"ABSENT", "PENDING", "ACTIVE"}, url : SUBSET Passwords, realm : BOOLEAN]],
         \A t \in Signups : /\ rtTenant'[t].url = rtTenant[t].url
                            /\ rtTenant[t].realm => rtTenant'[t].realm
                            /\ rtTenant'[t].status = "ACTIVE" => rtTenant[t].status = "ACTIVE" \/ Reached(t, "DONE"),
         w.step \in DOMAIN RtNextStep, Reached(w.tenant, RtNextStep[w.step])'
  PROVE  RtOK'
  <1>1. Grows
    BY DEF Grows
  <1>2. \A t \in Signups : \A step : Reached(t, step) => Reached(t, step)'
    BY <1>1, StillReached
  <1>3. RowsInv'
    BY <1>2, RowTypes DEF RowsInv
  <1>4. NamesInv'
    BY RowTypes DEF NamesInv, Opens
  <1>5. PICK x \in Working : rtWork' = [rtWork EXCEPT ![h] = x] /\ HandlerInv(h, x)'
    BY <1>1, Advances
  <1> QED
    BY <1>1, <1>3, <1>4, <1>5, Queues, RowTypes, HandlerStep

LEMMA SaveRealmRt ==
  ASSUME RtOK, NEW h \in Handlers, SaveRealm(h) \/ Activate(h)
  PROVE  RtOK'
  <1>1. PICK w : w = rtWork[h]
    OBVIOUS
  <1>2. /\ w.at \in {"metadata", "activate"} /\ UNCHANGED <<rtJob, rtRole, rtDb, rtRealm, rtQueue, rtTimer>>
        /\ GoOn(h, "advance")
    BY <1>1 DEF SaveRealm, Activate, rtBuilt
  <1>3. w # RtIdle /\ HandlerInv(h, w) /\ w.tenant \in Signups /\ TenantOf(h) = w.tenant /\ Reached(w.tenant, w.step)
    BY <1>1, <1>2, InWork DEF HandlerInv
  <1>4. CASE SaveRealm(h)
    <2>1. rtTenant' = [rtTenant EXCEPT ![w.tenant].realm = TRUE] /\ w.at = "metadata"
      BY <1>1, <1>3, <1>4 DEF SaveRealm
    <2>2. rtTenant' \in [Signups -> [status : {"ABSENT", "PENDING", "ACTIVE"}, url : SUBSET Passwords, realm : BOOLEAN]]
      BY <1>3, <2>1, RowTypes
    <2>3. \A t \in Signups : /\ rtTenant'[t].url = rtTenant[t].url /\ rtTenant'[t].status = rtTenant[t].status
                             /\ rtTenant[t].realm => rtTenant'[t].realm
      BY <1>3, <2>1, RowTypes
    <2>4. rtTenant'[w.tenant].realm
      BY <1>3, <2>1, RowTypes
    <2>5. w.step = "KEYCLOAK_SETUP"
      BY <1>3, <2>1 DEF HandlerInv, StepOf
    <2>6. w.step \in DOMAIN RtNextStep /\ Reached(w.tenant, RtNextStep[w.step])'
      BY <1>2, <1>3, <2>3, <2>4, <2>5 DEF RtNextStep, Reached
    <2> QED
      BY <1>1, <1>2, <1>3, <2>2, <2>3, <2>6, WritesTenant
  <1>5. CASE Activate(h)
    <2>1. rtTenant' = [rtTenant EXCEPT ![w.tenant].status = "ACTIVE"] /\ w.at = "activate"
      BY <1>1, <1>3, <1>5 DEF Activate
    <2>2. rtTenant' \in [Signups -> [status : {"ABSENT", "PENDING", "ACTIVE"}, url : SUBSET Passwords, realm : BOOLEAN]]
      BY <1>3, <2>1, RowTypes
    <2>3. \A t \in Signups : /\ rtTenant'[t].url = rtTenant[t].url /\ rtTenant'[t].realm = rtTenant[t].realm
                             /\ t # w.tenant => rtTenant'[t].status = rtTenant[t].status
      BY <1>3, <2>1, RowTypes
    <2>4. w.step = "DONE"
      BY <1>3, <2>1 DEF HandlerInv, StepOf
    <2>5. w.step \in DOMAIN RtNextStep /\ Reached(w.tenant, RtNextStep[w.step])'
      BY <1>2, <1>3, <2>3, <2>4 DEF RtNextStep, Reached
    <2>6. \A t \in Signups : rtTenant'[t].status = "ACTIVE" => rtTenant[t].status = "ACTIVE" \/ Reached(t, "DONE")
      BY <1>3, <2>3, <2>4
    <2> QED
      BY <1>1, <1>2, <1>3, <2>2, <2>3, <2>5, <2>6, WritesTenant
  <1> QED
    BY <1>4, <1>5

LEMMA JobRt ==
  ASSUME RtOK, NEW h \in Handlers, AdvanceJob(h) \/ CatchError(h)
  PROVE  RtOK'
  <1>1. PICK w : w = rtWork[h]
    OBVIOUS
  <1>2. /\ w.at \in {"advance", "catch"} /\ UNCHANGED <<rtTenant, rtRole, rtDb, rtRealm, rtQueue>>
    BY <1>1 DEF AdvanceJob, CatchError, rtBuilt
  <1>3. w # RtIdle /\ HandlerInv(h, w) /\ w.tenant \in Signups /\ TenantOf(h) = w.tenant /\ w.attempts \in Nat
    BY <1>1, <1>2, InWork
  <1>4. \A t, step : Reached(t, step)' = Reached(t, step)
    BY <1>2 DEF Reached
  <1>5. Grows /\ NamesInv'
    BY <1>2, RowTypes DEF Grows, NamesInv, Opens
  <1>6. \A n \in Names : rtRole'[n] = rtRole[n] /\ rtDb'[n] = rtDb[n]
    BY <1>2
  <1>7. ASSUME NEW at \in {"after", "ack"}, GoOn(h, at)
        PROVE  \E x \in Working : rtWork' = [rtWork EXCEPT ![h] = x] /\ HandlerInv(h, x)'
    <2>1. PICK x : x = [w EXCEPT !.at = at]
      OBVIOUS
    <2>2. /\ rtWork' = [rtWork EXCEPT ![h] = x] /\ x \in Working
          /\ x.at = at /\ x.tenant = w.tenant /\ x.step = w.step /\ x.attempts = w.attempts
      BY <1>1, <1>3, <1>7, <2>1, JobGoesOn DEF CallNames
    <2>3. HandlerInv(h, x)'
      BY <1>3, <1>4, <1>7, <2>2 DEF HandlerInv, StepOf
    <2> QED
      BY <2>2, <2>3
  <1>8. ASSUME AdvanceJob(h) PROVE RtOK'
    <2>1. PICK next : next = RtNextStep[w.step]
      OBVIOUS
    <2>2. rtJob' = [rtJob EXCEPT ![w.tenant].step = next] /\ GoOn(h, "after") /\ UNCHANGED rtTimer /\ w.at = "advance"
      BY <1>1, <1>3, <1>8, <2>1 DEF AdvanceJob
    <2>3. next \in DOMAIN RtHandler /\ Reached(w.tenant, next)
      BY <1>3, <2>1, <2>2 DEF HandlerInv, RtNextStep, RtHandler
    <2>4. /\ rtJob' \in [Signups -> [step : DOMAIN RtHandler, attempts : Nat]]
          /\ \A t \in Signups : rtJob'[t].step = IF t = w.tenant THEN next ELSE rtJob[t].step
      BY <1>3, <2>2, <2>3, RowTypes
    <2>5. RowsInv'
      BY <1>2, <1>4, <2>3, <2>4, RowTypes DEF RowsInv
    <2>6. PICK x \in Working : rtWork' = [rtWork EXCEPT ![h] = x] /\ HandlerInv(h, x)'
      BY <1>7, <2>2
    <2> QED
      BY <1>2, <1>5, <1>6, <2>2, <2>4, <2>5, <2>6, Queues, RowTypes, HandlerStep
  <1>9. ASSUME CatchError(h) PROVE RtOK'
    <2>1. PICK final \in BOOLEAN : final <=> w.attempts + 1 >= 3
      OBVIOUS
    <2>2. /\ rtJob' = [rtJob EXCEPT ![w.tenant].attempts = w.attempts + 1,
                                    ![w.tenant].step = IF final THEN "FAILED" ELSE @]
          /\ rtTimer' = [rtTimer EXCEPT ![w.tenant] = IF final THEN @ ELSE @ + 1]
          /\ GoOn(h, "ack")
      BY <1>1, <1>3, <1>9, <2>1 DEF CatchError
    <2>3. rtTimer' \in [Signups -> Nat]
      BY <1>3, <2>2, Queues
    <2>4. /\ rtJob' \in [Signups -> [step : DOMAIN RtHandler, attempts : Nat]]
          /\ \A t \in Signups : rtJob'[t].step \in {rtJob[t].step, "FAILED"}
      BY <1>3, <2>2, RowTypes DEF RtHandler
    <2>5. \A t \in Signups : Reached(t, "FAILED")
      BY DEF Reached
    <2>6. RowsInv'
      BY <1>2, <1>4, <2>4, <2>5, RowTypes DEF RowsInv
    <2>7. PICK x \in Working : rtWork' = [rtWork EXCEPT ![h] = x] /\ HandlerInv(h, x)'
      BY <1>7, <2>2
    <2> QED
      BY <1>2, <1>5, <1>6, <2>3, <2>4, <2>6, <2>7, Queues, RowTypes, HandlerStep
  <1> QED
    BY <1>8, <1>9

LEMMA NextPipeline ==
  ASSUME RtOK, [RtNext]_rtVars
  PROVE  RtOK'
  <1>1. ASSUME RtStep PROVE RtOK'
    <2>1. ASSUME NEW t \in Signups, RtSignup(t) \/ RetryTimer(t) \/ \E h \in Handlers : Receive(h, t) PROVE RtOK'
      BY <2>1, SignupRt, OutboxRt, ReceiveRt
    <2>2. ASSUME NEW h \in Handlers,
                 \/ CreateUser(h) \/ CreateDatabase(h) \/ StoreUrl(h) \/ RunMigrations(h) \/ CreateRootUnit(h)
                 \/ CallKeycloak(h) \/ SaveRealm(h) \/ Activate(h) \/ AdvanceJob(h)
                 \/ ReadAfter(h) \/ EmitNextStep(h) \/ RtRefused(h) \/ CatchError(h) \/ AckMessage(h)
          PROVE  RtOK'
      BY <2>2, CreateUserRt, CreateDatabaseRt, StoreUrlRt, RunMigrationsRt, CreateRootUnitRt, CallKeycloakRt,
         SaveRealmRt, JobRt, QuietHandlerRt
    <2>3. ASSUME \E c \in Ticks : FindPending(c) \/ EmitEvent(c) \/ MarkPublished(c) \/ PublishFails(c) PROVE RtOK'
      BY <2>3, OutboxRt
    <2> QED
      BY <1>1, <2>1, <2>2, <2>3, RestartRt DEF RtStep
  <1> QED
    BY <1>1, OutboxRt DEF RtNext

\* Names are given out once, and a step is behind a tenant only with its work done.
THEOREM PipelineCorrect == RtSpec => [](RtTypeOK /\ RtInv)
  <1>1. RtOK /\ [RtNext]_rtVars => RtOK'
    BY NextPipeline
  <1>2. RtOK <=> RtTypeOK /\ RtInv
    BY DEF RtOK
  <1> QED
    BY InitPipeline, <1>1, <1>2, PTL DEF RtSpec

\* A stored url opens the tenant's own database, and who is ACTIVE has all of it.
THEOREM EveryTenantBuilt == RtSpec => []TenantsBuilt
  <1>1. ASSUME RtTypeOK, RtInv PROVE TenantsBuilt
    <2>1. RtOK /\ NamesInv /\ RowsInv
      BY <1>1 DEF RtOK, RtInv
    <2>2. ASSUME NEW t \in Signups, rtTenant[t].url # {}
          PROVE  /\ Opens(t)
                 /\ \A d \in rtDb[ShortId[t]] : d.owner = t
                 /\ \A u \in Signups \ {t} : ShortId[u] = ShortId[t] => rtTenant[u].url = {}
      <3>1. Opens(t) /\ \A p \in rtTenant[t].url : p[1] = t
        BY <2>1, <2>2 DEF NamesInv
      <3>2. PICK p \in rtTenant[t].url : p[1] = t
        BY <2>2, <3>1
      <3>3. rtTenant[t].url = rtRole[ShortId[t]] /\ ShortId[t] \in Names
        BY <3>1 DEF Opens, Names
      <3>4. \A d \in rtDb[ShortId[t]] : d.owner = t
        BY <2>1, <3>2, <3>3 DEF NamesInv
      <3>5. ASSUME NEW u \in Signups \ {t}, ShortId[u] = ShortId[t], rtTenant[u].url # {} PROVE FALSE
        <4>1. rtTenant[u].url = rtRole[ShortId[t]] /\ \A q \in rtTenant[u].url : q[1] = u
          BY <2>1, <3>5 DEF NamesInv, Opens
        <4> QED
          BY <3>2, <3>3, <3>5, <4>1
      <3> QED
        BY <3>1, <3>4, <3>5
    <2>3. ASSUME NEW t \in Signups, rtTenant[t].status = "ACTIVE"
          PROVE  /\ Opens(t)
                 /\ \A d \in rtDb[ShortId[t]] : d.migrated /\ d.roots > 0
                 /\ rtTenant[t].realm
      <3>1. Reached(t, "DONE")
        BY <2>1, <2>3 DEF RowsInv
      <3>2. /\ rtTenant[t].url # {} /\ rtTenant[t].realm
            /\ \A d \in rtDb[ShortId[t]] : d.migrated /\ d.roots > 0
        BY <3>1 DEF Reached
      <3> QED
        BY <2>2, <3>2
    <2> QED
      BY <2>2, <2>3 DEF TenantsBuilt, OwnDatabase, ActiveIsBuilt
  <1> QED
    BY <1>1, PipelineCorrect, PTL

(***************************************************************************)
(* No message is lost but in a retry.  While a job has never failed, a     *)
(* handler lets go of it only when it has sent the next message, or when   *)
(* somebody has written the step it worked on again; whoever wrote that    *)
(* has yet to send a message of its own, or has sent it since.             *)
(***************************************************************************)

\* Nobody's signup is undone, and nobody becomes PENDING but by a signup.
StatusKept ==
    \A t \in Signups : rtTenant'[t].status \in {rtTenant[t].status, "ACTIVE"}

\* What a handler does never touches the relay.
HandlerOnly(h) ==
    \/ CreateUser(h) \/ CreateDatabase(h) \/ StoreUrl(h) \/ RunMigrations(h) \/ CreateRootUnit(h)
    \/ CallKeycloak(h) \/ SaveRealm(h) \/ Activate(h) \/ AdvanceJob(h)
    \/ ReadAfter(h) \/ EmitNextStep(h) \/ RtRefused(h) \/ CatchError(h) \/ AckMessage(h)

LEMMA HandlersLeave ==
  ASSUME RtOK, NEW h \in Handlers, HandlerOnly(h) \/ \E t \in Signups : Receive(h, t)
  PROVE  StatusKept /\ UNCHANGED <<rtEvents, rtPublished, rtTick>>
  <1> USE DEF rtRows, rtOutbox
  <1>1. CASE HandlerOnly(h) /\ ~StoreUrl(h) /\ ~SaveRealm(h) /\ ~Activate(h)
    BY <1>1 DEF HandlerOnly, StatusKept, CreateUser, CreateDatabase, RunMigrations, CreateRootUnit, CallKeycloak,
                AdvanceJob, ReadAfter, EmitNextStep, RtRefused, CatchError, AckMessage
  <1>2. CASE StoreUrl(h) \/ SaveRealm(h) \/ Activate(h)
    <2>1. rtWork[h] # RtIdle
      BY <1>2, InWork DEF StoreUrl, SaveRealm, Activate
    <2>2. TenantOf(h) \in Signups
      BY <2>1, InWork
    <2>3. CASE StoreUrl(h)
      <3>1. PICK u : rtTenant' = [rtTenant EXCEPT ![TenantOf(h)].url = u]
        BY <2>3 DEF StoreUrl
      <3> QED
        BY <2>2, <2>3, <3>1, RowTypes DEF StatusKept, StoreUrl
    <2>4. CASE SaveRealm(h)
      <3>1. rtTenant' = [rtTenant EXCEPT ![TenantOf(h)].realm = TRUE]
        BY <2>4 DEF SaveRealm
      <3> QED
        BY <2>2, <2>4, <3>1, RowTypes DEF StatusKept, SaveRealm
    <2>5. CASE Activate(h)
      <3>1. rtTenant' = [rtTenant EXCEPT ![TenantOf(h)].status = "ACTIVE"]
        BY <2>5 DEF Activate
      <3> QED
        BY <2>2, <2>5, <3>1, RowTypes DEF StatusKept, Activate
    <2> QED
      BY <1>2, <2>3, <2>4, <2>5
  <1>3. CASE \E t \in Signups : Receive(h, t)
    BY <1>3 DEF Receive, StatusKept
  <1> QED
    BY <1>1, <1>2, <1>3

\* The relay knows of tenants that have signed up.
LEMMA EventsNext ==
  ASSUME RtOK, EventsInv, [RtNext]_rtVars
  PROVE  EventsInv'
  <1>1. ASSUME StatusKept, rtPublished' = rtPublished, rtEvents' = rtEvents,
               rtTick' \in [Ticks -> [batch : SUBSET Signups, emitted : SUBSET Signups]],
               \A c \in Ticks : rtTick'[c].batch \cup rtTick'[c].emitted
                                  \subseteq rtTick[c].batch \cup rtTick[c].emitted \cup Range(rtEvents)
        PROVE  EventsInv'
    <2>1. \A t \in Signups : rtTenant[t].status # "ABSENT" => rtTenant'[t].status # "ABSENT"
      BY <1>1 DEF StatusKept
    <2>2. Range(rtEvents) \subseteq Signups
      BY DEF EventsInv, Range
    <2>3. \A t \in Range(rtEvents) \cup rtPublished : rtTenant'[t].status # "ABSENT"
      BY <2>1, <2>2 DEF EventsInv
    <2>4. ASSUME NEW c \in Ticks, NEW t \in rtTick'[c].batch \cup rtTick'[c].emitted
          PROVE  rtTenant'[t].status # "ABSENT"
      <3>1. t \in Signups
        BY <1>1, <2>4
      <3>2. rtTenant[t].status # "ABSENT"
        BY <1>1, <2>4 DEF EventsInv
      <3> QED
        BY <2>1, <3>1, <3>2
    <2>5. Range(rtEvents)' = Range(rtEvents)
      BY <1>1 DEF Range
    <2> QED
      BY <1>1, <2>3, <2>4, <2>5 DEF EventsInv
  <1>2. ASSUME NEW t \in Signups, RtSignup(t) PROVE EventsInv'
    <2>1. /\ rtEvents' = Append(rtEvents, t) /\ UNCHANGED <<rtPublished, rtTick>>
          /\ \A u \in Signups : rtTenant[u].status # "ABSENT" \/ u = t => rtTenant'[u].status # "ABSENT"
      BY <1>2, RowTypes DEF RtSignup
    <2>2. rtEvents' \in Seq(Signups) /\ Range(rtEvents)' \subseteq Range(rtEvents) \cup {t}
      BY <2>1 DEF EventsInv, Range
    <2>3. Range(rtEvents) \subseteq Signups
      BY DEF EventsInv, Range
    <2>4. \A u \in Range(rtEvents)' \cup rtPublished' : rtTenant'[u].status # "ABSENT"
      BY <2>1, <2>2, <2>3 DEF EventsInv
    <2>5. \A c \in Ticks : \A u \in rtTick'[c].batch \cup rtTick'[c].emitted : rtTenant'[u].status # "ABSENT"
      BY <2>1 DEF EventsInv
    <2> QED
      BY <2>1, <2>2, <2>4, <2>5 DEF EventsInv
  <1>3. ASSUME NEW c \in Ticks, FindPending(c) \/ EmitEvent(c) \/ PublishFails(c) PROVE EventsInv'
    <2>1. StatusKept /\ UNCHANGED <<rtPublished, rtEvents>>
      BY <1>3 DEF FindPending, EmitEvent, PublishFails, rtRows, StatusKept
    <2>2. Range(rtEvents) \subseteq Signups
      BY DEF EventsInv, Range
    <2>3. \E batch, emitted \in SUBSET (rtTick[c].batch \cup Range(rtEvents)) :
             rtTick' = [rtTick EXCEPT ![c] = [batch |-> batch, emitted |-> emitted]]
      <3>1. CASE FindPending(c)
        BY <3>1 DEF FindPending, FirstPending, PendingEvents
      <3>2. CASE EmitEvent(c)
        <4>1. PICK t \in rtTick[c].batch : rtTick' = [rtTick EXCEPT ![c].emitted = {t}]
          BY <3>2 DEF EmitEvent, Oldest
        <4>2. rtTick' = [rtTick EXCEPT ![c] = [batch |-> rtTick[c].batch, emitted |-> {t}]]
          <5>1. PICK r \in [batch : SUBSET Signups, emitted : SUBSET Signups] : r = rtTick[c]
            BY DEF EventsInv
          <5>2. [r EXCEPT !.emitted = {t}] = [batch |-> r.batch, emitted |-> {t}]
            OBVIOUS
          <5>3. rtTick' = [rtTick EXCEPT ![c] = [r EXCEPT !.emitted = {t}]]
            BY <4>1, <5>1
          <5> QED
            BY <5>1, <5>2, <5>3
        <4>3. rtTick[c].batch \in SUBSET (rtTick[c].batch \cup Range(rtEvents)) /\ {t} \in SUBSET (rtTick[c].batch \cup Range(rtEvents))
          BY <4>1
        <4> QED
          BY <4>2, <4>3
      <3>3. CASE PublishFails(c)
        BY <3>3 DEF PublishFails, NextEvent
      <3> QED
        BY <1>3, <3>1, <3>2, <3>3
    <2>4. rtTick[c].batch \subseteq Signups
      BY DEF EventsInv
    <2>5. rtTick' \in [Ticks -> [batch : SUBSET Signups, emitted : SUBSET Signups]]
      BY <2>2, <2>3, <2>4 DEF EventsInv
    <2>6. \A d \in Ticks : rtTick'[d].batch \cup rtTick'[d].emitted
                               \subseteq rtTick[d].batch \cup rtTick[d].emitted \cup Range(rtEvents)
      BY <2>3 DEF EventsInv
    <2> QED
      BY <1>1, <2>1, <2>5, <2>6
  <1>4. ASSUME NEW c \in Ticks, MarkPublished(c) PROVE EventsInv'
    <2>1. PICK t \in rtTick[c].emitted :
             /\ rtPublished' = rtPublished \cup {t}
             /\ rtTick' = [rtTick EXCEPT ![c] = [batch |-> rtTick[c].batch \ {t}, emitted |-> {}]]
      BY <1>4 DEF MarkPublished, NextEvent
    <2>2. UNCHANGED <<rtTenant, rtEvents>> /\ t \in Signups /\ rtTenant[t].status # "ABSENT"
      BY <1>4, <2>1 DEF MarkPublished, rtRows, EventsInv
    <2>3. rtTick' \in [Ticks -> [batch : SUBSET Signups, emitted : SUBSET Signups]]
      BY <2>1 DEF EventsInv
    <2>4. \A d \in Ticks : rtTick'[d].batch \cup rtTick'[d].emitted \subseteq rtTick[d].batch \cup rtTick[d].emitted
      BY <2>1 DEF EventsInv
    <2>5. Range(rtEvents)' = Range(rtEvents)
      BY <2>2 DEF Range
    <2> QED
      BY <2>1, <2>2, <2>3, <2>4, <2>5 DEF EventsInv
  <1>5. ASSUME NEW h \in Handlers, HandlerOnly(h) \/ \E t \in Signups : Receive(h, t) PROVE EventsInv'
    BY <1>1, <1>5, HandlersLeave DEF EventsInv
  <1>6. ASSUME (\E t \in Signups : RetryTimer(t)) \/ UNCHANGED rtVars PROVE EventsInv'
    BY <1>1, <1>6 DEF RetryTimer, rtVars, rtRows, rtOutbox, StatusKept, EventsInv
  <1>7. ASSUME RtRestart PROVE EventsInv'
    BY <1>1, <1>7 DEF RtRestart, rtRows, StatusKept, EventsInv, Quiescent
  <1>8. CASE RtStep
    BY <1>2, <1>3, <1>4, <1>5, <1>6, <1>7, <1>8 DEF RtStep, HandlerOnly
  <1> QED
    BY <1>6, <1>8 DEF RtNext

\* A handler's step leaves the others what they have to do.
LEMMA OthersDriven ==
  ASSUME RtOK, NEW h \in Handlers, NEW x, rtWork' = [rtWork EXCEPT ![h] = x],
         NEW t \in Signups, Driven(t), rtJob'[t].step = rtJob[t].step,
         rtQueue[t] > 0 => rtQueue'[t] > 0,
         \/ TenantOf(h) # t
         \/ rtWork[h].at \in {"idle", "ack"}
         \/ rtWork[h].at = "after" /\ rtJob[t].step = rtWork[h].step
  PROVE  Driven(t)'
  <1>1. CASE rtQueue[t] > 0
    BY <1>1 DEF Driven
  <1>2. CASE \E g \in Handlers : /\ rtWork[g].at \notin {"idle", "ack"} /\ TenantOf(g) = t
                                 /\ rtWork[g].at = "after" => rtJob[t].step # rtWork[g].step
    <2>1. PICK g \in Handlers : /\ rtWork[g].at \notin {"idle", "ack"} /\ TenantOf(g) = t
                                /\ rtWork[g].at = "after" => rtJob[t].step # rtWork[g].step
      BY <1>2
    <2>2. g # h
      BY <2>1
    <2>3. rtWork'[g] = rtWork[g]
      BY <2>2
    <2> QED
      BY <2>1, <2>3 DEF Driven, TenantOf
  <1> QED
    BY <1>1, <1>2 DEF Driven

\* A handler that is at work drives its own job.
LEMMA ItselfDriven ==
  ASSUME RtOK, NEW h \in Handlers, NEW x, rtWork' = [rtWork EXCEPT ![h] = x],
         x.at \notin {"idle", "ack"},
         x.at = "after" => rtJob'[x.tenant].step # x.step
  PROVE  Driven(x.tenant)'
  <1>1. rtWork'[h] = x
    BY DEF RtOK, RtTypeOK
  <1> QED
    BY <1>1 DEF Driven, TenantOf

\* What a step of one handler has to show.
LEMMA AssembleDriven ==
  ASSUME RtOK, RtOK', DrivenInv, StatusKept, UNCHANGED <<rtPublished, rtTick>>,
         NEW h \in Handlers, NEW x, rtWork' = [rtWork EXCEPT ![h] = x],
         x.at = "advance" /\ x.step = "DONE" => rtTenant'[x.tenant].status = "ACTIVE",
         \A t \in Signups : rtJob'[t].step = "FAILED" => rtJob'[t].attempts > 0,
         \A t \in Signups : Sent(t) /\ rtTenant[t].status = "PENDING" /\ rtTenant'[t].status = "PENDING"
                               /\ rtJob'[t].attempts = 0 => Driven(t)'
  PROVE  DrivenInv'
  <1>1. \A t : Sent(t)' <=> Sent(t)
    BY DEF Sent
  <1>2. ASSUME NEW t \in Signups, Sent(t)', rtTenant'[t].status = "PENDING", rtJob'[t].attempts = 0
        PROVE  Driven(t)'
    BY <1>1, <1>2 DEF StatusKept
  <1>3. ASSUME NEW g \in Handlers, rtWork'[g].at = "advance", rtWork'[g].step = "DONE"
        PROVE  rtTenant'[rtWork'[g].tenant].status = "ACTIVE"
    <2>1. CASE g = h
      BY <1>3, <2>1 DEF RtOK, RtTypeOK
    <2>2. CASE g # h
      <3>1. rtWork'[g] = rtWork[g]
        BY <2>2
      <3>2. rtTenant[rtWork[g].tenant].status = "ACTIVE" /\ rtWork[g].tenant \in Signups
        BY <1>3, <3>1, InWork DEF DrivenInv, TenantOf
      <3> QED
        BY <3>1, <3>2 DEF StatusKept
    <2> QED
      BY <2>1, <2>2
  <1> QED
    BY <1>2, <1>3 DEF DrivenInv, TenantOf

\* A handler goes on with its step, or on to the emit.
LEMMA GoesOnDriven ==
  ASSUME RtOK, RtOK', DrivenInv, StatusKept, UNCHANGED <<rtPublished, rtTick, rtJob, rtQueue>>,
         NEW h \in Handlers, rtWork[h] # RtIdle, NEW at \in CallNames \ {"ack", "after"}, GoOn(h, at),
         at = "advance" /\ rtWork[h].step = "DONE" => rtTenant'[TenantOf(h)].status = "ACTIVE"
  PROVE  DrivenInv'
  <1>1. PICK w : w = rtWork[h]
    OBVIOUS
  <1>2. PICK x : x = [w EXCEPT !.at = at]
    OBVIOUS
  <1>3. /\ rtWork' = [rtWork EXCEPT ![h] = x]
        /\ x.at = at /\ x.tenant = w.tenant /\ x.step = w.step /\ w.tenant = TenantOf(h)
    BY <1>1, <1>2, JobGoesOn DEF TenantOf
  <1>4. ASSUME NEW t \in Signups, Driven(t) PROVE Driven(t)'
    <2>1. CASE t = x.tenant
      BY <1>3, <2>1, ItselfDriven DEF CallNames
    <2>2. CASE t # x.tenant
      BY <1>3, <1>4, <2>2, OthersDriven
    <2> QED
      BY <2>1, <2>2
  <1> QED
    BY <1>1, <1>3, <1>4, AssembleDriven DEF DrivenInv

\* The calls of the step handlers.
LEMMA CallsDriven ==
  ASSUME RtOK, RtOK', DrivenInv, NEW h \in Handlers,
         \/ CreateUser(h) \/ CreateDatabase(h) \/ StoreUrl(h) \/ RunMigrations(h) \/ CreateRootUnit(h)
         \/ CallKeycloak(h) \/ SaveRealm(h) \/ Activate(h) \/ RtRefused(h)
  PROVE  DrivenInv'
  <1>1. StatusKept /\ UNCHANGED <<rtPublished, rtTick, rtJob, rtQueue>> /\ rtWork[h] # RtIdle
    <2>1. StatusKept /\ UNCHANGED <<rtPublished, rtTick>>
      BY HandlersLeave DEF HandlerOnly
    <2>2. UNCHANGED <<rtJob, rtQueue>>
      BY DEF CreateUser, CreateDatabase, StoreUrl, RunMigrations, CreateRootUnit, CallKeycloak, SaveRealm, Activate,
             RtRefused, rtRows
    <2>3. rtWork[h].at # "idle"
      BY DEF CreateUser, CreateDatabase, StoreUrl, RunMigrations, CreateRootUnit, CallKeycloak, SaveRealm, Activate,
             RtRefused, RtKeycloakCalls
    <2>4. rtWork[h] # RtIdle
      BY <2>3 DEF RtIdle
    <2> QED
      BY <2>1, <2>2, <2>4
  <1>2. TenantOf(h) \in Signups /\ (rtWork[h].at \in DOMAIN StepOf => rtWork[h].step = StepOf[rtWork[h].at])
    BY <1>1, InWork DEF HandlerInv
  <1>3. CASE Activate(h)
    <2>1. rtTenant'[TenantOf(h)].status = "ACTIVE" /\ GoOn(h, "advance")
      BY <1>2, <1>3, RowTypes DEF Activate
    <2> QED
      BY <1>1, <2>1, GoesOnDriven DEF CallNames
  <1>4. CASE RtRefused(h)
    <2>1. \E at \in {"catch", "hung"} : GoOn(h, at)
      BY <1>4 DEF RtRefused
    <2> QED
      BY <1>1, <2>1, GoesOnDriven DEF CallNames
  <1>5. CASE CallKeycloak(h)
    <2>1. \E at \in {"client", "admin", "metadata"} : GoOn(h, at)
      BY <1>5 DEF CallKeycloak, RtKeycloakCalls
    <2> QED
      BY <1>1, <2>1, GoesOnDriven DEF CallNames
  <1>6. CASE CreateUser(h) \/ CreateDatabase(h) \/ StoreUrl(h) \/ RunMigrations(h) \/ CreateRootUnit(h) \/ SaveRealm(h)
    <2>1. \E at \in {"database", "url", "advance", "catch"} : GoOn(h, at)
      BY <1>6 DEF CreateUser, CreateDatabase, StoreUrl, RunMigrations, CreateRootUnit, SaveRealm
    <2>2. rtWork[h].step # "DONE"
      BY <1>2, <1>6 DEF CreateUser, CreateDatabase, StoreUrl, RunMigrations, CreateRootUnit, SaveRealm, StepOf
    <2> QED
      BY <1>1, <2>1, <2>2, GoesOnDriven DEF CallNames
  <1> QED
    BY <1>3, <1>4, <1>5, <1>6

\* The writes of job.step: a handler that has advanced it has a message to send,
\* unless the tenant is ACTIVE; a failure has been counted.
LEMMA WritesDriven ==
  ASSUME RtOK, RtOK', DrivenInv, NEW h \in Handlers, AdvanceJob(h) \/ CatchError(h)
  PROVE  DrivenInv'
  <1>1. PICK w : w = rtWork[h]
    OBVIOUS
  <1>2. /\ StatusKept /\ UNCHANGED <<rtPublished, rtTick, rtTenant, rtQueue>> /\ w # RtIdle
        /\ w.at \in {"advance", "catch"}
    BY <1>1, HandlersLeave DEF HandlerOnly, RtIdle, AdvanceJob, CatchError
  <1>3. HandlerInv(h, w) /\ w.tenant \in Signups /\ TenantOf(h) = w.tenant /\ w.attempts \in Nat
    BY <1>1, <1>2, InWork
  <1>4. CASE AdvanceJob(h)
    <2>1. PICK x : x = [w EXCEPT !.at = "after"]
      OBVIOUS
    <2>2. /\ rtWork' = [rtWork EXCEPT ![h] = x] /\ x.at = "after" /\ x.tenant = w.tenant /\ x.step = w.step
      BY <1>1, <1>2, <1>4, <2>1, JobGoesOn DEF AdvanceJob, CallNames
    <2>3. /\ w.at = "advance" /\ w.step \in DOMAIN RtNextStep
          /\ rtJob' = [rtJob EXCEPT ![w.tenant].step = RtNextStep[w.step]]
      <3>1. w.at = "advance" /\ rtJob' = [rtJob EXCEPT ![TenantOf(h)].step = RtNextStep[w.step]]
        BY <1>1, <1>4 DEF AdvanceJob
      <3>2. w.step \in DOMAIN RtNextStep
        BY <1>2, <1>3, <3>1 DEF HandlerInv
      <3> QED
        BY <1>3, <3>1, <3>2
    <2>4. RtNextStep[w.step] # "FAILED" /\ (w.step # "DONE" => RtNextStep[w.step] # w.step)
      BY <2>3 DEF RtNextStep
    <2>5. /\ rtJob'[w.tenant].step = RtNextStep[w.step]
          /\ \A t \in Signups : rtJob'[t].attempts = rtJob[t].attempts /\ (t # w.tenant => rtJob'[t] = rtJob[t])
      BY <1>3, <2>3, RowTypes
    <2>6. ASSUME NEW t \in Signups, Sent(t), rtTenant[t].status = "PENDING", rtJob'[t].attempts = 0
          PROVE  Driven(t)'
      <3>1. CASE t = w.tenant
        <4>1. w.step # "DONE"
          BY <1>1, <1>3, <2>3, <2>6, <3>1 DEF DrivenInv
        <4> QED
          BY <2>2, <2>4, <2>5, <3>1, <4>1, ItselfDriven
      <3>2. CASE t # w.tenant
        <4>1. Driven(t)
          BY <2>5, <2>6 DEF DrivenInv
        <4> QED
          BY <1>2, <1>3, <2>2, <2>5, <3>2, <4>1, OthersDriven
      <3> QED
        BY <3>1, <3>2
    <2>7. \A t \in Signups : rtJob'[t].step = "FAILED" => rtJob'[t].attempts > 0
      BY <2>4, <2>5 DEF DrivenInv
    <2> QED
      BY <1>2, <2>2, <2>6, <2>7, AssembleDriven
  <1>5. CASE CatchError(h)
    <2>1. PICK x : x = [w EXCEPT !.at = "ack"]
      OBVIOUS
    <2>2. /\ rtWork' = [rtWork EXCEPT ![h] = x] /\ x.at = "ack"
      BY <1>1, <1>2, <1>5, <2>1, JobGoesOn DEF CatchError, CallNames
    <2>3. \A t \in Signups : /\ t = w.tenant => rtJob'[t].attempts = w.attempts + 1
                             /\ t # w.tenant => rtJob'[t] = rtJob[t]
      <3>1. PICK next : rtJob' = [rtJob EXCEPT ![w.tenant].attempts = w.attempts + 1, ![w.tenant].step = next]
        BY <1>1, <1>3, <1>5 DEF CatchError
      <3> QED
        BY <1>3, <3>1, RowTypes
    <2>4. ASSUME NEW t \in Signups, Sent(t), rtTenant[t].status = "PENDING", rtJob'[t].attempts = 0
          PROVE  Driven(t)'
      <3>1. t # w.tenant
        BY <1>3, <2>3, <2>4
      <3>2. Driven(t)
        BY <2>3, <2>4, <3>1 DEF DrivenInv
      <3> QED
        BY <1>2, <1>3, <2>2, <2>3, <3>1, <3>2, OthersDriven
    <2>5. \A t \in Signups : rtJob'[t].step = "FAILED" => rtJob'[t].attempts > 0
      BY <1>3, <2>3 DEF DrivenInv
    <2> QED
      BY <1>2, <2>2, <2>4, <2>5, AssembleDriven
  <1> QED
    BY <1>4, <1>5

\* The decision, the emit and the acknowledgement.
LEMMA ReadsDriven ==
  ASSUME RtOK, RtOK', DrivenInv, NEW h \in Handlers, ReadAfter(h)
  PROVE  DrivenInv'
  <1>1. PICK w : w = rtWork[h]
    OBVIOUS
  <1>2. /\ w.at = "after" /\ UNCHANGED <<rtTenant, rtJob, rtQueue, rtPublished, rtTick>>
        /\ GoOn(h, IF rtJob[TenantOf(h)].step \in {w.step, "FAILED"} THEN "ack" ELSE "emit")
    BY <1>1 DEF ReadAfter, rtRows, rtOutbox
  <1>3. StatusKept
    BY <1>2 DEF StatusKept
  <1>4. w # RtIdle
    BY <1>2 DEF RtIdle
  <1>5. w.tenant \in Signups /\ TenantOf(h) = w.tenant
    BY <1>1, <1>4, InWork
  <1>6. CASE rtJob[w.tenant].step \notin {w.step, "FAILED"}
    <2>1. GoOn(h, "emit") /\ "emit" \in CallNames \ {"ack", "after"}
      BY <1>2, <1>5, <1>6 DEF CallNames
    <2> QED
      BY <1>1, <1>2, <1>3, <1>4, <2>1, GoesOnDriven
  <1>7. CASE rtJob[w.tenant].step \in {w.step, "FAILED"}
    <2>1. PICK x : x = [w EXCEPT !.at = "ack"]
      OBVIOUS
    <2>2. GoOn(h, "ack")
      BY <1>2, <1>5, <1>7
    <2>3. rtWork' = [rtWork EXCEPT ![h] = x] /\ x.at = "ack"
      BY <1>1, <1>4, <2>1, <2>2, JobGoesOn DEF CallNames
    <2>4. ASSUME NEW t \in Signups, Sent(t), rtTenant[t].status = "PENDING", rtJob'[t].attempts = 0
          PROVE  Driven(t)'
      <3>1. Driven(t) /\ rtJob[t].step # "FAILED"
        BY <1>2, <2>4 DEF DrivenInv
      <3>2. t # w.tenant \/ rtJob[t].step = w.step
        BY <1>7, <3>1
      <3> QED
        BY <1>1, <1>2, <1>5, <2>3, <3>1, <3>2, OthersDriven
    <2> QED
      BY <1>2, <1>3, <2>3, <2>4, AssembleDriven DEF DrivenInv
  <1> QED
    BY <1>6, <1>7

LEMMA EmitsDriven ==
  ASSUME RtOK, RtOK', DrivenInv, NEW h \in Handlers, EmitNextStep(h)
  PROVE  DrivenInv'
  <1>1. PICK w : w = rtWork[h]
    OBVIOUS
  <1>2. /\ w.at = "emit" /\ UNCHANGED <<rtTenant, rtJob, rtPublished, rtTick>>
        /\ Send(TenantOf(h)) /\ GoOn(h, "ack")
    BY <1>1 DEF EmitNextStep, rtRows, rtOutbox
  <1>3. StatusKept
    BY <1>2 DEF StatusKept
  <1>4. w # RtIdle
    BY <1>2 DEF RtIdle
  <1>5. w.tenant \in Signups /\ TenantOf(h) = w.tenant
    BY <1>1, <1>4, InWork
  <1>6. PICK x : x = [w EXCEPT !.at = "ack"]
    OBVIOUS
  <1>7. rtWork' = [rtWork EXCEPT ![h] = x] /\ x.at = "ack"
    BY <1>1, <1>2, <1>4, <1>6, JobGoesOn DEF CallNames
  <1>8. \A t \in Signups : rtQueue[t] \in Nat /\ rtQueue'[t] = IF t = w.tenant THEN rtQueue[t] + 1 ELSE rtQueue[t]
    BY <1>2, <1>5, Queues DEF Send
  <1>9. ASSUME NEW t \in Signups, Sent(t), rtTenant[t].status = "PENDING", rtJob'[t].attempts = 0
        PROVE  Driven(t)'
    <2>1. CASE t = w.tenant
      BY <1>8, <2>1 DEF Driven
    <2>2. CASE t # w.tenant
      <3>1. Driven(t) /\ rtQueue'[t] = rtQueue[t]
        BY <1>2, <1>8, <1>9, <2>2 DEF DrivenInv
      <3> QED
        BY <1>2, <1>5, <1>7, <2>2, <3>1, OthersDriven
    <2> QED
      BY <2>1, <2>2
  <1> QED
    BY <1>2, <1>3, <1>7, <1>9, AssembleDriven DEF DrivenInv

LEMMA AcksDriven ==
  ASSUME RtOK, RtOK', DrivenInv, NEW h \in Handlers, AckMessage(h)
  PROVE  DrivenInv'
  <1>1. /\ rtWork[h].at = "ack" /\ UNCHANGED <<rtTenant, rtJob, rtQueue, rtPublished, rtTick>>
        /\ rtWork' = [rtWork EXCEPT ![h] = RtIdle]
    BY DEF AckMessage, rtRows, rtOutbox
  <1>2. StatusKept /\ RtIdle.at # "advance"
    BY <1>1 DEF StatusKept, RtIdle
  <1>3. ASSUME NEW t \in Signups, Sent(t), rtTenant[t].status = "PENDING", rtJob'[t].attempts = 0
        PROVE  Driven(t)'
    <2>1. Driven(t)
      BY <1>1, <1>3 DEF DrivenInv
    <2> QED
      BY <1>1, <2>1, OthersDriven
  <1> QED
    BY <1>1, <1>2, <1>3, AssembleDriven DEF DrivenInv

\* A delivery: who takes the message drives the job, unless it has FAILED.
LEMMA ReceiveDriven ==
  ASSUME RtOK, RtOK', DrivenInv, NEW h \in Handlers, NEW t \in Signups, Receive(h, t)
  PROVE  DrivenInv'
  <1>1. PICK step : step = rtJob[t].step
    OBVIOUS
  <1>2. PICK x : x = [at |-> RtHandler[step], tenant |-> t, step |-> step, attempts |-> rtJob[t].attempts]
    OBVIOUS
  <1>3. /\ rtWork[h].at = "idle" /\ rtWork' = [rtWork EXCEPT ![h] = x]
        /\ rtQueue' = [rtQueue EXCEPT ![t] = @ - 1]
        /\ UNCHANGED <<rtTenant, rtJob, rtPublished, rtTick>>
    BY <1>1, <1>2 DEF Receive, rtRows, rtOutbox
  <1>4. StatusKept
    BY <1>3 DEF StatusKept
  <1>5. step \in DOMAIN RtHandler
    BY <1>1 DEF RtOK, RtTypeOK
  <1>6. x.at \notin {"idle", "after", "advance"} /\ (x.at = "ack" => step = "FAILED") /\ x.tenant = t
    BY <1>2, <1>5 DEF RtHandler
  <1>7. ASSUME NEW u \in Signups, Sent(u), rtTenant[u].status = "PENDING", rtJob'[u].attempts = 0
        PROVE  Driven(u)'
    <2>1. Driven(u) /\ rtJob[u].step # "FAILED"
      BY <1>3, <1>7 DEF DrivenInv
    <2>2. CASE u = t
      BY <1>1, <1>3, <1>6, <2>1, <2>2, ItselfDriven
    <2>3. CASE u # t
      <3>1. rtQueue'[u] = rtQueue[u]
        BY <1>3, <2>3, Queues
      <3> QED
        BY <1>3, <2>1, <3>1, OthersDriven
    <2> QED
      BY <2>2, <2>3
  <1> QED
    BY <1>3, <1>4, <1>6, <1>7, AssembleDriven DEF DrivenInv

\* What a step of no handler has to show: an event counts as sent only with a
\* message of its own.
LEMMA RelayDriven ==
  ASSUME RtOK, DrivenInv, UNCHANGED <<rtTenant, rtJob, rtWork>>,
         \A t \in Signups : rtQueue[t] > 0 => rtQueue'[t] > 0,
         \A t \in Signups : Sent(t)' => Sent(t) \/ rtQueue'[t] > 0
  PROVE  DrivenInv'
  <1>1. ASSUME NEW t \in Signups, Driven(t) PROVE Driven(t)'
    BY <1>1 DEF Driven, TenantOf
  <1>2. \A t \in Signups : rtQueue'[t] > 0 => Driven(t)'
    BY DEF Driven
  <1>3. ASSUME NEW t \in Signups, Sent(t)', rtTenant'[t].status = "PENDING", rtJob'[t].attempts = 0
        PROVE  Driven(t)'
    BY <1>1, <1>2, <1>3 DEF DrivenInv
  <1>4. \A t \in Signups : rtJob'[t].step = "FAILED" => rtJob'[t].attempts > 0
    BY DEF DrivenInv
  <1>5. \A h \in Handlers : rtWork'[h].at = "advance" /\ rtWork'[h].step = "DONE" => rtTenant'[rtWork'[h].tenant].status = "ACTIVE"
    BY DEF DrivenInv, TenantOf
  <1> QED
    BY <1>3, <1>4, <1>5 DEF DrivenInv, TenantOf

LEMMA TicksDriven ==
  ASSUME RtOK, EventsInv, DrivenInv,
         \/ \E c \in Ticks : FindPending(c) \/ EmitEvent(c) \/ MarkPublished(c) \/ PublishFails(c)
         \/ \E t \in Signups : RetryTimer(t)
         \/ UNCHANGED rtVars
  PROVE  DrivenInv'
  <1>1. ASSUME NEW t \in Signups, Send(t)
        PROVE  /\ rtQueue'[t] > 0
               /\ \A u \in Signups : rtQueue[u] > 0 => rtQueue'[u] > 0
    <2>1. rtQueue \in [Signups -> Nat] /\ rtQueue' = [rtQueue EXCEPT ![t] = @ + 1]
      BY <1>1, Queues DEF Send
    <2> QED
      BY <2>1
  <1>2. ASSUME NEW c \in Ticks, FindPending(c) \/ PublishFails(c) PROVE DrivenInv'
    <2>1. UNCHANGED <<rtTenant, rtJob, rtWork, rtQueue, rtPublished>>
      BY <1>2 DEF FindPending, PublishFails, rtRows
    <2>2. \E batch : rtTick' = [rtTick EXCEPT ![c] = [batch |-> batch, emitted |-> {}]]
      BY <1>2 DEF FindPending, PublishFails, NextEvent
    <2>3. \A d \in Ticks : rtTick'[d].emitted \subseteq rtTick[d].emitted
      BY <2>2 DEF EventsInv
    <2>4. \A t \in Signups : Sent(t)' => Sent(t)
      BY <2>1, <2>3 DEF Sent
    <2> QED
      BY <2>1, <2>4, RelayDriven
  <1>3. ASSUME NEW c \in Ticks, EmitEvent(c) PROVE DrivenInv'
    <2>1. PICK t \in rtTick[c].batch : Send(t) /\ rtTick' = [rtTick EXCEPT ![c].emitted = {t}]
      BY <1>3 DEF EmitEvent, Oldest
    <2>2. t \in Signups /\ UNCHANGED <<rtTenant, rtJob, rtWork, rtPublished>>
      BY <1>3, <2>1 DEF EmitEvent, rtRows, EventsInv
    <2>3. \A d \in Ticks : rtTick'[d].emitted \subseteq rtTick[d].emitted \cup {t}
      BY <2>1 DEF EventsInv
    <2>4. \A u \in Signups : Sent(u)' => Sent(u) \/ u = t
      BY <2>2, <2>3 DEF Sent
    <2> QED
      BY <1>1, <2>1, <2>2, <2>4, RelayDriven
  <1>4. ASSUME NEW c \in Ticks, MarkPublished(c) PROVE DrivenInv'
    <2>1. PICK t \in rtTick[c].emitted :
             /\ rtPublished' = rtPublished \cup {t}
             /\ rtTick' = [rtTick EXCEPT ![c] = [batch |-> rtTick[c].batch \ {t}, emitted |-> {}]]
      BY <1>4 DEF MarkPublished, NextEvent
    <2>2. UNCHANGED <<rtTenant, rtJob, rtWork, rtQueue>> /\ Sent(t)
      BY <1>4, <2>1 DEF MarkPublished, rtRows, Sent
    <2>3. \A d \in Ticks : rtTick'[d].emitted \subseteq rtTick[d].emitted
      BY <2>1 DEF EventsInv
    <2>4. \A u \in Signups : Sent(u)' => Sent(u)
      BY <2>1, <2>2, <2>3 DEF Sent
    <2> QED
      BY <2>2, <2>4, RelayDriven
  <1>5. ASSUME NEW t \in Signups, RetryTimer(t) PROVE DrivenInv'
    <2>1. UNCHANGED <<rtTenant, rtJob, rtWork, rtPublished, rtTick>> /\ (Send(t) \/ UNCHANGED rtQueue)
      BY <1>5 DEF RetryTimer, rtRows, rtOutbox
    <2>2. \A u \in Signups : Sent(u)' => Sent(u)
      BY <2>1 DEF Sent
    <2> QED
      BY <1>1, <2>1, <2>2, RelayDriven
  <1>6. ASSUME UNCHANGED rtVars PROVE DrivenInv'
    <2>1. UNCHANGED <<rtTenant, rtJob, rtWork, rtQueue, rtPublished, rtTick>>
      BY <1>6 DEF rtVars, rtRows, rtOutbox
    <2>2. \A u \in Signups : Sent(u)' => Sent(u)
      BY <2>1 DEF Sent
    <2> QED
      BY <2>1, <2>2, RelayDriven
  <1> QED
    BY <1>2, <1>3, <1>4, <1>5, <1>6

\* A signup has an event that nobody has sent yet.
LEMMA SignupDriven ==
  ASSUME RtOK, EventsInv, DrivenInv, NEW t \in Signups, RtSignup(t)
  PROVE  DrivenInv'
  <1>1. /\ rtTenant[t].status = "ABSENT" /\ rtTenant' = [rtTenant EXCEPT ![t].status = "PENDING"]
        /\ UNCHANGED <<rtJob, rtWork, rtQueue, rtPublished, rtTick>>
    BY DEF RtSignup
  <1>2. \A u \in Signups \ {t} : rtTenant'[u] = rtTenant[u]
    BY <1>1, RowTypes
  <1>3. ~Sent(t)
    BY <1>1 DEF EventsInv, Sent
  <1>4. \A u \in Signups : (Sent(u)' <=> Sent(u)) /\ (Driven(u)' <=> Driven(u))
    BY <1>1 DEF Sent, Driven, TenantOf
  <1>5. \A u \in Signups : Sent(u)' /\ rtTenant'[u].status = "PENDING" /\ rtJob'[u].attempts = 0 => Driven(u)'
    BY <1>1, <1>2, <1>3, <1>4 DEF DrivenInv
  <1>6. ASSUME NEW h \in Handlers, rtWork[h].at = "advance", rtWork[h].step = "DONE"
        PROVE  rtTenant'[rtWork[h].tenant].status = "ACTIVE"
    <2>1. rtWork[h].tenant \in Signups /\ rtTenant[rtWork[h].tenant].status = "ACTIVE"
      BY <1>6, InWork DEF DrivenInv, TenantOf
    <2>2. rtWork[h].tenant # t
      BY <1>1, <2>1
    <2> QED
      BY <1>2, <2>1, <2>2
  <1> QED
    BY <1>1, <1>5, <1>6 DEF DrivenInv, TenantOf

\* After a restart every delivery that was in work waits again.
LEMMA RestartDriven ==
  ASSUME RtOK, EventsInv, DrivenInv, RtRestart
  PROVE  DrivenInv'
  <1>1. /\ rtQueue' = [t \in Signups |-> rtQueue[t] + Cardinality({h \in Handlers : TenantOf(h) = t})]
        /\ rtWork' = [h \in Handlers |-> RtIdle] /\ rtTick' = [c \in Ticks |-> Quiescent]
        /\ UNCHANGED <<rtTenant, rtJob, rtPublished>>
    BY DEF RtRestart, rtRows
  <1>2. \A t \in Signups : Sent(t)' => Sent(t)
    BY <1>1 DEF Sent, Quiescent
  <1>3. ASSUME NEW t \in Signups, Driven(t) PROVE Driven(t)'
    <2>1. PICK taken : taken = {h \in Handlers : TenantOf(h) = t}
      OBVIOUS
    <2>2. IsFiniteSet(taken)
      BY <2>1, RuntimeAssumption, FS_Subset
    <2>3. Cardinality(taken) \in Nat /\ (taken # {} => Cardinality(taken) > 0)
      BY <2>2, FS_CardinalityType, FS_EmptySet
    <2>4. rtQueue'[t] = rtQueue[t] + Cardinality(taken) /\ rtQueue[t] \in Nat
      BY <1>1, <2>1, Queues
    <2>5. rtQueue[t] > 0 \/ taken # {}
      BY <1>3, <2>1 DEF Driven
    <2>6. rtQueue'[t] > 0
      BY <2>3, <2>4, <2>5
    <2> QED
      BY <2>6 DEF Driven
  <1>4. \A t \in Signups : Sent(t)' /\ rtTenant'[t].status = "PENDING" /\ rtJob'[t].attempts = 0 => Driven(t)'
    BY <1>1, <1>2, <1>3 DEF DrivenInv
  <1>5. \A h \in Handlers : rtWork'[h].at # "advance"
    BY <1>1 DEF RtIdle
  <1> QED
    BY <1>1, <1>4, <1>5 DEF DrivenInv

RelayOK == RtOK /\ RelayInv

LEMMA InitRelay == RtInit => RelayInv
  <1> SUFFICES ASSUME RtInit PROVE RelayInv
    OBVIOUS
  <1>1. /\ rtEvents = <<>> /\ rtPublished = {} /\ rtTick = [c \in Ticks |-> Quiescent]
        /\ rtJob = [t \in Signups |-> [step |-> "CREATE_DB", attempts |-> 0]]
        /\ rtWork = [h \in Handlers |-> RtIdle]
    BY DEF RtInit
  <1>2. Range(rtEvents) = {}
    BY <1>1 DEF Range
  <1>3. rtTick \in [Ticks -> [batch : SUBSET Signups, emitted : SUBSET Signups]]
    BY <1>1 DEF Quiescent
  <1>4. EventsInv
    BY <1>1, <1>2, <1>3 DEF EventsInv, Quiescent
  <1>5. \A t \in Signups : ~Sent(t)
    BY <1>1 DEF Sent, Quiescent
  <1>6. DrivenInv
    BY <1>1, <1>5 DEF DrivenInv, RtIdle
  <1> QED
    BY <1>4, <1>6 DEF RelayInv

LEMMA NextRelay == RelayOK /\ [RtNext]_rtVars => RelayOK'
  <1> SUFFICES ASSUME RelayOK, [RtNext]_rtVars PROVE RelayOK'
    OBVIOUS
  <1>1. RtOK /\ EventsInv /\ DrivenInv
    BY DEF RelayOK, RelayInv
  <1>2. RtOK'
    BY <1>1, NextPipeline
  <1>3. EventsInv'
    BY <1>1, EventsNext
  <1>4. ASSUME NEW h \in Handlers, HandlerOnly(h) PROVE DrivenInv'
    BY <1>1, <1>2, <1>4, CallsDriven, WritesDriven, ReadsDriven, EmitsDriven, AcksDriven DEF HandlerOnly
  <1>5. ASSUME RtStep PROVE DrivenInv'
    BY <1>1, <1>2, <1>4, <1>5, TicksDriven, SignupDriven, ReceiveDriven, RestartDriven DEF RtStep, HandlerOnly
  <1>6. ASSUME UNCHANGED rtVars PROVE DrivenInv'
    BY <1>1, <1>6, TicksDriven
  <1>7. DrivenInv'
    BY <1>5, <1>6 DEF RtNext
  <1> QED
    BY <1>2, <1>3, <1>7 DEF RelayOK, RelayInv

\* An event that was sent has a message on its way or a handler that will send
\* the next one, until the job has failed or the tenant is ACTIVE.
THEOREM RelayCorrect == RtSpec => []RelayInv
  <1>1. RtInit => RelayOK
    BY InitPipeline, InitRelay DEF RelayOK
  <1>2. RelayOK => RelayInv
    BY DEF RelayOK
  <1> QED
    BY <1>1, <1>2, NextRelay, PTL DEF RtSpec

\* A restart loses retries and nothing else.
THEOREM NothingButRetriesLost == RtSpec => []OnlyRetriesAreLost
  <1>1. ASSUME RelayInv PROVE OnlyRetriesAreLost
    <2> SUFFICES ASSUME NEW t \in Signups, rtTenant[t].status = "PENDING", rtJob[t].attempts = 0, t \in rtPublished
                 PROVE  rtQueue[t] > 0 \/ \E h \in Handlers : TenantOf(h) = t
      BY DEF OnlyRetriesAreLost
    <2>1. Driven(t)
      BY <1>1 DEF RelayInv, DrivenInv, Sent
    <2> QED
      BY <2>1 DEF Driven
  <1> QED
    BY <1>1, RelayCorrect, PTL

-----------------------------------------------------------------------------
(* The screens that act on rows *)

ScreensOK == ScreensTypeOK /\ ScreensInv

\* The moves of each screen's backend, read off the two tables.
LEMMA MovesOfSwaps ==
  Moves("swaps") = {<<"DRAFT", "submit", "PENDING_PEER">>, <<"DRAFT", "cancel", "CANCELLED">>,
                    <<"PENDING_PEER", "peer-accept", "PEER_AGREED">>, <<"PENDING_PEER", "peer-reject", "REJECTED">>,
                    <<"PENDING_PEER", "cancel", "CANCELLED">>,
                    <<"PEER_AGREED", "to-manager", "PENDING_MANAGER">>, <<"PEER_AGREED", "cancel", "CANCELLED">>,
                    <<"PENDING_MANAGER", "approve", "APPROVED">>, <<"PENDING_MANAGER", "reject", "REJECTED">>,
                    <<"PENDING_MANAGER", "cancel", "CANCELLED">>}
  <1> DEFINE AsClicked ==
        {<<"DRAFT", "submit", "PENDING_PEER">>, <<"DRAFT", "cancel", "CANCELLED">>,
         <<"PENDING_PEER", "peer-accept", "PEER_AGREED">>, <<"PENDING_PEER", "peer-reject", "REJECTED">>,
         <<"PENDING_PEER", "cancel", "CANCELLED">>,
         <<"PEER_AGREED", "to-manager", "PENDING_MANAGER">>, <<"PEER_AGREED", "cancel", "CANCELLED">>,
         <<"PENDING_MANAGER", "approve", "APPROVED">>, <<"PENDING_MANAGER", "reject", "REJECTED">>,
         <<"PENDING_MANAGER", "cancel", "CANCELLED">>}
  <1>1. Moves("swaps") = Renamed(SwapTable!TRANSITIONS, SwapCall)
    BY DEF Moves
  <1>2. DOMAIN SwapCall = {"submit", "peer_accept", "peer_reject", "submit_to_manager", "manager_approve",
                           "manager_reject", "cancel"}
    BY DEF SwapCall
  <1>3. /\ SwapCall["submit"] = "submit" /\ SwapCall["peer_accept"] = "peer-accept"
        /\ SwapCall["peer_reject"] = "peer-reject" /\ SwapCall["submit_to_manager"] = "to-manager"
        /\ SwapCall["manager_approve"] = "approve" /\ SwapCall["manager_reject"] = "reject"
        /\ SwapCall["cancel"] = "cancel"
    BY DEF SwapCall
  <1>4. {u \in SwapTable!TRANSITIONS : u[2] \in DOMAIN SwapCall} = SwapTable!TRANSITIONS
    BY <1>2 DEF SwapTable!TRANSITIONS
  <1>5. \A x : x \in Moves("swaps") <=> \E t \in SwapTable!TRANSITIONS : x = <<t[1], SwapCall[t[2]], t[3]>>
    BY <1>1, <1>4 DEF Renamed
  <1> HIDE DEF SwapCall
  <1>6. ASSUME NEW t \in SwapTable!TRANSITIONS
        PROVE  <<t[1], SwapCall[t[2]], t[3]>> \in AsClicked
    BY <1>3 DEF SwapTable!TRANSITIONS
  <1>7. ASSUME NEW x \in AsClicked
        PROVE  \E t \in SwapTable!TRANSITIONS : x = <<t[1], SwapCall[t[2]], t[3]>>
    BY <1>3 DEF SwapTable!TRANSITIONS
  <1> QED
    BY <1>5, <1>6, <1>7

LEMMA MovesOfInbox ==
  Moves("inbox") = {<<"DRAFT", "request-consent", "PENDING_EMPLOYEE_CONSENT">>, <<"DRAFT", "request-consent", "ESCALATED">>,
                    <<"PENDING_MANAGER", "approve", "APPROVED">>, <<"PENDING_MANAGER", "reject", "REJECTED">>}
  <1> DEFINE AsClicked ==
        {<<"DRAFT", "request-consent", "PENDING_EMPLOYEE_CONSENT">>, <<"DRAFT", "request-consent", "ESCALATED">>,
         <<"PENDING_MANAGER", "approve", "APPROVED">>, <<"PENDING_MANAGER", "reject", "REJECTED">>}
             Acted ==
        {<<"DRAFT", "ask_consent", "PENDING_EMPLOYEE_CONSENT">>, <<"DRAFT", "direct_escalate", "ESCALATED">>,
         <<"PENDING_EMPLOYEE_CONSENT", "direct_escalate", "ESCALATED">>,
         <<"PENDING_MANAGER", "manager_approve", "APPROVED">>, <<"PENDING_MANAGER", "manager_reject", "REJECTED">>}
  <1>1. Moves("inbox") = {t \in Renamed(ProposalTable!AI_TRANSITIONS, InboxCall) : t[1] \in {"DRAFT", "PENDING_MANAGER"}}
    BY DEF Moves
  <1>2. DOMAIN InboxCall = {"ask_consent", "direct_escalate", "manager_approve", "manager_reject"}
    BY DEF InboxCall
  <1>3. /\ InboxCall["ask_consent"] = "request-consent" /\ InboxCall["direct_escalate"] = "request-consent"
        /\ InboxCall["manager_approve"] = "approve" /\ InboxCall["manager_reject"] = "reject"
    BY DEF InboxCall
  <1>4. {u \in ProposalTable!AI_TRANSITIONS : u[2] \in DOMAIN InboxCall}
          = Acted
    BY <1>2 DEF ProposalTable!AI_TRANSITIONS
  <1> QED
    <2>1. \A x : x \in Renamed(ProposalTable!AI_TRANSITIONS, InboxCall)
                  <=> \E t \in Acted : x = <<t[1], InboxCall[t[2]], t[3]>>
      BY <1>4 DEF Renamed
    <2>2. ASSUME NEW t \in Acted, t[1] \in {"DRAFT", "PENDING_MANAGER"}
          PROVE  <<t[1], InboxCall[t[2]], t[3]>> \in AsClicked
      BY <1>3, <2>2
    <2>3. ASSUME NEW x \in AsClicked
          PROVE  x[1] \in {"DRAFT", "PENDING_MANAGER"} /\ \E t \in Acted : x = <<t[1], InboxCall[t[2]], t[3]>>
      BY <1>3
    <2> QED
      BY <1>1, <2>1, <2>2, <2>3

LEMMA MovesOfOthers ==
  /\ Moves("consent") = {<<"PENDING_EMPLOYEE_CONSENT", "accept", "PENDING_MANAGER">>,
                         <<"PENDING_EMPLOYEE_CONSENT", "decline", "ASKED_ANOTHER">>,
                         <<"PENDING_EMPLOYEE_CONSENT", "decline", "ESCALATED">>}
  /\ Moves("leave") = {<<"PENDING", "approve", "APPROVED">>, <<"PENDING", "reject", "REJECTED">>,
                       <<"PENDING", "cancel", "CANCELLED">>}
  /\ Moves("access") = {<<"ACTIVE", "revoke", "REVOKED">>}
  /\ Moves("users") = {<<"active", "deactivate", "inactive">>, <<"inactive", "deactivate", "inactive">>}
  BY DEF Moves

\* No move leads back, and but for users every one leads on.
LEMMA MovesLeadOn ==
  ASSUME NEW k \in ScreenKinds, NEW t \in OtherMoves(k)
  PROVE  /\ Progress(t[1]) \in Nat /\ Progress(t[3]) \in Nat /\ Progress(t[1]) <= Progress(t[3])
         /\ k # "users" => Progress(t[1]) < Progress(t[3])
  <1> USE DEF OtherMoves, Progress
  <1>1. CASE k = "swaps"
    BY <1>1, MovesOfSwaps
  <1>2. CASE k = "inbox"
    BY <1>2, MovesOfInbox
  <1>3. CASE k \in {"consent", "leave"}
    BY <1>3, MovesOfOthers
  <1>4. CASE k \in {"access", "users"}
    BY <1>4, MovesOfOthers
  <1> QED
    BY <1>1, <1>2, <1>3, <1>4 DEF ScreenKinds

LEMMA ProgressIsNat == \A s : Progress(s) \in Nat
  BY DEF Progress

\* A step of the backend or of the screen keeps the screen and leads on.
Onward ==
  /\ scrKind' = scrKind /\ scrLeft'.is = scrLeft.is
  /\ DOMAIN scrServer' = DOMAIN scrServer
  /\ \A r \in DOMAIN scrServer : Progress(scrServer[r]) <= Progress(scrServer'[r])

LEMMA ListedOn == ASSUME Onward, NEW y, AsFetched(y) PROVE AsFetched(y)'
  <1>1. Fetches(scrKind)' = Fetches(scrKind)
    BY DEF Onward, Fetches
  <1>2. Lists(y[1])' = Lists(y[1])
    BY DEF Onward, Lists
  <1>3. Progress(y[3]) <= Progress(scrServer'[y[2]])
    BY ProgressIsNat DEF Onward, AsFetched
  <1> QED
    BY <1>1, <1>2, <1>3 DEF AsFetched, Onward

LEMMA OfferedOn == ASSUME Onward, NEW x, NEW saw PROVE Offered(x, saw)' = Offered(x, saw)
  BY DEF Onward, Offered, CanManageUser, LastAdmin

LEMMA ClickedOn == ASSUME Onward, NEW k, Clicked(k) PROVE Clicked(k)'
  BY ListedOn, OfferedOn DEF Clicked, Onward

LEMMA AheadOn ==
  ASSUME Onward, NEW k, NEW rows, Ahead(k, rows), k.at # "idle" => Clicked(k)
  PROVE  Ahead(k, rows)'
  <1>1. ASSUME k.at \in {"done", "refresh"}, NEW x \in k.saw PROVE Progress(x[3]) < Progress(scrServer'[x[2]])
    <2>1. x[2] \in DOMAIN scrServer
      BY <1>1 DEF Clicked, AsFetched
    <2> QED
      BY <1>1, <2>1, ProgressIsNat DEF Ahead, Onward
  <1> QED
    BY <1>1 DEF Ahead

\* A call that takes no step still fits.
LEMMA OtherCallFits ==
  ASSUME Onward, NEW c, CallFits(c), scrCall'[c] = scrCall[c], scrRead'[c] = scrRead[c]
  PROVE  CallFits(c)'
  <1>1. PICK k, rd : k = scrCall[c] /\ rd = scrRead[c]
    OBVIOUS
  <1>2. /\ k.at # "idle" => Clicked(k)'
        /\ scrKind # "users" => Ahead(k, rd.rows)'
    BY <1>1, ClickedOn, AheadOn DEF CallFits, Ahead
  <1> QED
    BY <1>1, <1>2 DEF CallFits, Clicked, Ahead, Onward

\* The parts of the invariant that say what the variables are made of.
ScreenShapes ==
  /\ scrLeft.kind = scrKind /\ scrKind \in ScreenKinds
  /\ scrLeft = [kind |-> scrKind, rows |-> scrLeft.rows, is |-> scrLeft.is, polls |-> scrLeft.polls,
                moves |-> scrLeft.moves, faults |-> scrLeft.faults]
  /\ scrKind = "leave" => "target" \notin scrLeft.is
  /\ scrServer = [r \in DOMAIN scrServer |-> scrServer[r]]
  /\ scrCall = [c \in ScreenCalls |-> [at |-> scrCall[c].at, row |-> scrCall[c].row,
                                       act |-> scrCall[c].act, saw |-> scrCall[c].saw]]
  /\ scrRead = [x \in ScreenCalls \cup ScreenPolls |->
                  [on |-> scrRead[x].on, todo |-> scrRead[x].todo, rows |-> scrRead[x].rows]]

LEMMA InvHasShapes ==
  ScreensInv <=> /\ ScreenShapes
                 /\ \A x \in scrShown : AsFetched(x)
                 /\ \A x \in ScreenCalls \cup ScreenPolls : \A y \in scrRead[x].rows : AsFetched(y)
                 /\ \A x \in ScreenCalls \cup ScreenPolls : scrRead[x].todo \subseteq DOMAIN Fetches(scrKind)
                 /\ \A c \in ScreenCalls : CallFits(c)
  BY DEF ScreensInv, ScreenShapes

LEMMA ReadsHaveShapes ==
  /\ StartRead = [on |-> StartRead.on, todo |-> StartRead.todo, rows |-> StartRead.rows]
  /\ StartRead.on /\ StartRead.todo = DOMAIN Fetches(scrKind) /\ StartRead.rows = {}
  /\ NoRead = [on |-> NoRead.on, todo |-> NoRead.todo, rows |-> NoRead.rows]
  /\ ~NoRead.on /\ NoRead.todo = {} /\ NoRead.rows = {}
  /\ NoCall = [at |-> NoCall.at, row |-> NoCall.row, act |-> NoCall.act, saw |-> NoCall.saw] /\ NoCall.at = "idle"
  <1>1. PICK all : all = DOMAIN Fetches(scrKind)
    OBVIOUS
  <1>2. StartRead = [on |-> TRUE, todo |-> all, rows |-> {}]
    BY <1>1 DEF StartRead
  <1> QED
    BY <1>1, <1>2 DEF NoRead, NoCall

LEMMA InitScreens == ScreensInit => ScreensOK
  <1> SUFFICES ASSUME ScreensInit PROVE ScreensOK
    OBVIOUS
  <1>0. /\ scrLeft \in ScreenCases /\ scrKind = scrLeft.kind /\ scrShown = {} /\ scrBusy = {} /\ scrBanner = "none"
        /\ scrCall = [c \in ScreenCalls |-> NoCall]
        /\ scrServer \in [scrLeft.rows -> FirstStates(scrKind)]
    BY DEF ScreensInit
  <1>1. PICK first \in ScreenPolls :
          scrRead = [x \in ScreenCalls \cup ScreenPolls |-> IF x = first THEN StartRead ELSE NoRead]
    BY ScreensAssumption DEF ScreensInit
  <1>2. /\ scrLeft \in [kind : ScreenKinds, rows : SUBSET ScreenRows,
                       is : SUBSET {"owner", "target", "decider"}, polls : Nat, moves : Nat, faults : Nat]
        /\ scrLeft.kind = "leave" => "target" \notin scrLeft.is
    BY <1>0, ScreensAssumption
  <1>3. ScreenShapes
    <2>1. \A x \in ScreenCalls \cup ScreenPolls :
            scrRead[x] = [on |-> scrRead[x].on, todo |-> scrRead[x].todo, rows |-> scrRead[x].rows]
      BY <1>1, ReadsHaveShapes
    <2>2. scrRead = [x \in ScreenCalls \cup ScreenPolls |->
                      [on |-> scrRead[x].on, todo |-> scrRead[x].todo, rows |-> scrRead[x].rows]]
      BY <1>1, <2>1
    <2>3. scrCall = [c \in ScreenCalls |-> [at |-> scrCall[c].at, row |-> scrCall[c].row,
                                           act |-> scrCall[c].act, saw |-> scrCall[c].saw]]
      BY <1>0, ReadsHaveShapes
    <2>4. scrServer = [r \in DOMAIN scrServer |-> scrServer[r]]
      BY <1>0
    <2> QED
      BY <1>0, <1>2, <2>2, <2>3, <2>4 DEF ScreenShapes
  <1>4. \A x \in ScreenCalls \cup ScreenPolls :
          scrRead[x].rows = {} /\ scrRead[x].todo \subseteq DOMAIN Fetches(scrKind)
    BY <1>1, ReadsHaveShapes
  <1>5. ASSUME NEW c \in ScreenCalls PROVE CallFits(c)
    <2>1. scrCall[c].at = "idle" /\ ~scrRead[c].on
      BY <1>0, <1>1, ScreensAssumption, ReadsHaveShapes
    <2> QED
      BY <2>1 DEF CallFits, Ahead
  <1>6. ScreensTypeOK
    BY <1>0, ReadsHaveShapes DEF ScreensTypeOK
  <1> QED
    BY <1>0, <1>3, <1>4, <1>5, <1>6, InvHasShapes DEF ScreensOK

\* A step changes the calls and refreshes of one user of the screen at most.
LEMMA ScreensOn ==
  ASSUME ScreensInv, Onward, ScreenShapes', NEW d,
         \A x \in ScreenCalls \cup ScreenPolls : x # d => scrRead'[x] = scrRead[x],
         \A c \in ScreenCalls : c # d => scrCall'[c] = scrCall[c],
         d \in ScreenCalls => CallFits(d)',
         d \in ScreenCalls \cup ScreenPolls =>
           scrRead'[d].todo \subseteq DOMAIN Fetches(scrKind) /\ \A y \in scrRead'[d].rows : AsFetched(y)',
         \A y \in scrShown' : AsFetched(y)
  PROVE  ScreensInv'
  <1>1. \A y \in scrShown' : AsFetched(y)'
    BY ListedOn
  <1>2. ASSUME NEW x \in ScreenCalls \cup ScreenPolls PROVE \A y \in scrRead'[x].rows : AsFetched(y)'
    BY <1>2, ListedOn, InvHasShapes
  <1>3. Fetches(scrKind)' = Fetches(scrKind)
    BY DEF Onward, Fetches
  <1>4. ASSUME NEW x \in ScreenCalls \cup ScreenPolls PROVE scrRead'[x].todo \subseteq DOMAIN Fetches(scrKind)'
    BY <1>3, <1>4, InvHasShapes
  <1>5. ASSUME NEW c \in ScreenCalls PROVE CallFits(c)'
    BY <1>5, OtherCallFits, InvHasShapes
  <1> QED
    BY <1>1, <1>2, <1>4, <1>5 DEF ScreensInv, ScreenShapes

\* A step that leaves kind, rows and calls as they are.
LEMMA Still == ASSUME scrKind' = scrKind, scrLeft'.is = scrLeft.is, scrServer' = scrServer PROVE Onward
  BY ProgressIsNat DEF Onward

LEMMA PollStep == ASSUME ScreensOK, NEW p \in ScreenPolls, PollTick(p) PROVE ScreensOK'
  <1> USE DEF PollTick, ScreensOK
  <1>1. ScreenShapes
    BY InvHasShapes
  <1>2. scrLeft' = [kind |-> scrKind, rows |-> scrLeft.rows, is |-> scrLeft.is, polls |-> scrLeft.polls - 1,
                    moves |-> scrLeft.moves, faults |-> scrLeft.faults]
    BY <1>1 DEF ScreenShapes
  <1>3. scrRead' = [x \in ScreenCalls \cup ScreenPolls |-> IF x = p THEN StartRead ELSE scrRead[x]]
    BY <1>1 DEF ScreenShapes
  <1>4. ScreenShapes'
    <2>1. \A x \in ScreenCalls \cup ScreenPolls :
            scrRead'[x] = [on |-> scrRead'[x].on, todo |-> scrRead'[x].todo, rows |-> scrRead'[x].rows]
      BY <1>1, <1>3, ReadsHaveShapes DEF ScreenShapes
    <2>2. scrRead' = [x \in ScreenCalls \cup ScreenPolls |->
                       [on |-> scrRead'[x].on, todo |-> scrRead'[x].todo, rows |-> scrRead'[x].rows]]
      BY <1>3, <2>1
    <2> QED
      BY <1>1, <1>2, <2>2 DEF ScreenShapes
  <1>5. Onward
    BY <1>2, Still
  <1>6. p \notin ScreenCalls /\ \A y \in scrShown' : AsFetched(y)
    BY ScreensAssumption, InvHasShapes
  <1>7. scrRead'[p].todo \subseteq DOMAIN Fetches(scrKind) /\ scrRead'[p].rows = {}
    BY <1>3, ReadsHaveShapes
  <1>8. ScreensInv'
    BY <1>3, <1>4, <1>5, <1>6, <1>7, ScreensOn
  <1>9. ScreensTypeOK'
    BY DEF ScreensTypeOK
  <1> QED
    BY <1>8, <1>9

ReadShape == scrRead = [x \in ScreenCalls \cup ScreenPolls |->
                         [on |-> scrRead[x].on, todo |-> scrRead[x].todo, rows |-> scrRead[x].rows]]
CallShape == scrCall = [c \in ScreenCalls |-> [at |-> scrCall[c].at, row |-> scrCall[c].row,
                                              act |-> scrCall[c].act, saw |-> scrCall[c].saw]]
RestShape ==
  /\ scrLeft.kind = scrKind /\ scrKind \in ScreenKinds
  /\ scrLeft = [kind |-> scrKind, rows |-> scrLeft.rows, is |-> scrLeft.is, polls |-> scrLeft.polls,
                moves |-> scrLeft.moves, faults |-> scrLeft.faults]
  /\ scrKind = "leave" => "target" \notin scrLeft.is
  /\ scrServer = [r \in DOMAIN scrServer |-> scrServer[r]]

LEMMA ThreeShapes == ScreenShapes <=> ReadShape /\ CallShape /\ RestShape
  BY DEF ScreenShapes, ReadShape, CallShape, RestShape

LEMMA SetsRead ==
  ASSUME ReadShape, NEW x, NEW r, r = [on |-> r.on, todo |-> r.todo, rows |-> r.rows],
         scrRead' = [scrRead EXCEPT ![x] = r]
  PROVE  /\ ReadShape'
         /\ \A z \in ScreenCalls \cup ScreenPolls : scrRead'[z] = IF z = x THEN r ELSE scrRead[z]
  <1>1. scrRead' = [z \in ScreenCalls \cup ScreenPolls |-> IF z = x THEN r ELSE scrRead[z]]
    BY DEF ReadShape
  <1>2. \A z \in ScreenCalls \cup ScreenPolls :
          scrRead'[z] = [on |-> scrRead'[z].on, todo |-> scrRead'[z].todo, rows |-> scrRead'[z].rows]
    BY <1>1 DEF ReadShape
  <1>3. scrRead' = [z \in ScreenCalls \cup ScreenPolls |->
                     [on |-> scrRead'[z].on, todo |-> scrRead'[z].todo, rows |-> scrRead'[z].rows]]
    BY <1>1, <1>2
  <1> QED
    BY <1>1, <1>3 DEF ReadShape

LEMMA SetsCall ==
  ASSUME CallShape, NEW c, NEW k, k = [at |-> k.at, row |-> k.row, act |-> k.act, saw |-> k.saw],
         scrCall' = [scrCall EXCEPT ![c] = k]
  PROVE  /\ CallShape'
         /\ \A b \in ScreenCalls : scrCall'[b] = IF b = c THEN k ELSE scrCall[b]
  <1>1. scrCall' = [b \in ScreenCalls |-> IF b = c THEN k ELSE scrCall[b]]
    BY DEF CallShape
  <1>2. \A b \in ScreenCalls : scrCall'[b] = [at |-> scrCall'[b].at, row |-> scrCall'[b].row,
                                             act |-> scrCall'[b].act, saw |-> scrCall'[b].saw]
    BY <1>1 DEF CallShape
  <1>3. scrCall' = [b \in ScreenCalls |-> [at |-> scrCall'[b].at, row |-> scrCall'[b].row,
                                          act |-> scrCall'[b].act, saw |-> scrCall'[b].saw]]
    BY <1>1, <1>2
  <1> QED
    BY <1>1, <1>3 DEF CallShape

\* Consents that have lapsed are escalated.
LEMMA EscalatedOn ==
  ASSUME RestShape, NEW rows, scrServer' = Escalated(rows), scrKind' = scrKind, scrLeft' = scrLeft
  PROVE  RestShape' /\ Onward
  <1>1. DOMAIN scrServer' = DOMAIN scrServer /\ scrServer' = [r \in DOMAIN scrServer' |-> scrServer'[r]]
    BY DEF Escalated
  <1>2. ASSUME NEW r \in DOMAIN scrServer PROVE Progress(scrServer[r]) <= Progress(scrServer'[r])
    <2>1. scrServer'[r] = scrServer[r] \/ (scrServer[r] = "LAPSED" /\ scrServer'[r] = "ESCALATED")
      BY DEF Escalated
    <2>2. Progress("LAPSED") <= Progress("ESCALATED")
      BY DEF Progress
    <2> QED
      BY <2>1, <2>2, ProgressIsNat
  <1> QED
    BY <1>1, <1>2 DEF RestShape, Onward

\* A limit is used up, or nothing is.
LEMMA Spent ==
  ASSUME RestShape, scrKind' = scrKind, scrServer' = scrServer,
         \/ scrLeft' = scrLeft \/ scrLeft' = [scrLeft EXCEPT !.faults = @ - 1]
         \/ scrLeft' = [scrLeft EXCEPT !.polls = @ - 1]
  PROVE  RestShape' /\ Onward
  <1>1. CASE scrLeft' = scrLeft
    BY <1>1, Still DEF RestShape
  <1>2. CASE scrLeft' = [scrLeft EXCEPT !.faults = @ - 1]
    <2>1. scrLeft' = [kind |-> scrKind, rows |-> scrLeft.rows, is |-> scrLeft.is, polls |-> scrLeft.polls,
                      moves |-> scrLeft.moves, faults |-> scrLeft.faults - 1]
      BY <1>2 DEF RestShape
    <2> QED
      BY <2>1, Still DEF RestShape
  <1>3. CASE scrLeft' = [scrLeft EXCEPT !.polls = @ - 1]
    <2>1. scrLeft' = [kind |-> scrKind, rows |-> scrLeft.rows, is |-> scrLeft.is, polls |-> scrLeft.polls - 1,
                      moves |-> scrLeft.moves, faults |-> scrLeft.faults]
      BY <1>3 DEF RestShape
    <2> QED
      BY <2>1, Still DEF RestShape
  <1> QED
    BY <1>1, <1>2, <1>3

\* The rows of one more list are the backend's at this moment.
LEMMA ListStep ==
  ASSUME ScreensOK, NEW x \in ScreenCalls \cup ScreenPolls, ListAnswered(x)
  PROVE  ScreensOK'
  <1> USE DEF ScreensOK
  <1>1. PICK section \in scrRead[x].todo :
          LET states == Fetches(scrKind)[section]
              rows == {r \in DOMAIN scrServer : Lists(section) /\ (states = {} \/ scrServer[r] \in states)}
          IN  /\ scrRead' = [scrRead EXCEPT ![x] = [on |-> scrRead[x].on, todo |-> scrRead[x].todo \ {section},
                                rows |-> scrRead[x].rows \cup {<<section, r, scrServer[r]>> : r \in rows}]]
              /\ scrServer' = Escalated(DOMAIN scrServer)
              /\ UNCHANGED <<scrKind, scrShown, scrBusy, scrBanner, scrCall, scrLeft>>
    BY DEF ListAnswered
  <1> DEFINE rows == {r \in DOMAIN scrServer : Lists(section) /\ (Fetches(scrKind)[section] = {}
                                                               \/ scrServer[r] \in Fetches(scrKind)[section])}
             got == {<<section, r, scrServer[r]>> : r \in rows}
  <1>2. PICK rd : rd = [on |-> scrRead[x].on, todo |-> scrRead[x].todo \ {section}, rows |-> scrRead[x].rows \cup got]
    OBVIOUS
  <1>3. ReadShape /\ CallShape /\ RestShape
    BY InvHasShapes, ThreeShapes
  <1>4. scrRead' = [scrRead EXCEPT ![x] = rd]
    BY <1>1, <1>2
  <1>5. scrServer' = Escalated(DOMAIN scrServer) /\ UNCHANGED <<scrKind, scrShown, scrBusy, scrBanner, scrCall, scrLeft>>
    BY <1>1
  <1>6. RestShape' /\ Onward /\ CallShape'
    BY <1>3, <1>5, EscalatedOn DEF CallShape
  <1> HIDE DEF got
  <1>a. rd = [on |-> rd.on, todo |-> rd.todo, rows |-> rd.rows]
    BY <1>2
  <1>7. ReadShape' /\ \A z \in ScreenCalls \cup ScreenPolls : scrRead'[z] = IF z = x THEN rd ELSE scrRead[z]
    BY <1>a, <1>3, <1>4, SetsRead
  <1>8. \A y \in got : AsFetched(y)
    BY <1>2, ProgressIsNat, InvHasShapes DEF AsFetched, got
  <1>9. \A y \in rd.rows : AsFetched(y)
    BY <1>2, <1>8, InvHasShapes
  <1>10. rd.todo \subseteq DOMAIN Fetches(scrKind)
    BY <1>2, InvHasShapes
  <1>11. x \in ScreenCalls => CallFits(x)'
    <2> SUFFICES ASSUME x \in ScreenCalls PROVE CallFits(x)'
      OBVIOUS
    <2>1. CallFits(x)
      BY InvHasShapes
    <2>2. PICK k : k = scrCall[x]
      OBVIOUS
    <2>3. k.at # "idle" => Clicked(k)'
      BY <1>6, <2>1, <2>2, ClickedOn DEF CallFits
    <2>4. ASSUME scrKind # "users", k.at = "refresh", NEW v \in k.saw, NEW y \in rd.rows, y[2] = v[2]
          PROVE  Progress(v[3]) < Progress(y[3])
      <3>1. CASE y \in scrRead[x].rows
        BY <2>1, <2>2, <2>4, <3>1 DEF CallFits, Ahead
      <3>2. CASE y \in got
        BY <2>1, <2>2, <2>4, <3>2 DEF CallFits, Ahead, got
      <3> QED
        BY <1>2, <2>4, <3>1, <3>2
    <2>5. scrKind # "users" => Ahead(k, rd.rows)'
      <3>1. scrKind # "users" => Ahead(k, rd.rows)
        BY <2>1, <2>2, <2>4 DEF CallFits, Ahead
      <3> QED
        BY <1>6, <2>1, <2>2, <3>1, AheadOn DEF CallFits
    <2>6. rd.on => k.at = "refresh"
      BY <1>2, <2>1, <2>2 DEF CallFits
    <2>7. scrCall'[x] = k /\ scrRead'[x] = rd /\ scrKind' = scrKind
      BY <1>5, <1>7, <2>2
    <2> QED
      BY <2>3, <2>5, <2>6, <2>7 DEF CallFits, Clicked, Ahead
  <1>12. ScreenShapes'
    BY <1>6, <1>7 DEF ScreenShapes, ReadShape, CallShape, RestShape
  <1>13. ScreensInv'
    <2>1. /\ \A z \in ScreenCalls \cup ScreenPolls : z # x => scrRead'[z] = scrRead[z]
          /\ \A c \in ScreenCalls : c # x => scrCall'[c] = scrCall[c]
          /\ scrRead'[x] = rd
      BY <1>5, <1>7
    <2>2. (\A y \in scrRead'[x].rows : AsFetched(y)') /\ scrRead'[x].todo \subseteq DOMAIN Fetches(scrKind)
      BY <1>6, <1>9, <1>10, <2>1, ListedOn
    <2>3. \A y \in scrShown' : AsFetched(y)
      BY <1>5, InvHasShapes
    <2> QED
      BY <1>6, <1>11, <1>12, <2>1, <2>2, <2>3, ScreensOn
  <1>14. ScreensTypeOK'
    BY <1>5, <1>6 DEF ScreensTypeOK, Onward
  <1> QED
    BY <1>13, <1>14

\* A refresh that ends frees its call.
LEMMA EndsKeep ==
  ASSUME ScreensOK, NEW x \in ScreenCalls \cup ScreenPolls, EndsRefresh(x), RestShape', Onward,
         \A y \in scrShown' : AsFetched(y), scrBanner' \in {"none", "error"}
  PROVE  ScreensOK'
  <1>1. ReadShape /\ CallShape
    BY InvHasShapes, ThreeShapes DEF ScreensOK
  <1>2. ReadShape' /\ \A z \in ScreenCalls \cup ScreenPolls : scrRead'[z] = IF z = x THEN NoRead ELSE scrRead[z]
    <2>1. PICK r : r = NoRead
      OBVIOUS
    <2>2. r = [on |-> r.on, todo |-> r.todo, rows |-> r.rows]
      BY <2>1, ReadsHaveShapes
    <2>3. scrRead' = [scrRead EXCEPT ![x] = r]
      BY <2>1 DEF EndsRefresh
    <2> QED
      BY <1>1, <2>1, <2>2, <2>3, SetsRead
  <1>3. CallShape' /\ \A c \in ScreenCalls : scrCall'[c] = IF c = x THEN NoCall ELSE scrCall[c]
    <2>1. CASE x \in ScreenCalls
      <3>1. PICK k : k = NoCall
        OBVIOUS
      <3>2. k = [at |-> k.at, row |-> k.row, act |-> k.act, saw |-> k.saw]
        BY <3>1, ReadsHaveShapes
      <3>3. scrCall' = [scrCall EXCEPT ![x] = k]
        BY <2>1, <3>1 DEF EndsRefresh
      <3> QED
        BY <1>1, <3>1, <3>2, <3>3, SetsCall
    <2>2. CASE x \notin ScreenCalls
      BY <1>1, <2>2 DEF EndsRefresh, CallShape
    <2> QED
      BY <2>1, <2>2
  <1>4. x \in ScreenCalls => CallFits(x)'
    <2> SUFFICES ASSUME x \in ScreenCalls PROVE CallFits(x)'
      OBVIOUS
    <2>1. scrCall'[x].at = "idle" /\ ~scrRead'[x].on
      BY <1>2, <1>3, ReadsHaveShapes
    <2> QED
      BY <2>1 DEF CallFits, Ahead
  <1>5. ScreenShapes'
    BY <1>2, <1>3 DEF ScreenShapes, ReadShape, CallShape, RestShape
  <1>6. scrRead'[x].todo = {} /\ scrRead'[x].rows = {}
    BY <1>2, ReadsHaveShapes
  <1>7. /\ \A z \in ScreenCalls \cup ScreenPolls : z # x => scrRead'[z] = scrRead[z]
        /\ \A c \in ScreenCalls : c # x => scrCall'[c] = scrCall[c]
    BY <1>2, <1>3
  <1>8. ScreensInv'
    BY <1>4, <1>5, <1>6, <1>7, ScreensOn DEF ScreensOK
  <1>9. ScreensTypeOK'
    <2>1. \A c \in ScreenCalls : scrCall'[c].at \in {"idle", "sent", "done", "refused", "failed", "refresh"}
      BY <1>3, ReadsHaveShapes DEF ScreensOK, ScreensTypeOK
    <2>2. \A y \in scrShown' : y[2] \in DOMAIN scrServer'
      BY DEF AsFetched, Onward
    <2> QED
      BY <2>1, <2>2 DEF ScreensTypeOK
  <1> QED
    BY <1>8, <1>9 DEF ScreensOK

LEMMA LandStep == ASSUME ScreensOK, NEW x \in ScreenCalls \cup ScreenPolls, Land(x) PROVE ScreensOK'
  <1>1. RestShape' /\ Onward
    BY Spent, InvHasShapes, ThreeShapes DEF ScreensOK, Land
  <1>2. \A y \in scrShown' : AsFetched(y)
    BY InvHasShapes DEF ScreensOK, Land
  <1>3. scrBanner' \in {"none", "error"}
    BY DEF ScreensOK, ScreensTypeOK, Land
  <1> QED
    BY <1>1, <1>2, <1>3, EndsKeep DEF Land

LEMMA FailStep == ASSUME ScreensOK, NEW x \in ScreenCalls \cup ScreenPolls, RefreshFails(x) PROVE ScreensOK'
  <1>1. RestShape' /\ Onward
    BY Spent, InvHasShapes, ThreeShapes DEF ScreensOK, RefreshFails
  <1>2. \A y \in scrShown' : AsFetched(y)
    BY InvHasShapes DEF ScreensOK, RefreshFails
  <1>3. scrBanner' \in {"none", "error"}
    BY DEF ScreensOK, ScreensTypeOK, RefreshFails
  <1> QED
    BY <1>1, <1>2, <1>3, EndsKeep DEF RefreshFails

LEMMA FailedStep == ASSUME ScreensOK, NEW c \in ScreenCalls, CallFailed(c) PROVE ScreensOK'
  <1>1. RestShape' /\ Onward
    BY Spent, InvHasShapes, ThreeShapes DEF ScreensOK, CallFailed
  <1>2. (\A y \in scrShown' : AsFetched(y)) /\ scrBanner' \in {"none", "error"}
    BY InvHasShapes DEF ScreensOK, CallFailed
  <1> QED
    BY <1>1, <1>2, EndsKeep DEF CallFailed

\* A step of one call, to k, with the refresh rd.
LEMMA CallKeeps ==
  ASSUME ScreensOK, NEW c \in ScreenCalls, NEW k, NEW rd, Onward, RestShape', ReadShape',
         k = [at |-> k.at, row |-> k.row, act |-> k.act, saw |-> k.saw],
         scrCall' = [scrCall EXCEPT ![c] = k],
         \A z \in ScreenCalls \cup ScreenPolls : scrRead'[z] = IF z = c THEN rd ELSE scrRead[z],
         k.at \in {"sent", "done", "refused", "failed", "refresh"},
         Clicked(k), scrKind # "users" => Ahead(k, rd.rows)', rd.on => k.at = "refresh",
         rd.todo \subseteq DOMAIN Fetches(scrKind), \A y \in rd.rows : AsFetched(y),
         scrShown' = scrShown, scrBanner' \in {"none", "error"}
  PROVE  ScreensOK'
  <1>1. CallShape
    BY InvHasShapes, ThreeShapes DEF ScreensOK
  <1>2. CallShape' /\ \A b \in ScreenCalls : scrCall'[b] = IF b = c THEN k ELSE scrCall[b]
    <2>1. k = [at |-> k.at, row |-> k.row, act |-> k.act, saw |-> k.saw]
      OBVIOUS
    <2>2. scrCall' = [scrCall EXCEPT ![c] = k]
      OBVIOUS
    <2> QED
      BY <1>1, <2>1, <2>2, SetsCall
  <1>3. CallFits(c)'
    <2>1. scrCall'[c] = k /\ scrRead'[c] = rd /\ scrKind' = scrKind
      BY <1>2 DEF Onward
    <2>2. Clicked(k)'
      BY ClickedOn
    <2> QED
      BY <2>1, <2>2 DEF CallFits, Clicked, Ahead
  <1>4. ScreenShapes'
    BY <1>2 DEF ScreenShapes, ReadShape, CallShape, RestShape
  <1>5. /\ \A z \in ScreenCalls \cup ScreenPolls : z # c => scrRead'[z] = scrRead[z]
        /\ \A b \in ScreenCalls : b # c => scrCall'[b] = scrCall[b]
        /\ scrRead'[c] = rd
    BY <1>2
  <1>6. (\A y \in scrRead'[c].rows : AsFetched(y)') /\ scrRead'[c].todo \subseteq DOMAIN Fetches(scrKind)
    BY <1>5, ListedOn
  <1>7. \A y \in scrShown' : AsFetched(y)
    BY InvHasShapes DEF ScreensOK
  <1>8. ScreensInv'
    BY <1>3, <1>4, <1>5, <1>6, <1>7, ScreensOn DEF ScreensOK
  <1>9. ScreensTypeOK'
    <2>1. \A b \in ScreenCalls : scrCall'[b].at \in {"idle", "sent", "done", "refused", "failed", "refresh"}
      BY <1>2 DEF ScreensOK, ScreensTypeOK
    <2>2. \A y \in scrShown' : y[2] \in DOMAIN scrServer'
      BY <1>7 DEF AsFetched, Onward
    <2> QED
      BY <2>1, <2>2 DEF ScreensTypeOK
  <1> QED
    BY <1>8, <1>9 DEF ScreensOK

\* What the invariant says of a call that is under way.
LEMMA OfCall ==
  ASSUME ScreensOK, NEW c \in ScreenCalls
  PROVE  /\ ReadShape /\ CallShape /\ RestShape /\ CallFits(c)
         /\ scrCall[c] = [at |-> scrCall[c].at, row |-> scrCall[c].row, act |-> scrCall[c].act, saw |-> scrCall[c].saw]
         /\ scrRead[c].todo \subseteq DOMAIN Fetches(scrKind) /\ \A y \in scrRead[c].rows : AsFetched(y)
         /\ \A a : [scrCall EXCEPT ![c].at = a]
                     = [scrCall EXCEPT ![c] = [at |-> a, row |-> scrCall[c].row, act |-> scrCall[c].act,
                                               saw |-> scrCall[c].saw]]
  <1>1. ReadShape /\ CallShape /\ RestShape /\ CallFits(c)
    BY InvHasShapes, ThreeShapes DEF ScreensOK
  <1>2. scrCall[c] = [at |-> scrCall[c].at, row |-> scrCall[c].row, act |-> scrCall[c].act, saw |-> scrCall[c].saw]
    BY <1>1 DEF CallShape
  <1>3. ASSUME NEW a
        PROVE  [scrCall EXCEPT ![c].at = a]
                 = [scrCall EXCEPT ![c] = [at |-> a, row |-> scrCall[c].row, act |-> scrCall[c].act,
                                           saw |-> scrCall[c].saw]]
    <2>1. PICK k : k = scrCall[c]
      OBVIOUS
    <2>2. [k EXCEPT !.at = a] = [at |-> a, row |-> k.row, act |-> k.act, saw |-> k.saw]
      BY <1>2, <2>1
    <2> QED
      BY <2>1, <2>2
  <1> QED
    BY <1>1, <1>2, <1>3, InvHasShapes DEF ScreensOK

LEMMA ClickStep == ASSUME ScreensOK, NEW c \in ScreenCalls, Click(c) PROVE ScreensOK'
  <1>0. PICK x \in scrShown : \E a \in Offered(x, scrShown) :
          scrCall' = [scrCall EXCEPT ![c] = [at |-> "sent", row |-> x[2], act |-> a,
                                             saw |-> IF scrKind = "users" THEN scrShown ELSE {x}]]
    BY DEF Click
  <1>1. PICK a \in Offered(x, scrShown) :
          scrCall' = [scrCall EXCEPT ![c] = [at |-> "sent", row |-> x[2], act |-> a,
                                             saw |-> IF scrKind = "users" THEN scrShown ELSE {x}]]
    BY <1>0
  <1>2. PICK k : k = [at |-> "sent", row |-> x[2], act |-> a, saw |-> IF scrKind = "users" THEN scrShown ELSE {x}]
    OBVIOUS
  <1>3. PICK rd : rd = scrRead[c]
    OBVIOUS
  <1>4. ReadShape /\ RestShape /\ CallFits(c) /\ rd.todo \subseteq DOMAIN Fetches(scrKind)
        /\ (\A y \in rd.rows : AsFetched(y)) /\ scrCall[c].at = "idle" /\ UNCHANGED <<scrKind, scrServer, scrShown, scrRead, scrLeft>>
    BY <1>3, OfCall DEF Click
  <1>5. RestShape' /\ ReadShape' /\ Onward
    BY <1>4, Spent DEF ReadShape
  <1>6. ~rd.on
    BY <1>3, <1>4 DEF CallFits
  <1>7. \A z \in ScreenCalls \cup ScreenPolls : scrRead'[z] = IF z = c THEN rd ELSE scrRead[z]
    BY <1>3, <1>4
  <1>8. Clicked(k)
    <2>1. \A y \in scrShown : AsFetched(y)
      BY InvHasShapes DEF ScreensOK
    <2>2. k.row = x[2] /\ k.act = a /\ k.saw = (IF scrKind = "users" THEN scrShown ELSE {x})
      BY <1>2
    <2>3. scrKind # "users" => Offered(x, k.saw) = Offered(x, scrShown)
      BY DEF Offered
    <2>4. x \in k.saw /\ a \in Offered(x, k.saw)
      BY <2>2, <2>3
    <2> QED
      BY <2>1, <2>2, <2>4 DEF Clicked
  <1>9. Ahead(k, rd.rows)'
    BY <1>2 DEF Ahead
  <1>10. k = [at |-> k.at, row |-> k.row, act |-> k.act, saw |-> k.saw] /\ k.at = "sent"
    BY <1>2
  <1>11. scrCall' = [scrCall EXCEPT ![c] = k] /\ scrBanner' \in {"none", "error"} /\ scrShown' = scrShown
    BY <1>1, <1>2, <1>4 DEF Click
  <1> QED
    BY <1>4, <1>5, <1>6, <1>7, <1>8, <1>9, <1>10, <1>11, CallKeeps

\* The call moves to another stage; its refresh is left alone.
LEMMA StageKeeps ==
  ASSUME ScreensOK, NEW c \in ScreenCalls, NEW a \in {"done", "refused", "failed"},
         scrCall' = [scrCall EXCEPT ![c].at = a], scrRead' = scrRead, scrShown' = scrShown, scrBanner' = scrBanner,
         scrCall[c].at \in {"sent", "done"}, Onward, RestShape',
         (a = "done" /\ scrKind # "users") => \A x \in scrCall[c].saw : Progress(x[3]) < Progress(scrServer'[x[2]])
  PROVE  ScreensOK'
  <1>1. PICK k, rd : rd = scrRead[c] /\ k = [at |-> a, row |-> scrCall[c].row, act |-> scrCall[c].act, saw |-> scrCall[c].saw]
    OBVIOUS
  <1>2. /\ ReadShape /\ CallFits(c) /\ rd.todo \subseteq DOMAIN Fetches(scrKind) /\ \A y \in rd.rows : AsFetched(y)
        /\ scrCall' = [scrCall EXCEPT ![c] = k]
    BY <1>1, OfCall
  <1>3. ReadShape' /\ \A z \in ScreenCalls \cup ScreenPolls : scrRead'[z] = IF z = c THEN rd ELSE scrRead[z]
    BY <1>1, <1>2 DEF ReadShape
  <1>4. Clicked(k)
    BY <1>1, <1>2 DEF CallFits, Clicked
  <1>5. scrKind # "users" => Ahead(k, rd.rows)'
    BY <1>1 DEF Ahead
  <1>6. ~rd.on
    BY <1>1, <1>2 DEF CallFits
  <1>7. k = [at |-> k.at, row |-> k.row, act |-> k.act, saw |-> k.saw] /\ k.at = a
    BY <1>1
  <1>8. scrBanner' \in {"none", "error"}
    BY DEF ScreensOK, ScreensTypeOK
  <1> QED
    BY <1>2, <1>3, <1>4, <1>5, <1>6, <1>7, <1>8, CallKeeps

\* A move of the backend is one of its table's.
LEMMA AcceptedMoves ==
  ASSUME NEW c, NEW t \in Accepted(c)
  PROVE  t \in OtherMoves(scrKind) /\ t[1] = scrServer[scrCall[c].row]
  BY DEF Accepted, OtherMoves

\* One row moves on.
LEMMA MoveOn ==
  ASSUME ScreensInv, NEW r \in DOMAIN scrServer, NEW t \in OtherMoves(scrKind), t[1] = scrServer[r],
         scrServer' = [scrServer EXCEPT ![r] = t[3]], scrKind' = scrKind, scrLeft'.is = scrLeft.is
  PROVE  /\ Onward /\ scrServer' = [q \in DOMAIN scrServer' |-> scrServer'[q]]
         /\ scrKind # "users" => Progress(scrServer[r]) < Progress(scrServer'[r])
  <1>1. scrKind \in ScreenKinds /\ scrServer = [q \in DOMAIN scrServer |-> scrServer[q]]
    BY DEF ScreensInv
  <1>2. Progress(t[1]) <= Progress(t[3]) /\ (scrKind # "users" => Progress(t[1]) < Progress(t[3]))
    BY <1>1, MovesLeadOn
  <1>3. scrServer' = [q \in DOMAIN scrServer |-> IF q = r THEN t[3] ELSE scrServer[q]]
    BY <1>1
  <1>4. DOMAIN scrServer' = DOMAIN scrServer /\ scrServer'[r] = t[3]
    BY <1>3
  <1>5. ASSUME NEW q \in DOMAIN scrServer PROVE Progress(scrServer[q]) <= Progress(scrServer'[q])
    <2>1. scrServer'[q] = IF q = r THEN t[3] ELSE scrServer[q]
      BY <1>3
    <2> QED
      BY <1>2, <2>1, ProgressIsNat
  <1>6. scrServer' = [q \in DOMAIN scrServer' |-> scrServer'[q]]
    BY <1>3
  <1> QED
    BY <1>2, <1>4, <1>5, <1>6 DEF Onward

\* The row of a call is one that the person saw.
LEMMA ClickedRow ==
  ASSUME NEW k, Clicked(k)
  PROVE  \E x \in k.saw : k.row = x[2] /\ AsFetched(x) /\ k.act \in Offered(x, k.saw) /\ (scrKind # "users" => k.saw = {x})
  BY DEF Clicked

LEMMA HandledStep == ASSUME ScreensOK, NEW c \in ScreenCalls, Handled(c) PROVE ScreensOK'
  <1>1. RestShape /\ CallFits(c) /\ ScreensInv
    BY OfCall DEF ScreensOK
  <1>2. /\ scrCall[c].at = "sent" /\ UNCHANGED <<scrKind, scrShown, scrBanner, scrRead, scrLeft>>
    BY DEF Handled
  <1>3. ASSUME NEW t \in Accepted(c), scrServer' = [scrServer EXCEPT ![scrCall[c].row] = t[3]],
               scrCall' = [scrCall EXCEPT ![c].at = "done"]
        PROVE  ScreensOK'
    <2>1. PICK k : k = scrCall[c]
      OBVIOUS
    <2>2. PICK x \in k.saw : k.row = x[2] /\ AsFetched(x) /\ (scrKind # "users" => k.saw = {x})
      <3>1. Clicked(k)
        BY <1>1, <1>2, <2>1 DEF CallFits
      <3> QED
        BY <3>1, ClickedRow
    <2>3. x[2] \in DOMAIN scrServer /\ Progress(x[3]) <= Progress(scrServer[x[2]])
      BY <2>2 DEF AsFetched
    <2>4. scrServer' = [scrServer EXCEPT ![x[2]] = t[3]] /\ t \in OtherMoves(scrKind) /\ t[1] = scrServer[x[2]]
      BY <1>3, <2>1, <2>2, AcceptedMoves
    <2>5. /\ Onward /\ scrServer' = [q \in DOMAIN scrServer' |-> scrServer'[q]]
          /\ scrKind # "users" => Progress(scrServer[x[2]]) < Progress(scrServer'[x[2]])
      BY <1>1, <1>2, <2>3, <2>4, MoveOn
    <2>6. RestShape'
      BY <1>1, <1>2, <2>5 DEF RestShape
    <2>7. scrKind # "users" => \A y \in k.saw : Progress(y[3]) < Progress(scrServer'[y[2]])
      BY <2>2, <2>3, <2>5, ProgressIsNat
    <2> QED
      BY <1>2, <1>3, <2>1, <2>5, <2>6, <2>7, StageKeeps
  <1>4. ASSUME scrServer' = Escalated({scrCall[c].row}), scrCall' = [scrCall EXCEPT ![c].at = "refused"] PROVE ScreensOK'
    <2>1. Onward /\ RestShape'
      BY <1>1, <1>2, <1>4, EscalatedOn
    <2> QED
      BY <1>2, <1>4, <2>1, StageKeeps
  <1> QED
    BY <1>3, <1>4 DEF Handled

LEMMA LostStep == ASSUME ScreensOK, NEW c \in ScreenCalls, CallLost(c) PROVE ScreensOK'
  <1>1. RestShape' /\ Onward
    BY Spent, OfCall DEF CallLost
  <1> QED
    BY <1>1, StageKeeps DEF CallLost

\* A call goes on to its refresh.
Refreshes(c) ==
  /\ scrCall[c].at = "done" \/ (scrCall[c].at \in {"refused", "failed"} /\ scrKind = "users")
  /\ scrCall' = [scrCall EXCEPT ![c].at = "refresh"]
  /\ scrRead' = [scrRead EXCEPT ![c] = StartRead]
  /\ UNCHANGED <<scrKind, scrServer, scrShown, scrLeft>>
  /\ scrBanner' \in {"none", "error"}

\* The refresh after a call starts with nothing read.
LEMMA RefreshKeeps == ASSUME ScreensOK, NEW c \in ScreenCalls, Refreshes(c) PROVE ScreensOK'
  <1>0. PICK rd : rd = StartRead
    OBVIOUS
  <1>1. PICK k : k = [at |-> "refresh", row |-> scrCall[c].row, act |-> scrCall[c].act, saw |-> scrCall[c].saw]
    OBVIOUS
  <1>2. /\ ReadShape /\ RestShape /\ CallFits(c)
        /\ scrCall' = [scrCall EXCEPT ![c] = k] /\ scrRead' = [scrRead EXCEPT ![c] = rd]
    BY <1>0, <1>1, OfCall DEF Refreshes
  <1>3. rd = [on |-> rd.on, todo |-> rd.todo, rows |-> rd.rows] /\ rd.todo = DOMAIN Fetches(scrKind) /\ rd.rows = {}
    BY <1>0, ReadsHaveShapes
  <1>4. ReadShape' /\ \A z \in ScreenCalls \cup ScreenPolls : scrRead'[z] = IF z = c THEN rd ELSE scrRead[z]
    <2>1. ReadShape /\ scrRead' = [scrRead EXCEPT ![c] = rd]
      BY <1>2
    <2>2. rd = [on |-> rd.on, todo |-> rd.todo, rows |-> rd.rows]
      BY <1>3
    <2> QED
      BY <2>1, <2>2, SetsRead
  <1>5. RestShape' /\ Onward /\ scrShown' = scrShown /\ scrBanner' \in {"none", "error"}
    BY <1>2, Spent DEF Refreshes
  <1>6. Clicked(k)
    BY <1>1, <1>2 DEF CallFits, Clicked, Refreshes
  <1>7. scrKind # "users" => Ahead(k, rd.rows)'
    BY <1>1, <1>2, <1>3 DEF Ahead, CallFits, Refreshes
  <1>8. k = [at |-> k.at, row |-> k.row, act |-> k.act, saw |-> k.saw] /\ k.at = "refresh"
    BY <1>1
  <1>9. rd.todo \subseteq DOMAIN Fetches(scrKind) /\ \A y \in rd.rows : AsFetched(y)
    BY <1>3
  <1>10. scrCall' = [scrCall EXCEPT ![c] = k]
    BY <1>2
  <1> QED
    BY <1>4, <1>5, <1>6, <1>7, <1>8, <1>9, <1>10, CallKeeps

LEMMA OthersStep == ASSUME ScreensOK, SomebodyElse PROVE ScreensOK'
  <1>1. ScreensInv /\ ReadShape /\ CallShape /\ RestShape
    BY InvHasShapes, ThreeShapes DEF ScreensOK
  <1>2. /\ scrLeft' = [scrLeft EXCEPT !.moves = @ - 1]
        /\ UNCHANGED <<scrKind, scrShown, scrBusy, scrBanner, scrCall, scrRead>>
    BY DEF SomebodyElse
  <1>3. scrLeft' = [kind |-> scrKind, rows |-> scrLeft.rows, is |-> scrLeft.is, polls |-> scrLeft.polls,
                    moves |-> scrLeft.moves - 1, faults |-> scrLeft.faults]
    BY <1>1, <1>2 DEF RestShape
  <1>4. PICK r \in DOMAIN scrServer, t \in OtherMoves(scrKind) :
          t[1] = scrServer[r] /\ scrServer' = [scrServer EXCEPT ![r] = t[3]]
    BY DEF SomebodyElse
  <1>5. Onward /\ scrServer' = [q \in DOMAIN scrServer' |-> scrServer'[q]]
    BY <1>1, <1>2, <1>3, <1>4, MoveOn
  <1>6. ScreenShapes'
    BY <1>1, <1>2, <1>3, <1>5 DEF ScreenShapes, ReadShape, CallShape, RestShape
  <1>7. PICK p \in ScreenPolls : p \notin ScreenCalls
    BY ScreensAssumption
  <1>8. scrRead'[p].todo \subseteq DOMAIN Fetches(scrKind) /\ \A y \in scrRead'[p].rows : AsFetched(y)'
    BY <1>1, <1>2, <1>5, ListedOn DEF ScreensInv
  <1>9. \A y \in scrShown' : AsFetched(y)
    BY <1>1, <1>2 DEF ScreensInv
  <1>10. ScreensInv'
    BY <1>1, <1>2, <1>5, <1>6, <1>7, <1>8, <1>9, ScreensOn
  <1>11. ScreensTypeOK'
    BY <1>2, <1>5 DEF ScreensOK, ScreensTypeOK, Onward
  <1> QED
    BY <1>10, <1>11 DEF ScreensOK

LEMMA StepScreens == ScreensOK /\ [ScreensNext]_screenVars => ScreensOK'
  <1> SUFFICES ASSUME ScreensOK, [ScreensNext]_screenVars PROVE ScreensOK'
    OBVIOUS
  <1>1. ASSUME NEW c \in ScreenCalls, CallDone(c) PROVE ScreensOK'
    <2>1. scrBanner' \in {"none", "error"}
      BY <1>1 DEF CallDone, ScreensOK, ScreensTypeOK
    <2> QED
      <3>1. /\ scrCall[c].at = "done" /\ UNCHANGED <<scrKind, scrServer, scrShown, scrLeft>>
            /\ scrCall' = [scrCall EXCEPT ![c].at = "refresh"] /\ scrRead' = [scrRead EXCEPT ![c] = StartRead]
        BY <1>1 DEF CallDone
      <3>2. Refreshes(c)
        BY <2>1, <3>1 DEF Refreshes
      <3> QED
        BY <3>2, RefreshKeeps
  <1>2. ASSUME NEW c \in ScreenCalls, UsersCallFailed(c) PROVE ScreensOK'
    BY <1>2, RefreshKeeps DEF UsersCallFailed, Refreshes
  <1>3. CASE UNCHANGED screenVars
    <2>1. Onward /\ RestShape' /\ ScreenShapes'
      BY <1>3, Spent, InvHasShapes, ThreeShapes DEF screenVars, ScreensOK, ScreenShapes
    <2>2. PICK p \in ScreenPolls : p \notin ScreenCalls
      BY ScreensAssumption
    <2>3. scrRead'[p].todo \subseteq DOMAIN Fetches(scrKind) /\ \A y \in scrRead'[p].rows : AsFetched(y)'
      BY <1>3, <2>1, ListedOn DEF ScreensOK, ScreensInv, screenVars
    <2>4. ScreensInv'
      BY <1>3, <2>1, <2>2, <2>3, ScreensOn DEF ScreensOK, ScreensInv, screenVars
    <2> QED
      BY <1>3, <2>4 DEF ScreensOK, ScreensTypeOK, screenVars
  <1> QED
    BY <1>1, <1>2, <1>3, PollStep, ListStep, LandStep, FailStep, ClickStep, HandledStep, LostStep, FailedStep, OthersStep
    DEF ScreensNext

\* The lists that a screen shows, and those of a refresh under way, hold rows
\* as the backend had them when it was asked; a call was offered by what its
\* person saw; and after its move the backend, and everything the refresh
\* that follows has read, is ahead of what was clicked.
THEOREM ScreensCorrect == ScreensSpec => [](ScreensTypeOK /\ ScreensInv)
  <1>1. ScreensInit => ScreensOK
    BY InitScreens
  <1>2. ScreensOK /\ [ScreensNext]_screenVars => ScreensOK'
    BY StepScreens
  <1> QED
    BY <1>1, <1>2, PTL DEF ScreensSpec, ScreensOK

\* Rows of the tables that answer a click.
LEMMA ClicksAreMoves ==
  /\ <<"DRAFT", "request-consent", "ESCALATED">> \in Moves("inbox")
  /\ <<"PENDING_MANAGER", "approve", "APPROVED">> \in Moves("inbox")
  /\ <<"PENDING_MANAGER", "reject", "REJECTED">> \in Moves("inbox")
  /\ <<"PENDING_EMPLOYEE_CONSENT", "accept", "PENDING_MANAGER">> \in Moves("consent")
  /\ <<"PENDING_EMPLOYEE_CONSENT", "decline", "ESCALATED">> \in Moves("consent")
  /\ <<"PENDING", "approve", "APPROVED">> \in Moves("leave")
  /\ <<"PENDING", "reject", "REJECTED">> \in Moves("leave")
  /\ <<"PENDING", "cancel", "CANCELLED">> \in Moves("leave")
  /\ <<"ACTIVE", "revoke", "REVOKED">> \in Moves("access")
  /\ <<"active", "deactivate", "inactive">> \in Moves("users")
  /\ <<"DRAFT", "submit", "PENDING_PEER">> \in Moves("swaps")
  /\ <<"DRAFT", "cancel", "CANCELLED">> \in Moves("swaps")
  /\ <<"PENDING_PEER", "cancel", "CANCELLED">> \in Moves("swaps")
  /\ <<"PEER_AGREED", "to-manager", "PENDING_MANAGER">> \in Moves("swaps")
  /\ <<"PEER_AGREED", "cancel", "CANCELLED">> \in Moves("swaps")
  /\ <<"PENDING_MANAGER", "approve", "APPROVED">> \in Moves("swaps")
  /\ <<"PENDING_MANAGER", "reject", "REJECTED">> \in Moves("swaps")
  /\ <<"PENDING_MANAGER", "cancel", "CANCELLED">> \in Moves("swaps")
  BY MovesOfInbox, MovesOfOthers, MovesOfSwaps

LEMMA MoveIsThere ==
  ASSUME NEW k, NEW s, NEW a, \E u : <<s, a, u>> \in Moves(k) PROVE \E t \in Moves(k) : t[1] = s /\ t[2] = a
  OBVIOUS

\* But for the misoffered buttons, what is offered of rows as the backend has
\* them is a move that the backend takes.
LEMMA OfferedIsTaken ==
  ASSUME ScreensOK, NEW c \in ScreenCalls, scrCall[c].at = "sent", ~Misoffered(scrCall[c].act),
         \A x \in scrCall[c].saw : scrServer[x[2]] = x[3]
  PROVE  Accepted(c) # {}
  <1>1. PICK k : k = scrCall[c]
    OBVIOUS
  <1>2. Clicked(k)
    BY <1>1, OfCall DEF CallFits
  <1>3. PICK x \in k.saw : k.row = x[2] /\ AsFetched(x) /\ k.act \in Offered(x, k.saw) /\ (scrKind # "users" => k.saw = {x})
    BY <1>2, ClickedRow
  <1>4. PICK a, s : a = k.act /\ s = x[3]
    OBVIOUS
  <1>5. /\ scrServer[k.row] = s /\ a \in Offered(x, k.saw) /\ ~Misoffered(a)
        /\ x[1] \in DOMAIN Fetches(scrKind) /\ Lists(x[1])
        /\ Fetches(scrKind)[x[1]] # {} => s \in Fetches(scrKind)[x[1]]
    BY <1>1, <1>3, <1>4 DEF AsFetched
  <1> DEFINE Active == {r \in DOMAIN scrServer : scrServer[r] = "active"}
  <1>6. (\E u : <<s, a, u>> \in Moves(scrKind)) /\ Allowed(a) /\ ~LastAdmin(k.row, Active)
        => Accepted(c) # {}
    <2> SUFFICES ASSUME \E u : <<s, a, u>> \in Moves(scrKind), Allowed(a), ~LastAdmin(k.row, Active)
                 PROVE  Accepted(c) # {}
      OBVIOUS
    <2> HIDE DEF Active
    <2>1. PICK t \in Moves(scrKind) : t[1] = s /\ t[2] = a
      BY MoveIsThere
    <2>2. t[1] = scrServer[scrCall[c].row] /\ t[2] = scrCall[c].act /\ Allowed(t[2])
      BY <1>1, <1>4, <1>5, <2>1
    <2>3. ~LastAdmin(scrCall[c].row, {r \in DOMAIN scrServer : scrServer[r] = "active"})
      BY <1>1 DEF Active
    <2> QED
      BY <2>1, <2>2, <2>3 DEF Accepted
  <1> HIDE DEF Active
  <1>7. scrKind # "users" => ~LastAdmin(k.row, Active)
    BY DEF LastAdmin
  <1>8. scrKind \in ScreenKinds /\ (scrKind = "leave" => "target" \notin scrLeft.is)
    BY DEF ScreensOK, ScreensInv
  <1>9. CASE scrKind = "inbox"
    <2>1. Fetches(scrKind) = [manager |-> {"PENDING_MANAGER"}, draft |-> {"DRAFT"}, escalated |-> {"ESCALATED"}]
      BY <1>9 DEF Fetches
    <2>2. s \in {"PENDING_MANAGER", "DRAFT", "ESCALATED"}
      BY <1>5, <2>1
    <2>3. (s = "DRAFT" /\ a = "request-consent") \/ (s = "PENDING_MANAGER" /\ a \in {"approve", "reject"})
      BY <1>4, <1>5, <1>9, <2>2 DEF Offered, AiProposalActions
    <2>4. \E u : <<s, a, u>> \in Moves("inbox")
      BY <2>3, ClicksAreMoves
    <2>5. Allowed(a)
      BY <1>9 DEF Allowed
    <2> QED
      BY <1>6, <1>7, <1>9, <2>4, <2>5
  <1>10. CASE scrKind = "consent"
    <2>1. Fetches(scrKind) = [mine |-> {"PENDING_EMPLOYEE_CONSENT"}]
      BY <1>10 DEF Fetches
    <2>2. s = "PENDING_EMPLOYEE_CONSENT"
      BY <1>5, <2>1
    <2>3. a \in {"accept", "decline"}
      BY <1>4, <1>5, <1>10, <2>2 DEF Offered, AiProposalActions
    <2>4. \E u : <<s, a, u>> \in Moves("consent")
      BY <2>2, <2>3, ClicksAreMoves
    <2>5. Allowed(a)
      BY <1>10 DEF Allowed
    <2> QED
      BY <1>6, <1>7, <1>10, <2>4, <2>5
  <1>11. CASE scrKind = "leave"
    <2>1. s = "PENDING" /\ a \in (IF x[1] = "mine" THEN {"cancel"} ELSE {"approve", "reject"})
      BY <1>4, <1>5, <1>11 DEF Offered, LeaveActions
    <2>2. \E u : <<s, a, u>> \in Moves("leave")
      BY <2>1, ClicksAreMoves
    <2>3. CASE x[1] = "mine"
      <3>1. "owner" \in scrLeft.is
        BY <1>5, <1>8, <1>11, <2>3 DEF Lists
      <3> QED
        BY <1>6, <1>7, <1>11, <2>1, <2>2, <2>3, <3>1 DEF Allowed
    <2>4. CASE x[1] # "mine"
      <3>1. "decider" \in scrLeft.is
        BY <1>5, <1>11, <2>4 DEF Fetches
      <3>2. "owner" \notin scrLeft.is
        BY <1>5, <1>11, <2>1, <2>4 DEF Misoffered
      <3> QED
        BY <1>6, <1>7, <1>11, <2>1, <2>2, <2>4, <3>1, <3>2 DEF Allowed
    <2> QED
      BY <2>3, <2>4
  <1>12. CASE scrKind = "access"
    <2>1. s = "ACTIVE" /\ a = "revoke"
      BY <1>4, <1>5, <1>12 DEF Offered
    <2>2. \E u : <<s, a, u>> \in Moves("access")
      BY <2>1, ClicksAreMoves
    <2> QED
      BY <1>6, <1>7, <1>12, <2>2 DEF Allowed
  <1>13. CASE scrKind = "users"
    <2>1. s = "active" /\ a = "deactivate" /\ CanManageUser(x[2], k.saw)
      BY <1>4, <1>5, <1>13 DEF Offered
    <2>2. PICK y \in k.saw : y[3] = "active" /\ y[2] # x[2]
      BY <1>13, <2>1 DEF CanManageUser, LastAdmin
    <2>3. y[2] \in DOMAIN scrServer /\ scrServer[y[2]] = "active"
      BY <1>1, <1>2, <2>2 DEF Clicked, AsFetched
    <2>4. ~LastAdmin(k.row, Active)
      BY <1>3, <2>2, <2>3 DEF LastAdmin, Active
    <2>5. \E u : <<s, a, u>> \in Moves("users")
      BY <2>1, ClicksAreMoves
    <2> QED
      BY <1>6, <1>13, <2>4, <2>5 DEF Allowed
  <1>14. CASE scrKind = "swaps"
    <2>1. CASE x[1] = "mine"
      <3>1. a \in MineActions(s)
        BY <1>4, <1>5, <1>14, <2>1 DEF Offered
      <3>2. a \in {"submit", "cancel", "to-manager"} /\ \E u : <<s, a, u>> \in Moves("swaps")
        BY <3>1, ClicksAreMoves DEF MineActions
      <3>3. "owner" \in scrLeft.is
        BY <1>5, <1>14, <3>2 DEF Misoffered
      <3> QED
        BY <1>6, <1>7, <1>14, <3>2, <3>3 DEF Allowed
    <2>2. CASE x[1] # "mine"
      <3>1. a \in {"approve", "reject"}
        BY <1>4, <1>5, <1>14, <2>2 DEF Offered
      <3>2. Fetches(scrKind) = [mine |-> {}, inbox |-> {"PENDING_MANAGER"}]
        BY <1>14 DEF Fetches
      <3>3. s = "PENDING_MANAGER"
        BY <1>5, <2>2, <3>2
      <3>4. \E u : <<s, a, u>> \in Moves("swaps")
        BY <3>1, <3>3, ClicksAreMoves
      <3>5. "decider" \in scrLeft.is
        BY <1>5, <1>14, <3>1 DEF Misoffered
      <3> QED
        BY <1>6, <1>7, <1>14, <3>1, <3>4, <3>5 DEF Allowed
    <2> QED
      BY <2>1, <2>2
  <1> QED
    BY <1>8, <1>9, <1>10, <1>11, <1>12, <1>13, <1>14 DEF ScreenKinds

LEMMA SetsOne ==
  ASSUME ScreensOK, NEW c \in ScreenCalls, NEW d, NEW k, scrCall' = [scrCall EXCEPT ![d] = k]
  PROVE  scrCall'[c] = IF d = c THEN k ELSE scrCall[c]
  <1>1. CallShape
    BY OfCall
  <1> QED
    BY <1>1 DEF CallShape

LEMMA SetsStage ==
  ASSUME ScreensOK, NEW c \in ScreenCalls, NEW d \in ScreenCalls, NEW a, scrCall' = [scrCall EXCEPT ![d].at = a]
  PROVE  IF d = c THEN scrCall'[c].at = a ELSE scrCall'[c] = scrCall[c]
  <1>1. PICK k : k = [at |-> a, row |-> scrCall[d].row, act |-> scrCall[d].act, saw |-> scrCall[d].saw]
    OBVIOUS
  <1>2. k.at = a
    BY <1>1
  <1>3. scrCall' = [scrCall EXCEPT ![d] = k]
    BY <1>1, OfCall
  <1>4. scrCall'[c] = IF d = c THEN k ELSE scrCall[c]
    BY <1>3, SetsOne
  <1> QED
    BY <1>2, <1>4

\* What a step can do to a call.
CallGoesOn(c) ==
  \/ scrCall'[c] = scrCall[c]
  \/ scrCall'[c].at \in {"sent", "done", "failed", "refresh"}
  \/ Handled(c) /\ Refusable(c) /\ scrCall'[c].at = "refused"
  \/ scrCall'[c].at = "idle" /\ (Land(c) \/ RefreshFails(c) \/ CallFailed(c))

LEMMA EndsCall ==
  ASSUME ScreensOK, NEW c \in ScreenCalls, NEW x, EndsRefresh(x)
  PROVE  IF x = c THEN scrCall'[c].at = "idle" ELSE scrCall'[c] = scrCall[c]
  <1>1. CASE x \in ScreenCalls
    <2>1. scrCall' = [scrCall EXCEPT ![x] = NoCall]
      BY <1>1 DEF EndsRefresh
    <2>2. scrCall'[c] = IF x = c THEN NoCall ELSE scrCall[c]
      BY <2>1, SetsOne
    <2> QED
      BY <2>2, ReadsHaveShapes
  <1>2. CASE x \notin ScreenCalls
    BY <1>2 DEF EndsRefresh
  <1> QED
    BY <1>1, <1>2

LEMMA CallsGoOn == ASSUME ScreensOK, [ScreensNext]_screenVars, NEW c \in ScreenCalls PROVE CallGoesOn(c)
  <1>1. ASSUME NEW p \in ScreenPolls, PollTick(p) PROVE CallGoesOn(c)
    BY <1>1 DEF PollTick, CallGoesOn
  <1>2. ASSUME NEW x, ListAnswered(x) PROVE CallGoesOn(c)
    BY <1>2 DEF ListAnswered, CallGoesOn
  <1>3. ASSUME NEW x, Land(x) \/ RefreshFails(x) \/ CallFailed(x) PROVE CallGoesOn(c)
    <2>1. EndsRefresh(x)
      BY <1>3 DEF Land, RefreshFails, CallFailed
    <2> QED
      BY <1>3, <2>1, EndsCall DEF CallGoesOn
  <1>4. ASSUME NEW d \in ScreenCalls, Click(d) PROVE CallGoesOn(c)
    <2>1. PICK x \in scrShown : \E a \in Offered(x, scrShown) :
            scrCall' = [scrCall EXCEPT ![d] = [at |-> "sent", row |-> x[2], act |-> a,
                                               saw |-> IF scrKind = "users" THEN scrShown ELSE {x}]]
      BY <1>4 DEF Click
    <2>2. PICK a, saw : scrCall' = [scrCall EXCEPT ![d] = [at |-> "sent", row |-> x[2], act |-> a, saw |-> saw]]
      BY <2>1
    <2>3. scrCall'[c] = IF d = c THEN [at |-> "sent", row |-> x[2], act |-> a, saw |-> saw] ELSE scrCall[c]
      BY <2>2, SetsOne
    <2> QED
      BY <2>3 DEF CallGoesOn
  <1>5. ASSUME NEW d \in ScreenCalls, Handled(d) PROVE CallGoesOn(c)
    <2>1. CASE scrCall' = [scrCall EXCEPT ![d].at = "done"]
      BY <2>1, SetsStage DEF CallGoesOn
    <2>2. CASE Refusable(d) /\ scrCall' = [scrCall EXCEPT ![d].at = "refused"]
      <3>1. IF d = c THEN scrCall'[c].at = "refused" ELSE scrCall'[c] = scrCall[c]
        BY <2>2, SetsStage
      <3> QED
        BY <1>5, <2>2, <3>1 DEF CallGoesOn
    <2> QED
      BY <1>5, <2>1, <2>2 DEF Handled
  <1>6. ASSUME NEW d \in ScreenCalls, CallLost(d) PROVE CallGoesOn(c)
    <2>1. IF d = c THEN scrCall'[c].at = "failed" ELSE scrCall'[c] = scrCall[c]
      BY <1>6, SetsStage DEF CallLost
    <2> QED
      BY <2>1 DEF CallGoesOn
  <1>7. ASSUME NEW d \in ScreenCalls, CallDone(d) \/ UsersCallFailed(d) PROVE CallGoesOn(c)
    <2>1. scrCall' = [scrCall EXCEPT ![d].at = "refresh"]
      BY <1>7 DEF CallDone, UsersCallFailed
    <2>2. IF d = c THEN scrCall'[c].at = "refresh" ELSE scrCall'[c] = scrCall[c]
      BY <2>1, SetsStage
    <2> QED
      BY <2>2 DEF CallGoesOn
  <1>8. CASE SomebodyElse \/ UNCHANGED screenVars
    BY <1>8 DEF SomebodyElse, screenVars, CallGoesOn
  <1> QED
    BY <1>1, <1>2, <1>3, <1>4, <1>5, <1>6, <1>7, <1>8 DEF ScreensNext

\* But for the buttons it wrongly offers, and for approvals, which are vetted
\* anew, a screen is refused only because a row has changed, or a consent has
\* lapsed, since it was shown: what is offered of a row as the backend has it
\* is a move of the backend's table that the caller may make.
THEOREM RefusedForStaleness == ScreensSpec => RefusedOnlyWhenStale
  <1>1. ASSUME ScreensOK, [ScreensNext]_screenVars, NEW c \in ScreenCalls,
               scrCall[c].at = "sent", scrCall'[c].at = "refused"
        PROVE  \/ Misoffered(scrCall[c].act) \/ VettedAnew(c)
               \/ \E x \in scrCall[c].saw : scrServer[x[2]] # x[3]
    <2>1. CASE Accepted(c) = {}
      BY <1>1, <2>1, OfferedIsTaken
    <2>2. Refusable(c)
      BY <1>1, CallsGoOn DEF CallGoesOn
    <2> QED
      BY <2>1, <2>2 DEF Refusable, Clashed
  <1>2. ScreensOK /\ [ScreensNext]_screenVars
        => [\A c \in ScreenCalls :
              (scrCall[c].at = "sent" /\ scrCall'[c].at = "refused")
                 => \/ Misoffered(scrCall[c].act) \/ VettedAnew(c)
                    \/ \E x \in scrCall[c].saw : scrServer[x[2]] # x[3]]_screenVars
    BY <1>1
  <1> QED
    BY <1>2, ScreensCorrect, PTL DEF ScreensSpec, RefusedOnlyWhenStale, ScreensOK

\* When a button is free again, the refresh that freed it has replaced what
\* was clicked with something ahead of it, or the banner tells of an error.
THEOREM EndsAreTold == ScreensSpec => EndsTold
  <1>1. ASSUME ScreensOK, [ScreensNext]_screenVars, NEW c \in ScreenCalls,
               scrKind # "users", scrCall[c].at # "idle", scrCall'[c].at = "idle"
        PROVE  scrBanner' = "error" \/ scrCall[c].saw \cap scrShown' = {}
    <2>1. Land(c) \/ RefreshFails(c) \/ CallFailed(c)
      BY <1>1, CallsGoOn DEF CallGoesOn
    <2>2. CASE Land(c)
      <3>1. CallFits(c)
        BY <1>1, OfCall
      <3>2. ASSUME NEW x \in scrCall[c].saw, x \in scrShown' PROVE FALSE
        <4>1. scrRead[c].on /\ x \in scrRead[c].rows
          BY <2>2, <3>2 DEF Land
        <4>2. Progress(x[3]) < Progress(x[3])
          BY <1>1, <3>1, <3>2, <4>1 DEF CallFits, Ahead
        <4> QED
          BY <4>2, ProgressIsNat
      <3> QED
        BY <3>2
    <2>3. CASE RefreshFails(c)
      BY <2>3, ScreensAssumption DEF RefreshFails
    <2>4. CASE CallFailed(c)
      BY <2>4 DEF CallFailed
    <2> QED
      BY <2>1, <2>2, <2>3, <2>4
  <1>2. ScreensOK /\ [ScreensNext]_screenVars
        => [\A c \in ScreenCalls :
              (scrKind # "users" /\ scrCall[c].at # "idle" /\ scrCall'[c].at = "idle")
                 => scrBanner' = "error" \/ scrCall[c].saw \cap scrShown' = {}]_screenVars
    BY <1>1
  <1> QED
    BY <1>2, ScreensCorrect, PTL DEF ScreensSpec, EndsTold, ScreensOK
=============================================================================
