------------------------------ MODULE Requests ------------------------------
(***************************************************************************)
(* The way of a request through the tenant runtime (TenantRoute): token,   *)
(* roles, tenant context, handler, audit.  The status of a tenant is       *)
(* cached in Redis for CacheTtl ticks; the entry is written after the      *)
(* database was read, so what is written may already be out of date.       *)
(* Signatures and JWKS are external: a token is what Keycloak issued.      *)
(***************************************************************************)
EXTENDS Naturals, FiniteSets

CONSTANTS
    Realms,       \* tenants, by slug
    Opening,      \* those that are not active yet
    Closing,      \* those that may be suspended
    VisitKinds,   \* requests: [trusted, role, mutates]
    Visitors,     \* requests in progress at the same time
    CacheTtl,     \* CACHE_TTL, in ticks
    MaxLag        \* ticks a request may spend between its read and its write

ASSUME RequestsAssumption ==
    /\ Opening \cup Closing \subseteq Realms
    /\ VisitKinds \subseteq [trusted : BOOLEAN, role : BOOLEAN, mutates : BOOLEAN]
    /\ CacheTtl \in Nat \ {0} /\ MaxLag \in Nat

VARIABLES
    realmStatus,  \* tenant row: "PROVISIONING", "ACTIVE" or "SUSPENDED"
    suspendedFor, \* ticks since the suspension, up to TooLong
    tenantCache,  \* Redis: {} or {[id, status, left]} per key
    visit,        \* locals of the requests
    auditLog      \* audit rows: whose user acted, and in whose log it is

requestsVars == <<realmStatus, suspendedFor, tenantCache, visit, auditLog>>

TooLong == CacheTtl + MaxLag + MaxLag

NoVisit == [at |-> "idle", realm |-> "", trusted |-> FALSE, role |-> FALSE, mutates |-> FALSE,
            entry |-> {}, tenant |-> "", lag |-> 0]

RequestsInit ==
    /\ realmStatus = [r \in Realms |-> IF r \in Opening THEN "PROVISIONING" ELSE "ACTIVE"]
    /\ suspendedFor = [r \in Realms |-> 0]
    /\ tenantCache = [r \in Realms |-> {}]
    /\ visit = [v \in Visitors |-> NoVisit]
    /\ auditLog = {}

StepVisit(v, at) == visit' = [visit EXCEPT ![v].at = at]
EndVisit(v) == visit' = [visit EXCEPT ![v] = NoVisit]
outside == <<realmStatus, suspendedFor>>

Arrive(v, r, k) ==
    /\ visit[v].at = "idle"
    /\ visit' = [visit EXCEPT ![v] = [NoVisit EXCEPT !.at = "guards", !.realm = r,
                                        !.trusted = k.trusted, !.role = k.role, !.mutates = k.mutates]]
    /\ UNCHANGED <<outside, tenantCache, auditLog>>

\* KeycloakJwtGuard (isTrustedIssuer, then the key), then RbacGuard: 401, 403.
Guards(v) ==
    /\ visit[v].at = "guards"
    /\ IF visit[v].trusted /\ visit[v].role THEN StepVisit(v, "cache") ELSE EndVisit(v)
    /\ UNCHANGED <<outside, tenantCache, auditLog>>

\* `tenant:slug:${slug}`
CacheKey(r) == r

\* As ReadCache, but a hit prolongs the entry.
ReadCacheSlides(v) ==
    LET k == CacheKey(visit[v].realm) IN
    /\ visit[v].at = "cache"
    /\ \/ \E e \in tenantCache[k] :
            /\ visit' = [visit EXCEPT ![v].at = "check", ![v].entry = {[id |-> e.id, status |-> e.status]}]
            /\ tenantCache' = [tenantCache EXCEPT ![k] = {[e EXCEPT !.left = CacheTtl]}]
       \/ StepVisit(v, "lookup") /\ UNCHANGED tenantCache
    /\ UNCHANGED <<outside, auditLog>>

\* redis.get: a hit, a miss, or Redis does not answer.
ReadCache(v) ==
    /\ visit[v].at = "cache"
    /\ \/ \E e \in tenantCache[CacheKey(visit[v].realm)] :
            visit' = [visit EXCEPT ![v].at = "check", ![v].entry = {[id |-> e.id, status |-> e.status]}]
       \/ StepVisit(v, "lookup")
    /\ UNCHANGED <<outside, tenantCache, auditLog>>

\* tenant.findFirst; the realm of a tenant exists before its row is ACTIVE
LookupTenant(v) ==
    LET r == visit[v].realm IN
    /\ visit[v].at = "lookup"
    /\ visit' = [visit EXCEPT ![v].at = "setex", ![v].entry = {[id |-> r, status |-> realmStatus[r]]}]
    /\ UNCHANGED <<outside, tenantCache, auditLog>>

\* redis.setex, best effort
FillCache(v) ==
    LET k == CacheKey(visit[v].realm) IN
    /\ visit[v].at = "setex"
    /\ \/ tenantCache' = [tenantCache EXCEPT ![k] =
                            {[id |-> e.id, status |-> e.status, left |-> CacheTtl] : e \in visit[v].entry}]
       \/ UNCHANGED tenantCache
    /\ StepVisit(v, "check")
    /\ UNCHANGED <<outside, auditLog>>

\* Not active: 403.  Otherwise the request is bound to the tenant and its client.
BindTenant(v) ==
    /\ visit[v].at = "check"
    /\ \E e \in visit[v].entry :
         IF e.status = "ACTIVE"
         THEN visit' = [visit EXCEPT ![v].at = "handler", ![v].tenant = e.id, ![v].entry = {}, ![v].lag = 0]
         ELSE EndVisit(v)
    /\ UNCHANGED <<outside, tenantCache, auditLog>>

\* The handler returns or throws; only a mutation that returned is audited.
Handle(v) ==
    /\ visit[v].at = "handler"
    /\ \/ visit[v].mutates /\ StepVisit(v, "audit")
       \/ EndVisit(v)
    /\ UNCHANGED <<outside, tenantCache, auditLog>>

\* AuditService.log, after the answer: it may fail, which is logged.
Audit(v) ==
    /\ visit[v].at = "audit"
    /\ \/ auditLog' = auditLog \cup {<<visit[v].realm, visit[v].tenant>>}
       \/ UNCHANGED auditLog
    /\ EndVisit(v)
    /\ UNCHANGED <<outside, tenantCache>>

\* The control plane activates or suspends a tenant.
ChangeStatus(r) ==
    /\ \/ realmStatus[r] = "PROVISIONING" /\ realmStatus' = [realmStatus EXCEPT ![r] = "ACTIVE"]
       \/ r \in Closing /\ realmStatus[r] = "ACTIVE" /\ realmStatus' = [realmStatus EXCEPT ![r] = "SUSPENDED"]
    /\ UNCHANGED <<suspendedFor, tenantCache, visit, auditLog>>

\* Time passes: entries expire.  No request lingers longer than MaxLag.
Tick ==
    LET waiting == {v \in Visitors : visit[v].at \in {"setex", "check"}} IN
    /\ \A v \in waiting : visit[v].lag < MaxLag
    /\ suspendedFor' = [r \in Realms |-> IF realmStatus[r] = "SUSPENDED" /\ suspendedFor[r] < TooLong
                                         THEN suspendedFor[r] + 1 ELSE suspendedFor[r]]
    /\ tenantCache' = [r \in Realms |-> {[e EXCEPT !.left = @ - 1] : e \in {x \in tenantCache[r] : x.left > 1}}]
    /\ visit' = [v \in Visitors |-> IF v \in waiting THEN [visit[v] EXCEPT !.lag = @ + 1] ELSE visit[v]]
    /\ UNCHANGED <<realmStatus, auditLog>>

RequestsNext ==
    \/ Tick
    \/ \E r \in Realms : ChangeStatus(r)
    \/ \E v \in Visitors :
        \/ \E r \in Realms, k \in VisitKinds : Arrive(v, r, k)
        \/ Guards(v) \/ ReadCache(v) \/ LookupTenant(v) \/ FillCache(v) \/ BindTenant(v)
        \/ Handle(v) \/ Audit(v)

RequestsSpec == RequestsInit /\ [][RequestsNext]_requestsVars

-----------------------------------------------------------------------------
(* Properties *)

RealmStatus == {"PROVISIONING", "ACTIVE", "SUSPENDED"}
VisitPoint == {"idle", "guards", "cache", "lookup", "setex", "check", "handler", "audit"}
VisitType ==
    [at : VisitPoint, realm : Realms \cup {""}, trusted : BOOLEAN, role : BOOLEAN, mutates : BOOLEAN,
     entry : SUBSET [id : Realms, status : RealmStatus], tenant : Realms \cup {""}, lag : 0..MaxLag]

RequestsTypeOK ==
    /\ realmStatus \in [Realms -> RealmStatus]
    /\ suspendedFor \in [Realms -> 0..TooLong]
    /\ tenantCache \in [Realms -> SUBSET [id : Realms, status : RealmStatus, left : 1..CacheTtl]]
    /\ visit \in [Visitors -> VisitType]

(* A suspended tenant loses access: a request is still let in on a cached  *)
(* ACTIVE only while the entry can be that old, even when the entry was    *)
(* written after the suspension by a request that had read the row before  *)
(* (lookupTenant, "caps the stale-access window").                         *)
SuspendedLosesAccess ==
    [][\A v \in Visitors :
         (visit[v].at = "check" /\ visit'[v].at = "handler")
            => suspendedFor[visit[v].realm] < TooLong]_requestsVars

-----------------------------------------------------------------------------
(* The inductive invariant *)

\* A tenant that is not suspended has not been so for any time.
SuspensionCounted == \A r \in Realms : realmStatus[r] # "SUSPENDED" => suspendedFor[r] = 0

\* What is left of a cached ACTIVE shrinks as the suspension grows.
CacheAges ==
    \A r \in Realms : \A e \in tenantCache[r] :
        e.status = "ACTIVE" => suspendedFor[r] + e.left <= CacheTtl + MaxLag

\* What a request knows is as old as the time since it read it.
VisitAges(v) ==
    LET k == visit[v] IN
    /\ k.at # "idle" => k.realm \in Realms
    /\ k.at \in {"guards", "cache", "lookup"} => k.lag = 0
    /\ \A e \in k.entry : e.status = "ACTIVE" =>
         /\ k.at = "setex" => suspendedFor[k.realm] <= k.lag
         /\ k.at = "check" => suspendedFor[k.realm] < CacheTtl + MaxLag + k.lag

RequestsInv == SuspensionCounted /\ CacheAges /\ \A v \in Visitors : VisitAges(v)
=============================================================================
