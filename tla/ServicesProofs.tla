--------------------------- MODULE ServicesProofs ---------------------------
(***************************************************************************)
(* The services that answer requests side by side.                         *)
(*                                                                         *)
(* Requests, for every set of tenants and of requests in progress, every   *)
(* time to live of the cache and every delay between a request's read of a *)
(* tenant row and its write to the cache: a suspended tenant loses access  *)
(* after a time that the two constants bound.                              *)
(*                                                                         *)
(* Agent, for every set of tenants and threads and any number of calls and *)
(* crashes: the store is a true record of what the agent has learned, and  *)
(* every state of it is of its type.                                       *)
(*                                                                         *)
(* Fleet and ClientCache, for any number of tenants, runners and requests: *)
(* what the fleet migration reports is true, and the client cache keeps    *)
(* its borrowers connected and forgets no pool.                            *)
(*                                                                         *)
(* Users, for every tenant, every set of grants and any number of calls:   *)
(* calls that run one after the other leave no realm role without its row, *)
(* however they break off, and no race of revocations and deactivations    *)
(* takes the last administrator.                                           *)
(***************************************************************************)
EXTENDS Requests, Agent, Fleet, ClientCache, Users, SequenceTheorems, FiniteSetTheorems,
        WellFoundedInduction, TLAPS

-----------------------------------------------------------------------------
(* Requests and the agent *)

LEMMA Bounds == CacheTtl \in Nat \ {0} /\ MaxLag \in Nat
  BY RequestsAssumption

LEMMA Kinds == \A q \in VisitKinds : q.trusted \in BOOLEAN /\ q.role \in BOOLEAN /\ q.mutates \in BOOLEAN
  BY RequestsAssumption

LEMMA Lags ==
  /\ 0 \in 0..MaxLag /\ 0 \in 0..TooLong /\ CacheTtl \in 1..CacheTtl
  /\ \A n \in 0..MaxLag : n \in Nat /\ (n < MaxLag => n + 1 \in 0..MaxLag)
  /\ \A n \in 0..TooLong : n \in Nat
  BY Bounds DEF TooLong

RInv == RequestsTypeOK /\ RequestsInv

LEMMA RequestsInitInv == RequestsInit => RInv
  <1> SUFFICES ASSUME RequestsInit PROVE RInv
    OBVIOUS
  <1>1. NoVisit \in VisitType
    BY Lags DEF NoVisit, VisitType, VisitPoint
  <1>2. RequestsTypeOK
    BY <1>1, Lags DEF RequestsInit, RequestsTypeOK, RealmStatus
  <1>3. RequestsInv
    BY DEF RequestsInit, RequestsInv, SuspensionCounted, CacheAges, VisitAges, NoVisit
  <1> QED
    BY <1>2, <1>3 DEF RInv

\* A step of one request that leaves tenants and cache alone and makes r of its locals.
LEMMA OneVisit ==
  ASSUME RInv, NEW v \in Visitors, NEW r \in VisitType, visit' = [visit EXCEPT ![v] = r],
         UNCHANGED <<realmStatus, suspendedFor>>,
         \/ UNCHANGED tenantCache
         \/ CacheAges' /\ RequestsTypeOK',
         r.at # "idle" => r.realm \in Realms,
         r.at \in {"guards", "cache", "lookup"} => r.lag = 0,
         \A e \in r.entry : e.status = "ACTIVE" =>
           /\ r.at = "setex" => suspendedFor[r.realm] <= r.lag
           /\ r.at = "check" => suspendedFor[r.realm] < CacheTtl + MaxLag + r.lag
  PROVE  RInv'
  <1>1. visit'[v] = r /\ \A w \in Visitors : w # v => visit'[w] = visit[w]
    BY DEF RInv, RequestsTypeOK
  <1>2. RequestsTypeOK'
    BY DEF RInv, RequestsTypeOK
  <1>3. SuspensionCounted' /\ CacheAges'
    BY DEF RInv, RequestsInv, SuspensionCounted, CacheAges
  <1>4. ASSUME NEW w \in Visitors PROVE VisitAges(w)'
    <2>1. CASE w = v
      BY <1>1, <2>1 DEF VisitAges
    <2>2. CASE w # v
      BY <1>1, <2>2 DEF RInv, RequestsInv, VisitAges
    <2> QED
      BY <2>1, <2>2
  <1> QED
    BY <1>2, <1>3, <1>4 DEF RInv, RequestsInv

LEMMA VisitSteps ==
  ASSUME RInv, NEW v \in Visitors,
         \/ \E r \in Realms, k \in VisitKinds : Arrive(v, r, k)
         \/ Guards(v) \/ ReadCache(v) \/ LookupTenant(v) \/ FillCache(v) \/ BindTenant(v)
         \/ Handle(v) \/ Audit(v)
  PROVE  RInv'
  <1> DEFINE k == visit[v]
  <1>1. k \in VisitType /\ VisitAges(v)
    BY DEF RInv, RequestsInv, RequestsTypeOK
  <1>2. NoVisit \in VisitType /\ NoVisit.at = "idle" /\ NoVisit.entry = {}
    BY Lags DEF NoVisit, VisitType, VisitPoint
  <1>3. ASSUME EndVisit(v), UNCHANGED <<outside, tenantCache>> PROVE RInv'
    BY <1>2, <1>3, OneVisit DEF EndVisit, outside
  <1>4. ASSUME NEW at \in {"cache", "lookup", "audit"}, StepVisit(v, at), k.at # "idle",
               k.lag = 0 \/ at = "audit", UNCHANGED <<outside, tenantCache>>
        PROVE  RInv'
    <2> DEFINE r == [k EXCEPT !.at = at]
    <2>1. /\ r \in VisitType /\ r.at = at /\ r.realm = k.realm /\ r.lag = k.lag
          /\ visit' = [visit EXCEPT ![v] = r]
      BY <1>1, <1>4 DEF VisitType, VisitPoint, StepVisit
    <2> HIDE DEF r
    <2> QED
      BY <1>1, <1>4, <2>1, OneVisit DEF VisitAges, outside
  <1>5. CASE \E r \in Realms, q \in VisitKinds : Arrive(v, r, q)
    <2>1. PICK realm \in Realms, q \in VisitKinds : Arrive(v, realm, q)
      BY <1>5
    <2> DEFINE r == [NoVisit EXCEPT !.at = "guards", !.realm = realm,
                                    !.trusted = q.trusted, !.role = q.role, !.mutates = q.mutates]
    <2>2. visit' = [visit EXCEPT ![v] = r] /\ UNCHANGED <<outside, tenantCache>>
      BY <2>1 DEF Arrive
    <2>3. q.trusted \in BOOLEAN /\ q.role \in BOOLEAN /\ q.mutates \in BOOLEAN
      BY Kinds
    <2>4. /\ r \in VisitType /\ r.at = "guards" /\ r.realm = realm /\ r.lag = 0 /\ r.entry = {}
      BY <2>3, Lags DEF NoVisit, VisitType, VisitPoint
    <2> HIDE DEF r
    <2> QED
      BY <2>2, <2>4, OneVisit DEF outside
  <1>6. CASE Guards(v)
    BY <1>1, <1>3, <1>4, <1>6 DEF Guards, VisitAges
  <1>7. CASE ReadCache(v)
    <2>1. k.at = "cache" /\ UNCHANGED <<outside, tenantCache>> /\ k.realm \in Realms /\ k.lag = 0
      BY <1>1, <1>7 DEF ReadCache, VisitAges
    <2>2. CASE StepVisit(v, "lookup")
      BY <1>4, <2>1, <2>2
    <2>3. ASSUME NEW e \in tenantCache[k.realm],
                 visit' = [visit EXCEPT ![v].at = "check", ![v].entry = {[id |-> e.id, status |-> e.status]}]
          PROVE  RInv'
      <3> DEFINE known == [id |-> e.id, status |-> e.status]
                 r == [k EXCEPT !.at = "check", !.entry = {known}]
      <3>1. /\ e \in [id : Realms, status : RealmStatus, left : 1..CacheTtl]
            /\ e.status = "ACTIVE" => suspendedFor[k.realm] + e.left <= CacheTtl + MaxLag
            /\ suspendedFor[k.realm] \in 0..TooLong
        BY <2>1, <2>3 DEF RInv, RequestsInv, RequestsTypeOK, CacheAges
      <3>2. visit' = [visit EXCEPT ![v] = r]
        BY <2>3
      <3>3. known \in [id : Realms, status : RealmStatus] /\ known.status = e.status
        BY <3>1
      <3>4. r.entry = {known}
        BY <1>1 DEF VisitType
      <3> HIDE DEF known
      <3>5. r \in VisitType /\ r.at = "check" /\ r.realm = k.realm /\ r.lag = 0
        BY <1>1, <2>1, <3>3, Lags DEF VisitType, VisitPoint
      <3>6. e.status = "ACTIVE" => suspendedFor[k.realm] < CacheTtl + MaxLag
        BY <3>1, Bounds DEF TooLong
      <3>7. \A x \in r.entry : x.status = "ACTIVE" => suspendedFor[r.realm] < CacheTtl + MaxLag + r.lag
        BY <3>3, <3>4, <3>5, <3>6, Bounds
      <3> HIDE DEF r
      <3> QED
        BY <2>1, <3>2, <3>5, <3>7, OneVisit DEF outside
    <2> QED
      BY <1>7, <2>2, <2>3 DEF ReadCache, CacheKey
  <1>8. CASE LookupTenant(v)
    <2> DEFINE e == [id |-> k.realm, status |-> realmStatus[k.realm]]
               r == [k EXCEPT !.at = "setex", !.entry = {e}]
    <2>1. /\ visit' = [visit EXCEPT ![v] = r] /\ UNCHANGED <<outside, tenantCache>>
          /\ k.realm \in Realms /\ k.lag = 0
      BY <1>1, <1>8 DEF LookupTenant, VisitAges
    <2>2. e \in [id : Realms, status : RealmStatus]
      BY <2>1 DEF RInv, RequestsTypeOK
    <2>4. /\ r \in VisitType /\ r.at = "setex" /\ r.realm = k.realm /\ r.lag = 0 /\ r.entry = {e}
      <3> HIDE DEF e
      <3> QED
        BY <1>1, <2>1, <2>2 DEF VisitType, VisitPoint
    <2>3. e.status = "ACTIVE" => suspendedFor[k.realm] <= 0
      BY <2>1 DEF RInv, RequestsInv, SuspensionCounted, RequestsTypeOK
    <2> HIDE DEF r, e
    <2> QED
      BY <2>1, <2>3, <2>4, OneVisit DEF outside
  <1>9. CASE FillCache(v)
    <2> DEFINE r == [k EXCEPT !.at = "check"]
               written == {[id |-> e.id, status |-> e.status, left |-> CacheTtl] : e \in k.entry}
    <2>1. /\ visit' = [visit EXCEPT ![v] = r] /\ UNCHANGED outside /\ k.at = "setex" /\ k.realm \in Realms
          /\ tenantCache' = [tenantCache EXCEPT ![k.realm] = written] \/ UNCHANGED tenantCache
      BY <1>1, <1>9 DEF FillCache, StepVisit, VisitAges, CacheKey
    <2>2. /\ r \in VisitType /\ r.at = "check" /\ r.realm = k.realm /\ r.lag = k.lag /\ r.entry = k.entry
      BY <1>1 DEF VisitType, VisitPoint
    <2>3. k.lag \in 0..MaxLag /\ suspendedFor[k.realm] \in Nat /\ k.entry \subseteq [id : Realms, status : RealmStatus]
      <3>1. k.lag \in 0..MaxLag /\ k.entry \subseteq [id : Realms, status : RealmStatus]
        BY <1>1 DEF VisitType
      <3>2. suspendedFor[k.realm] \in 0..TooLong
        BY <2>1 DEF RInv, RequestsTypeOK
      <3> QED
        BY <3>1, <3>2, Lags
    <2>4. \A e \in k.entry : e.status = "ACTIVE" => suspendedFor[k.realm] <= k.lag
      BY <1>1, <2>1 DEF VisitAges
    <2>5. \A e \in k.entry : e.status = "ACTIVE" => suspendedFor[k.realm] < CacheTtl + MaxLag + k.lag
      BY <2>3, <2>4, Bounds
    <2>6. ASSUME tenantCache' = [tenantCache EXCEPT ![k.realm] = written]
          PROVE  CacheAges' /\ RequestsTypeOK'
      <3>1. written \subseteq [id : Realms, status : RealmStatus, left : 1..CacheTtl]
        BY <2>3, Lags
      <3>2. \A e \in written : e.status = "ACTIVE" => suspendedFor[k.realm] + e.left <= CacheTtl + MaxLag
        BY <2>3, <2>4, Bounds
      <3> HIDE DEF written, r
      <3>3. tenantCache' \in [Realms -> SUBSET [id : Realms, status : RealmStatus, left : 1..CacheTtl]]
        BY <2>6, <3>1 DEF RInv, RequestsTypeOK
      <3>4. RequestsTypeOK'
        BY <2>1, <2>2, <3>3 DEF RInv, RequestsTypeOK, outside
      <3>5. ASSUME NEW x \in Realms, NEW e \in tenantCache'[x], e.status = "ACTIVE"
            PROVE  suspendedFor'[x] + e.left <= CacheTtl + MaxLag
        <4>1. CASE x = k.realm
          <5>1. e \in written
            BY <2>1, <2>6, <3>5, <4>1 DEF RInv, RequestsTypeOK
          <5> QED
            BY <2>1, <3>2, <3>5, <4>1, <5>1 DEF outside
        <4>2. CASE x # k.realm
          <5>1. e \in tenantCache[x]
            BY <2>6, <3>5, <4>2 DEF RInv, RequestsTypeOK
          <5> QED
            BY <2>1, <3>5, <5>1 DEF RInv, RequestsInv, CacheAges, outside
        <4> QED
          BY <4>1, <4>2
      <3> QED
        BY <3>4, <3>5 DEF CacheAges
    <2> HIDE DEF r, written
    <2> QED
      BY <2>1, <2>2, <2>5, <2>6, OneVisit DEF outside
  <1>10. CASE BindTenant(v)
    <2>1. PICK e \in k.entry :
            IF e.status = "ACTIVE"
            THEN visit' = [visit EXCEPT ![v].at = "handler", ![v].tenant = e.id, ![v].entry = {}, ![v].lag = 0]
            ELSE EndVisit(v)
      BY <1>10 DEF BindTenant
    <2>2. UNCHANGED <<outside, tenantCache>> /\ k.realm \in Realms
      BY <1>1, <1>10 DEF BindTenant, VisitAges
    <2>3. CASE e.status = "ACTIVE"
      <3> DEFINE r == [k EXCEPT !.at = "handler", !.tenant = e.id, !.entry = {}, !.lag = 0]
      <3>1. visit' = [visit EXCEPT ![v] = r]
        BY <2>1, <2>3
      <3>2. e.id \in Realms
        BY <1>1 DEF VisitType
      <3>3. r \in VisitType /\ r.at = "handler" /\ r.realm = k.realm /\ r.entry = {}
        BY <1>1, <3>2, Lags DEF VisitType, VisitPoint
      <3> HIDE DEF r
      <3> QED
        BY <2>2, <3>1, <3>3, OneVisit DEF outside
    <2> QED
      BY <1>3, <2>1, <2>2, <2>3
  <1>11. CASE Handle(v) \/ Audit(v)
    BY <1>3, <1>4, <1>11 DEF Handle, Audit
  <1> QED
    BY <1>5, <1>6, <1>7, <1>8, <1>9, <1>10, <1>11

LEMMA ChangeStatusInv ==
  ASSUME RInv, NEW r \in Realms, ChangeStatus(r)
  PROVE  RInv'
  <1>1. UNCHANGED <<suspendedFor, tenantCache, visit>>
    BY DEF ChangeStatus
  <1>2. realmStatus[r] \in {"PROVISIONING", "ACTIVE"} /\ suspendedFor[r] = 0
    BY DEF ChangeStatus, RInv, RequestsInv, SuspensionCounted
  <1>3. realmStatus' \in [Realms -> RealmStatus] /\ \A x \in Realms : x # r => realmStatus'[x] = realmStatus[x]
    BY DEF ChangeStatus, RInv, RequestsTypeOK, RealmStatus
  <1>4. RequestsTypeOK'
    BY <1>1, <1>3 DEF RInv, RequestsTypeOK
  <1>5. SuspensionCounted'
    BY <1>1, <1>2, <1>3 DEF RInv, RequestsInv, SuspensionCounted
  <1> QED
    BY <1>1, <1>4, <1>5 DEF RInv, RequestsInv, CacheAges, VisitAges

LEMMA TickInv ==
  ASSUME RInv, Tick
  PROVE  RInv'
  <1> DEFINE waiting == {v \in Visitors : visit[v].at \in {"setex", "check"}}
             Older(e) == [e EXCEPT !.left = @ - 1]
  <1>1. /\ \A v \in waiting : visit[v].lag < MaxLag
        /\ suspendedFor' = [r \in Realms |-> IF realmStatus[r] = "SUSPENDED" /\ suspendedFor[r] < TooLong
                                             THEN suspendedFor[r] + 1 ELSE suspendedFor[r]]
        /\ tenantCache' = [r \in Realms |-> {Older(e) : e \in {x \in tenantCache[r] : x.left > 1}}]
        /\ visit' = [v \in Visitors |-> IF v \in waiting THEN [visit[v] EXCEPT !.lag = @ + 1] ELSE visit[v]]
        /\ UNCHANGED realmStatus
    BY DEF Tick
  <1>2. \A r \in Realms : /\ suspendedFor[r] \in 0..TooLong /\ suspendedFor'[r] \in 0..TooLong
                          /\ suspendedFor'[r] <= suspendedFor[r] + 1
                          /\ realmStatus[r] # "SUSPENDED" => suspendedFor'[r] = suspendedFor[r]
    BY <1>1, Bounds DEF RInv, RequestsTypeOK, TooLong
  <1>3. ASSUME NEW r \in Realms, NEW e \in tenantCache'[r]
        PROVE  /\ e \in [id : Realms, status : RealmStatus, left : 1..CacheTtl]
               /\ e.status = "ACTIVE" => suspendedFor'[r] + e.left <= CacheTtl + MaxLag
    <2>1. PICK x \in tenantCache[r] : x.left > 1 /\ e = Older(x)
      BY <1>1, <1>3
    <2>2. /\ x \in [id : Realms, status : RealmStatus, left : 1..CacheTtl]
          /\ x.status = "ACTIVE" => suspendedFor[r] + x.left <= CacheTtl + MaxLag
      BY <2>1 DEF RInv, RequestsTypeOK, RequestsInv, CacheAges
    <2>3. e.id = x.id /\ e.status = x.status /\ e.left = x.left - 1
          /\ e \in [id : Realms, status : RealmStatus, left : 1..CacheTtl]
      BY <2>1, <2>2, Bounds
    <2> QED
      BY <1>2, <2>2, <2>3, Bounds DEF TooLong
  <1>4. ASSUME NEW v \in Visitors
        PROVE  /\ visit'[v] \in VisitType
               /\ visit'[v].at = visit[v].at /\ visit'[v].realm = visit[v].realm /\ visit'[v].entry = visit[v].entry
               /\ visit'[v].lag = IF v \in waiting THEN visit[v].lag + 1 ELSE visit[v].lag
    <2>1. visit[v] \in VisitType /\ (v \in waiting => visit[v].lag < MaxLag)
      BY <1>1 DEF RInv, RequestsTypeOK
    <2>2. visit'[v] = IF v \in waiting THEN [visit[v] EXCEPT !.lag = @ + 1] ELSE visit[v]
      BY <1>1
    <2>3. CASE v \in waiting
      <3> DEFINE r == [visit[v] EXCEPT !.lag = @ + 1]
      <3>1. visit[v].lag + 1 \in 0..MaxLag
        <4>1. visit[v].lag \in 0..MaxLag
          BY <2>1 DEF VisitType
        <4> QED
          BY <2>1, <2>3, <4>1, Lags
      <3>2. visit'[v] = r
        BY <2>2, <2>3
      <3>3. /\ r \in VisitType /\ r.lag = visit[v].lag + 1
            /\ r.at = visit[v].at /\ r.realm = visit[v].realm /\ r.entry = visit[v].entry
        BY <2>1, <3>1 DEF VisitType
      <3> HIDE DEF r, waiting
      <3> QED
        BY <2>3, <3>2, <3>3
    <2>4. CASE v \notin waiting
      BY <2>1, <2>2, <2>4
    <2> QED
      BY <2>3, <2>4
  <1>5. RequestsTypeOK'
    BY <1>1, <1>2, <1>3, <1>4 DEF RInv, RequestsTypeOK
  <1>6. SuspensionCounted'
    BY <1>1, <1>2 DEF RInv, RequestsInv, SuspensionCounted
  <1>7. CacheAges'
    BY <1>3 DEF CacheAges
  <1>8. ASSUME NEW v \in Visitors PROVE VisitAges(v)'
    <2>1. VisitAges(v) /\ visit[v].lag \in Nat
      <3>1. VisitAges(v) /\ visit[v] \in VisitType
        BY DEF RInv, RequestsInv, RequestsTypeOK
      <3>2. visit[v].lag \in 0..MaxLag
        BY <3>1 DEF VisitType
      <3> QED
        BY <3>1, <3>2, Lags
    <2>2. v \in waiting <=> visit[v].at \in {"setex", "check"}
      OBVIOUS
    <2> HIDE DEF waiting
    <2> QED
      BY <1>2, <1>4, <2>1, <2>2, Bounds DEF VisitAges, TooLong
  <1> QED
    BY <1>5, <1>6, <1>7, <1>8 DEF RInv, RequestsInv

-----------------------------------------------------------------------------
(* The theorems *)

\* Cached entries and the locals of requests are no older than their ages say,
\* in every reachable state.
THEOREM RequestsInvariant == RequestsSpec => [](RequestsTypeOK /\ RequestsInv)
  <1>1. RInv /\ [RequestsNext]_requestsVars => RInv'
    <2> SUFFICES ASSUME RInv, [RequestsNext]_requestsVars PROVE RInv'
      OBVIOUS
    <2>1. CASE UNCHANGED requestsVars
      BY <2>1 DEF requestsVars, RInv, RequestsTypeOK, RequestsInv, SuspensionCounted, CacheAges, VisitAges
    <2>2. CASE RequestsNext
      BY <2>2, VisitSteps, ChangeStatusInv, TickInv DEF RequestsNext
    <2> QED
      BY <2>1, <2>2
  <1> QED
    BY <1>1, RequestsInitInv, PTL DEF RequestsSpec, RInv

\* No request enters a tenant later than the life of a cache entry, plus twice
\* the longest delay of a request, after its suspension (lookupTenant).
THEOREM AccessEnds == RequestsSpec => SuspendedLosesAccess
  <1>1. RequestsTypeOK /\ RequestsInv /\ [RequestsNext]_requestsVars =>
          [\A v \in Visitors :
             (visit[v].at = "check" /\ visit'[v].at = "handler")
                => suspendedFor[visit[v].realm] < TooLong]_requestsVars
    <2> SUFFICES ASSUME RequestsTypeOK, RequestsInv, RequestsNext,
                        NEW v \in Visitors, visit[v].at = "check", visit'[v].at = "handler"
                 PROVE  suspendedFor[visit[v].realm] < TooLong
      OBVIOUS
    <2>1. /\ visit[v] \in VisitType /\ visit[v].realm \in Realms
          /\ \A e \in visit[v].entry : e.status = "ACTIVE" =>
                suspendedFor[visit[v].realm] < CacheTtl + MaxLag + visit[v].lag
      BY DEF RequestsTypeOK, RequestsInv, VisitAges
    <2>2. visit[v].lag \in 0..MaxLag /\ suspendedFor[visit[v].realm] \in 0..TooLong
      BY <2>1 DEF VisitType, RequestsTypeOK
    <2>3. BindTenant(v)
      <3>1. ~Tick /\ \A r \in Realms : ~ChangeStatus(r)
        <4>1. visit[v] \in VisitType
          BY DEF RequestsTypeOK
        <4>2. [visit[v] EXCEPT !.lag = @ + 1].at = visit[v].at
          BY <4>1 DEF VisitType
        <4>3. ASSUME Tick PROVE visit'[v].at = visit[v].at
          BY <4>2, <4>3 DEF Tick
        <4> QED
          BY <4>3 DEF ChangeStatus
      <3>2. ASSUME NEW w \in Visitors, w # v,
                   \/ \E r \in Realms, k \in VisitKinds : Arrive(w, r, k)
                   \/ Guards(w) \/ ReadCache(w) \/ LookupTenant(w) \/ FillCache(w) \/ BindTenant(w)
                   \/ Handle(w) \/ Audit(w)
            PROVE  FALSE
        BY <3>2 DEF Arrive, Guards, ReadCache, LookupTenant, FillCache, BindTenant, Handle, Audit,
                    StepVisit, EndVisit, RequestsTypeOK
      <3> QED
        BY <3>1, <3>2 DEF RequestsNext, Arrive, Guards, ReadCache, LookupTenant, FillCache, Handle, Audit
    <2>4. \E e \in visit[v].entry : e.status = "ACTIVE"
      <3>1. ~EndVisit(v)
        <4>1. NoVisit.at = "idle"
          BY DEF NoVisit
        <4> QED
          BY <4>1 DEF EndVisit, RequestsTypeOK
      <3> QED
        BY <2>3, <3>1 DEF BindTenant
    <2> QED
      BY <2>1, <2>2, <2>4, Bounds DEF TooLong
  <1> QED
    BY <1>1, RequestsInvariant, PTL DEF RequestsSpec, SuspendedLosesAccess

-----------------------------------------------------------------------------
(* Agent *)

\* AgentInv without the regime it says nothing of.
AgentOK ==
    /\ agentRegime \in {"warm", "alone"} /\ AgentTypes /\ OneWriter
    /\ \A t \in Learners : StoreInv(t)
    /\ \A c \in AgentThreads : CallInv(agentCall[c])

\* A step from locals w to locals x of one call, its place aside.
SameCall(x, w) ==
    /\ x \in AgentCalls /\ x.op = w.op /\ x.no = w.no /\ x.tenant = w.tenant /\ x.proposal = w.proposal

\* A call that is in progress is where its kind can be.
LEMMA CallTypes ==
  ASSUME AgentOK, NEW c \in AgentThreads, NEW w, w = agentCall[c]
  PROVE  /\ CallInv(w) /\ DOMAIN agentCall = AgentThreads
         /\ w # NoAgentCall \/ w.at # "idle" =>
              /\ w # NoAgentCall /\ w \in AgentCalls /\ w.at \in AgentPlaces[w.op] /\ w.at # "idle"
              /\ w.op \in DOMAIN AgentPlaces /\ w.tenant \in Learners
  <1>1. CallInv(w) /\ DOMAIN agentCall = AgentThreads /\ (w = NoAgentCall \/ w \in AgentCalls)
    BY DEF AgentOK, AgentTypes
  <1>2. ASSUME w \in AgentCalls, w # NoAgentCall
        PROVE  w.op \in DOMAIN AgentPlaces /\ w.tenant \in Learners /\ w.at \in AgentPlaces[w.op]
    BY <1>1, <1>2 DEF AgentCalls, CallInv
  <1>3. \A op \in DOMAIN AgentPlaces : "idle" \notin AgentPlaces[op]
    BY DEF AgentPlaces, Loading, Fitting
  <1>4. NoAgentCall.at = "idle"
    BY DEF NoAgentCall
  <1> QED
    BY <1>1, <1>2, <1>3, <1>4

\* The places where a call is.
LEMMA PlacesOf ==
  ASSUME AgentOK, NEW c \in AgentThreads, NEW w, w = agentCall[c]
  PROVE  /\ w.at \in {"find", "rows", "save"} => w.op = "feedback"
         /\ w.at \in {"versions", "log", "replay", "artefact", "saveFit"} => w.op \in {"retrain", "cli"}
         /\ w.at = "record" => w.op \in {"feedback", "retrain", "cli"}
         /\ w.at = "clear" => w.op = "reset"
         /\ w.at = "propose" => w.op = "propose"
         /\ w.at = "lock" => w.op \in {"feedback", "retrain"}
         /\ w.at \in {"coldSave", "coldRecord"} => w.op \in {"propose", "look", "reset", "retrain"}
         /\ w.at = "load" => w.op \in {"propose", "look", "reset", "retrain", "feedback"}
  <1>1. CASE w.at = "idle"
    BY <1>1
  <1>2. CASE w.at # "idle"
    <2>1. w.op \in DOMAIN AgentPlaces /\ w.at \in AgentPlaces[w.op]
      BY <1>2, CallTypes
    <2> QED
      BY <2>1 DEF AgentPlaces, Loading, Fitting
  <1> QED
    BY <1>1, <1>2

\* A call that neither has changed the store nor relies on it.
CallQuiet(w) ==
    \/ w = NoAgentCall
    \/ agentRegime = "warm" /\ w.at \in {"lock", "load", "propose", "return"} /\ (w.op = "feedback" => w.at = "lock")

\* While a call works on the store, the others wait for the lock or only look.
LEMMA OthersQuiet ==
  ASSUME AgentOK, NEW c \in AgentThreads, NEW w, w = agentCall[c], w.at \notin {"idle", "lock"},
         agentRegime = "alone" \/ w.op \in {"feedback", "retrain"},
         NEW d \in AgentThreads \ {c}
  PROVE  CallQuiet(agentCall[d])
  <1>1. PICK v : v = agentCall[d]
    OBVIOUS
  <1>2. CASE v.at = "idle"
    BY <1>1, <1>2, CallTypes DEF CallQuiet
  <1>3. CASE v.at # "idle"
    <2>1. agentRegime = "warm"
      BY <1>1, <1>3 DEF AgentOK, OneWriter, At
    <2>2. v.at \in AgentPlaces[v.op] /\ v.op \in DOMAIN AgentPlaces /\ v # NoAgentCall /\ CallInv(v)
      BY <1>1, <1>3, CallTypes
    <2>3. v.op \notin {"reset", "cli"}
      BY <1>1, <2>1 DEF AgentOK, OneWriter
    <2>4. serviceLock = {c}
      BY <2>1 DEF AgentOK, OneWriter
    <2>5. v.op \in {"feedback", "retrain"} => v.at = "lock"
      BY <1>1, <1>3, <2>4 DEF AgentOK, OneWriter
    <2>6. v.at \notin {"coldSave", "coldRecord"}
      BY <2>1, <2>2 DEF CallInv
    <2> QED
      BY <1>1, <2>1, <2>2, <2>3, <2>5, <2>6 DEF CallQuiet, AgentPlaces, Loading, Fitting
  <1> QED
    BY <1>2, <1>3

\* Nothing that is known of such a call can be disturbed.
LEMMA QuietKeeps ==
  ASSUME NEW w, w = NoAgentCall \/ w.tenant \in Learners, CallQuiet(w), CallInv(w), agentRegime' = agentRegime,
         \A t \in Learners : StoreInv(t)'
  PROVE  CallInv(w)'
  <1>1. CASE w = NoAgentCall
    BY <1>1 DEF CallInv
  <1>2. CASE w # NoAgentCall
    <2>1. agentRegime' = "warm" /\ w.at \in {"lock", "load", "propose", "return"} /\ (w.op = "feedback" => w.at = "lock")
      BY <1>2 DEF CallQuiet
    <2>2. policyState'[w.tenant] # {}
      BY <1>2, <2>1 DEF StoreInv
    <2>3. w.at \in AgentPlaces[w.op] /\ (w.at \in {"lock", "find"} => w.mine = {})
      BY <1>2 DEF CallInv
    <2> QED
      BY <2>1, <2>2, <2>3 DEF CallInv
  <1> QED
    BY <1>1, <1>2

LEMMA QuietOwesNothing ==
  ASSUME NEW w, CallQuiet(w), NEW t
  PROVE  ~Owes(w, t)
  BY DEF CallQuiet, Owes, NoAgentCall

\* What a step of one call has to show.
LEMMA AssembleCalls ==
  ASSUME AgentOK, NEW c \in AgentThreads, NEW x, agentCall' = [agentCall EXCEPT ![c] = x],
         agentRegime' = agentRegime, AgentTypes', OneWriter',
         \A t \in Learners : StoreInv(t)', CallInv(x)',
         \A d \in AgentThreads \ {c} : CallInv(agentCall[d])'
  PROVE  AgentOK'
  <1>1. ASSUME NEW d \in AgentThreads PROVE CallInv(agentCall[d])'
    <2>1. CASE d = c
      <3>1. agentCall'[d] = x
        BY <2>1 DEF AgentOK, AgentTypes
      <3> QED
        BY <3>1 DEF CallInv, Fitted, Recorded, Newer
    <2>2. CASE d # c
      <3>1. PICK v : v = agentCall[d]
        OBVIOUS
      <3>2. agentCall'[d] = v /\ CallInv(v)'
        BY <2>2, <3>1
      <3> QED
        BY <3>2 DEF CallInv, Fitted, Recorded, Newer
    <2> QED
      BY <2>1, <2>2
  <1> QED
    BY <1>1 DEF AgentOK

\* The lock and the regime, for a call that goes on or returns.
LEMMA StillOneWriter ==
  ASSUME AgentOK, NEW c \in AgentThreads, NEW w, w = agentCall[c], w.at \notin {"idle", "lock"},
         NEW x, agentCall' = [agentCall EXCEPT ![c] = x], agentRegime' = agentRegime,
         \/ x.op = w.op /\ serviceLock' = serviceLock
         \/ x = NoAgentCall /\ serviceLock' = serviceLock \ {c}
  PROVE  OneWriter'
  <1>1. agentCall'[c] = x /\ \A d \in AgentThreads \ {c} : agentCall'[d] = agentCall[d]
    BY DEF AgentOK, AgentTypes
  <1>2. NoAgentCall.at = "idle" /\ NoAgentCall.op = "none"
    BY DEF NoAgentCall
  <1>3. ASSUME agentRegime = "alone", NEW d \in AgentThreads \ {c} PROVE agentCall'[d].at = "idle"
    BY <1>1, <1>3 DEF AgentOK, OneWriter, At
  <1>4. ASSUME agentRegime = "warm", NEW d \in AgentThreads PROVE agentCall'[d].op \notin {"reset", "cli"}
    BY <1>1, <1>2, <1>4 DEF AgentOK, OneWriter
  <1>5. ASSUME NEW d \in AgentThreads, agentCall'[d].op \in {"feedback", "retrain"}, agentCall'[d].at \notin {"idle", "lock"}
        PROVE  serviceLock' = {d}
    <2>1. CASE d = c
      BY <1>1, <1>2, <1>5, <2>1 DEF AgentOK, OneWriter
    <2>2. CASE d # c
      <3>1. serviceLock = {d}
        BY <1>1, <1>5, <2>2 DEF AgentOK, OneWriter
      <3> QED
        BY <2>2, <3>1
    <2> QED
      BY <2>1, <2>2
  <1> QED
    BY <1>3, <1>4, <1>5 DEF OneWriter, At

\* The tenants a call does not work for.
LEMMA OtherTenants ==
  ASSUME AgentOK, NEW c \in AgentThreads, NEW w, w = agentCall[c],
         NEW x, agentCall' = [agentCall EXCEPT ![c] = x],
         UNCHANGED <<agentRegime, agentCrashed>>,
         NEW t \in Learners, ~Owes(w, t) \/ Owes(x, t),
         policyState'[t] = policyState[t], policyVersions'[t] = policyVersions[t], feedbackRows'[t] = feedbackRows[t],
         agentProposals'[t] = agentProposals[t], artefacts'[t] = artefacts[t]
  PROVE  StoreInv(t)'
  <1>1. StoreInv(t)
    BY DEF AgentOK
  <1>2. agentCall'[c] = x /\ \A d \in AgentThreads \ {c} : agentCall'[d] = agentCall[d]
    BY DEF AgentOK, AgentTypes
  <1>3. ASSUME NEW d \in AgentThreads, Owes(agentCall[d], t) PROVE \E e \in AgentThreads : Owes(agentCall'[e], t)
    BY <1>2, <1>3
  <1>4. \A s : /\ Newer(s.version + 1, t)' <=> Newer(s.version + 1, t)
               /\ Recorded(t, s)' <=> Recorded(t, s)
    BY DEF Newer, Recorded
  <1>5. Owes(agentCall[c], t)' <=> Owes(agentCall'[c], t)
    OBVIOUS
  <1> QED
    BY <1>1, <1>3, <1>4 DEF StoreInv, Owes

\* A call moves on to a place.
LEMMA Moves ==
  ASSUME AgentOK, NEW c \in AgentThreads, NEW w, w = agentCall[c], w \in AgentCalls,
         NEW at \in UNION {AgentPlaces[op] : op \in DOMAIN AgentPlaces}, Move(c, at)
  PROVE  \E x : /\ agentCall' = [agentCall EXCEPT ![c] = x] /\ SameCall(x, w) /\ x.at = at
                /\ x.mine = w.mine /\ x.log = w.log /\ x.state = w.state /\ x.version = w.version
                /\ x.edits = w.edits
  <1>1. PICK x : x = [w EXCEPT !.at = at]
    OBVIOUS
  <1>2. x \in AgentCalls
    BY <1>1 DEF AgentCalls
  <1>3. /\ x.at = at /\ x.op = w.op /\ x.no = w.no /\ x.tenant = w.tenant /\ x.proposal = w.proposal
        /\ x.mine = w.mine /\ x.log = w.log /\ x.state = w.state /\ x.version = w.version /\ x.edits = w.edits
    BY <1>1 DEF AgentCalls
  <1>4. agentCall' = [agentCall EXCEPT ![c] = x]
    BY <1>1 DEF Move, AgentOK, AgentTypes
  <1> QED
    BY <1>2, <1>3, <1>4 DEF SameCall

LEMMA SomePlaces ==
  {"find", "rows", "load", "save", "return", "record", "lock", "coldSave", "coldRecord", "propose", "clear",
   "versions", "log", "replay", "artefact", "saveFit"} \subseteq UNION {AgentPlaces[op] : op \in DOMAIN AgentPlaces}
  <1>1. UNION {AgentPlaces[op] : op \in DOMAIN AgentPlaces}
          = UNION {AgentPlaces["propose"], AgentPlaces["look"], AgentPlaces["reset"], AgentPlaces["feedback"],
                   AgentPlaces["retrain"], AgentPlaces["cli"]}
    BY DEF AgentPlaces
  <1> QED
    BY <1>1 DEF AgentPlaces, Loading, Fitting

\* The types of the calls after a step of one.
LEMMA CallsTyped ==
  ASSUME AgentOK, NEW c \in AgentThreads, NEW x, agentCall' = [agentCall EXCEPT ![c] = x],
         x = NoAgentCall \/ x \in AgentCalls
  PROVE  DOMAIN agentCall' = AgentThreads /\ \A d \in AgentThreads : agentCall'[d] = NoAgentCall \/ agentCall'[d] \in AgentCalls
  BY DEF AgentOK, AgentTypes

\* A step that leaves the store alone.
LEMMA StoreSame ==
  ASSUME AgentOK, NEW c \in AgentThreads, NEW w, w = agentCall[c],
         NEW x, agentCall' = [agentCall EXCEPT ![c] = x], x = NoAgentCall \/ x \in AgentCalls,
         UNCHANGED <<policyState, policyVersions, feedbackRows, agentProposals, artefacts, agentRegime, agentCrashed>>,
         agentStarted' \in Nat, OneWriter', CallInv(x),
         \A t \in Learners : Owes(w, t) => \/ Owes(x, t)
                                           \/ \A s \in policyState[t] : Recorded(t, s) /\ s.learned = Ids(feedbackRows[t])
  PROVE  AgentOK'
  <1>1. AgentTypes'
    BY CallsTyped DEF AgentOK, AgentTypes
  <1>2. \A v : CallInv(v) => CallInv(v)'
    BY DEF CallInv, Fitted, Recorded, Newer
  <1>3. ASSUME NEW t \in Learners PROVE StoreInv(t)'
    <2>1. CASE ~Owes(w, t) \/ Owes(x, t)
      BY <2>1, OtherTenants
    <2>2. CASE \A s \in policyState[t] : Recorded(t, s) /\ s.learned = Ids(feedbackRows[t])
      <3>1. StoreInv(t)
        BY DEF AgentOK
      <3>2. \A s : Newer(s.version + 1, t)' <=> Newer(s.version + 1, t)
        BY DEF Newer
      <3>3. \A s \in policyState'[t] : Recorded(t, s)' /\ s.learned = Ids(feedbackRows'[t])
        BY <2>2 DEF Recorded
      <3> QED
        BY <3>1, <3>2, <3>3 DEF StoreInv
    <2> QED
      BY <2>1, <2>2
  <1>4. \A d \in AgentThreads \ {c} : CallInv(agentCall[d])'
    <2> TAKE d \in AgentThreads \ {c}
    <2>1. PICK v : v = agentCall[d] /\ agentCall'[d] = v /\ CallInv(v)
      BY DEF AgentOK, AgentTypes
    <2> QED
      BY <1>2, <2>1 DEF CallInv, Fitted, Recorded, Newer
  <1> QED
    BY <1>1, <1>2, <1>3, <1>4, AssembleCalls

LEMMA StartCall ==
  ASSUME AgentOK, NEW c \in AgentThreads, NEW op \in DOMAIN AgentPlaces, NEW t \in Learners, NEW p \in Nat,
         NEW edits \in Seq(BOOLEAN), NEW at \in AgentPlaces[op],
         at \in {"lock", "clear", "versions"} \/ (at = "load" /\ op # "feedback"),
         at \in {"load", "clear", "versions"} => op \notin {"feedback", "retrain"},
         StartAgentCall(c, op, t, p, edits, at)
  PROVE  AgentOK'
  <1>1. PICK x : x = [NoAgentCall EXCEPT !.at = at, !.op = op, !.no = agentStarted', !.tenant = t, !.proposal = p, !.edits = edits]
    OBVIOUS
  <1>2. /\ agentCall' = [agentCall EXCEPT ![c] = x] /\ agentCall[c].at = "idle" /\ agentStarted' = agentStarted + 1
        /\ UNCHANGED <<policyState, policyVersions, feedbackRows, agentProposals, artefacts, agentRegime, agentCrashed, serviceLock>>
        /\ agentRegime = "alone" => \A d \in AgentThreads : agentCall[d].at = "idle"
        /\ op \in {"reset", "cli"} => agentRegime # "warm"
    BY <1>1 DEF StartAgentCall, At, agentStore
  <1>3. agentStarted' \in Nat
    BY <1>2 DEF AgentOK, AgentTypes
  <1>4. x = [at |-> at, op |-> op, no |-> agentStarted', tenant |-> t, proposal |-> p, edits |-> edits,
             mine |-> {}, log |-> {}, state |-> ColdStart, version |-> 0]
    BY <1>1 DEF NoAgentCall
  <1>5. x \in AgentCalls
    BY <1>3, <1>4 DEF AgentCalls, AgentPolicies, ColdStart
  <1>6. CallInv(x)
    BY <1>4 DEF CallInv
  <1>7. OneWriter'
    <2>1. agentCall'[c] = x /\ \A d \in AgentThreads \ {c} : agentCall'[d] = agentCall[d]
      BY <1>2 DEF AgentOK, AgentTypes
    <2>2. x.op = op /\ x.at = at
      BY <1>4
    <2>3. ASSUME NEW d \in AgentThreads, agentCall'[d].op \in {"feedback", "retrain"}, agentCall'[d].at \notin {"idle", "lock"}
          PROVE  serviceLock' = {d}
      <3>1. d # c
        BY <2>1, <2>2, <2>3
      <3> QED
        BY <1>2, <2>1, <2>3, <3>1 DEF AgentOK, OneWriter
    <2>4. agentRegime' = "warm" => \A d \in AgentThreads : agentCall'[d].op \notin {"reset", "cli"}
      BY <1>2, <2>1, <2>2 DEF AgentOK, OneWriter
    <2>5. agentRegime' = "alone" => \A d \in AgentThreads \ {c} : agentCall'[d].at = "idle"
      BY <1>2, <2>1
    <2> QED
      BY <2>3, <2>4, <2>5 DEF OneWriter, At
  <1>8. \A u \in Learners : ~Owes(agentCall[c], u)
    <2>1. agentCall[c] = NoAgentCall
      BY <1>2, CallTypes
    <2> QED
      BY <2>1 DEF Owes, NoAgentCall
  <1> QED
    BY <1>2, <1>3, <1>5, <1>6, <1>7, <1>8, StoreSame

LEMMA TakesLock ==
  ASSUME AgentOK, NEW c \in AgentThreads, TakeLock(c)
  PROVE  AgentOK'
  <1>1. PICK w : w = agentCall[c]
    OBVIOUS
  <1>2. /\ w.at = "lock" /\ serviceLock = {} /\ serviceLock' = {c}
        /\ Move(c, IF w.op = "feedback" THEN "find" ELSE "load")
        /\ UNCHANGED <<policyState, policyVersions, feedbackRows, agentProposals, artefacts, agentRegime, agentCrashed, agentStarted>>
    BY <1>1 DEF TakeLock, At, agentStore, fixed
  <1>3. w # NoAgentCall /\ w \in AgentCalls /\ CallInv(w) /\ w.op \in {"feedback", "retrain"}
    BY <1>1, <1>2, CallTypes, PlacesOf
  <1>4. PICK x : /\ agentCall' = [agentCall EXCEPT ![c] = x] /\ SameCall(x, w)
                 /\ x.at = (IF w.op = "feedback" THEN "find" ELSE "load") /\ x.mine = w.mine
    BY <1>1, <1>2, <1>3, SomePlaces, Moves
  <1>5. x \in AgentCalls /\ x.op = w.op
    BY <1>4 DEF SameCall
  <1>6. CallInv(x)
    <2>1. x.at \in AgentPlaces[x.op]
      BY <1>3, <1>4, <1>5 DEF AgentPlaces, Loading
    <2>2. w.mine = {}
      BY <1>2, <1>3 DEF CallInv
    <2> QED
      BY <1>3, <1>4, <1>5, <2>1, <2>2 DEF CallInv
  <1>7. OneWriter'
    <2>1. agentCall'[c] = x /\ \A d \in AgentThreads \ {c} : agentCall'[d] = agentCall[d]
      BY <1>4 DEF AgentOK, AgentTypes
    <2>2. ASSUME NEW d \in AgentThreads \ {c}
          PROVE  agentCall'[d].op \in {"feedback", "retrain"} => agentCall'[d].at \in {"idle", "lock"}
      BY <1>2, <2>1 DEF AgentOK, OneWriter
    <2>3. agentRegime = "alone" => \A d \in AgentThreads \ {c} : agentCall'[d].at = "idle"
      BY <1>1, <1>2, <2>1 DEF AgentOK, OneWriter, At
    <2>4. agentRegime = "warm" => \A d \in AgentThreads : agentCall'[d].op \notin {"reset", "cli"}
      BY <1>3, <1>5, <2>1 DEF AgentOK, OneWriter
    <2> QED
      BY <1>2, <2>2, <2>3, <2>4 DEF OneWriter, At
  <1>8. \A u \in Learners : ~Owes(w, u)
    BY <1>2 DEF Owes
  <1>9. agentStarted' \in Nat
    BY <1>2 DEF AgentOK, AgentTypes
  <1> QED
    BY <1>1, <1>2, <1>4, <1>5, <1>6, <1>7, <1>8, <1>9, StoreSame

\* What is known while a call works on the store, of its tenant and the others.
LEMMA WorkOn ==
  ASSUME AgentOK, NEW c \in AgentThreads, NEW w, w = agentCall[c], w.at \notin {"idle", "lock"}
  PROVE  /\ w \in AgentCalls /\ w.tenant \in Learners /\ w # NoAgentCall /\ CallInv(w) /\ StoreInv(w.tenant)
         /\ w.at \in AgentPlaces[w.op]
         /\ policyState[w.tenant] \subseteq AgentPolicies /\ feedbackRows[w.tenant] \subseteq FeedbackRecords
         /\ Ids(feedbackRows[w.tenant]) \subseteq AgentIds
         /\ policyVersions[w.tenant] \in Seq(VersionRecords)
  <1>1. w \in AgentCalls /\ w.tenant \in Learners /\ w # NoAgentCall /\ CallInv(w) /\ w.at \in AgentPlaces[w.op]
    BY CallTypes
  <1>2. /\ policyState[w.tenant] \subseteq AgentPolicies /\ feedbackRows[w.tenant] \subseteq FeedbackRecords
        /\ policyVersions[w.tenant] \in Seq(VersionRecords)
    BY <1>1 DEF AgentOK, AgentTypes
  <1>3. Ids(feedbackRows[w.tenant]) \subseteq AgentIds
    BY <1>2 DEF Ids, FeedbackRecords
  <1> QED
    BY <1>1, <1>2, <1>3 DEF AgentOK

\* If no call owes the tenant anything, its newest row is its policy.
LEMMA NothingOwed ==
  ASSUME NEW t \in Learners, StoreInv(t), agentCrashed = 0, \A c \in AgentThreads : ~Owes(agentCall[c], t)
  PROVE  \A s \in policyState[t] : Recorded(t, s) /\ s.learned = Ids(feedbackRows[t])
  BY DEF StoreInv

\* The counters are numbers.
LEMMA CrashCount ==
  ASSUME AgentOK
  PROVE  agentCrashed \in Nat /\ agentStarted \in Nat
  BY DEF AgentOK, AgentTypes

LEMMA LoadsPolicy ==
  ASSUME AgentOK, NEW c \in AgentThreads, LoadPolicy(c)
  PROVE  AgentOK'
  <1>1. PICK w : w = agentCall[c]
    OBVIOUS
  <1>2. /\ w.at = "load" /\ agentStarted' = agentStarted /\ serviceLock' = serviceLock
        /\ UNCHANGED <<policyState, policyVersions, feedbackRows, agentProposals, artefacts, agentRegime, agentCrashed>>
    BY <1>1 DEF LoadPolicy, At, agentStore, fixed
  <1>3. PICK t \in Learners : t = w.tenant
    BY <1>1, <1>2, WorkOn
  <1>4. w \in AgentCalls /\ w # NoAgentCall /\ CallInv(w) /\ StoreInv(t) /\ w.op \in {"propose", "look", "reset", "retrain", "feedback"}
    BY <1>1, <1>2, <1>3, WorkOn, PlacesOf
  <1>5. CASE policyState[t] = {} /\ Move(c, "coldSave")
    <2>1. w.op # "feedback"
      <3>1. w.op = "feedback" => w.proposal \in agentProposals[t]
        BY <1>2, <1>3, <1>4 DEF CallInv
      <3> QED
        BY <1>4, <1>5, <3>1 DEF StoreInv
    <2>2. PICK x : /\ agentCall' = [agentCall EXCEPT ![c] = x] /\ SameCall(x, w) /\ x.at = "coldSave"
      BY <1>1, <1>4, <1>5, SomePlaces, Moves
    <2>3. x \in AgentCalls /\ x.op = w.op /\ x.tenant = t
      BY <1>3, <2>2 DEF SameCall
    <2>4. x.at \in AgentPlaces[x.op]
      BY <1>4, <2>1, <2>2, <2>3 DEF AgentPlaces, Loading
    <2>5. /\ agentRegime = "alone" /\ feedbackRows[t] = {} /\ agentProposals[t] = {} /\ policyVersions[t] = <<>>
      BY <1>4, <1>5 DEF StoreInv, AgentOK
    <2>6. CallInv(x)
      BY <1>5, <2>2, <2>3, <2>4, <2>5 DEF CallInv
    <2>7. \A u \in Learners : ~Owes(w, u)
      BY <1>2, <2>1 DEF Owes
    <2>8. OneWriter'
      BY <1>1, <1>2, <2>2, <2>3, StillOneWriter
    <2> QED
      BY <1>1, <1>2, <2>2, <2>3, <2>6, <2>7, <2>8, CrashCount, StoreSame
  <1>6. ASSUME NEW s \in policyState[t], agentCall' = [agentCall EXCEPT ![c].at = AfterLoad(c), ![c].state = s]
        PROVE  AgentOK'
    <2>1. PICK at : at = AfterLoad(c)
      OBVIOUS
    <2>2. /\ w.op = "propose" => at = "propose"
          /\ w.op = "feedback" => at = "save"
          /\ w.op = "retrain" => at = "versions"
          /\ w.op \in {"look", "reset"} => at = "return"
      BY <1>1, <2>1 DEF AfterLoad
    <2>3. PICK x : x = [w EXCEPT !.at = at, !.state = s]
      OBVIOUS
    <2>4. agentCall' = [agentCall EXCEPT ![c] = x]
      BY <1>1, <1>6, <2>1, <2>3 DEF AgentOK, AgentTypes
    <2>5. s \in AgentPolicies
      BY <1>1, <1>2, <1>3, WorkOn
    <2>6. at \in UNION {AgentPlaces[op] : op \in DOMAIN AgentPlaces}
      BY <1>4, <2>2, SomePlaces
    <2>7. x \in AgentCalls
      BY <1>4, <2>3, <2>5, <2>6 DEF AgentCalls
    <2>8. x.at = at /\ x.state = s /\ x.op = w.op /\ x.tenant = t /\ x.proposal = w.proposal /\ x.mine = w.mine
      BY <1>3, <1>4, <2>3 DEF AgentCalls
    <2>9. x.at \in AgentPlaces[x.op]
      BY <1>4, <2>2, <2>8 DEF AgentPlaces, Loading, Fitting
    <2>10. w.op = "feedback" =>
             /\ w.proposal \in agentProposals[t]
             /\ w.mine \subseteq Ids(feedbackRows[t])
             /\ agentCrashed = 0 => \A u \in policyState[t] : Recorded(t, u) /\ Ids(feedbackRows[t]) = u.learned \cup w.mine
      BY <1>2, <1>3, <1>4 DEF CallInv
    <2>11. CallInv(x)
      BY <1>4, <1>6, <2>2, <2>8, <2>9, <2>10 DEF CallInv
    <2>12. \A u \in Learners : Owes(w, u) => Owes(x, u)
      BY <1>2, <1>3, <2>2, <2>8 DEF Owes
    <2>13. OneWriter'
      BY <1>1, <1>2, <2>4, <2>8, StillOneWriter
    <2> QED
      BY <1>1, <1>2, <2>4, <2>7, <2>11, <2>12, <2>13, CrashCount, StoreSame
  <1> QED
    BY <1>1, <1>3, <1>5, <1>6 DEF LoadPolicy

LEMMA ReturnsPolicy ==
  ASSUME AgentOK, NEW c \in AgentThreads,
         ReturnPolicy(c) \/ (FindProposal(c) /\ agentCall[c].proposal \notin agentProposals[agentCall[c].tenant])
  PROVE  AgentOK'
  <1>1. PICK w : w = agentCall[c]
    OBVIOUS
  <1>2. /\ w.at \in {"return", "find"} /\ agentStarted' = agentStarted /\ serviceLock' = serviceLock \ {c}
        /\ agentCall' = [agentCall EXCEPT ![c] = NoAgentCall]
        /\ UNCHANGED <<policyState, policyVersions, feedbackRows, agentProposals, artefacts, agentRegime, agentCrashed>>
    BY <1>1 DEF ReturnPolicy, FindProposal, Return, Finish, At, agentStore, fixed
  <1>3. \A u \in Learners : ~Owes(w, u)
    BY <1>2 DEF Owes
  <1>4. CallInv(NoAgentCall)
    BY DEF CallInv
  <1>5. OneWriter'
    BY <1>1, <1>2, StillOneWriter
  <1> QED
    BY <1>1, <1>2, <1>3, <1>4, <1>5, CrashCount, StoreSame

LEMMA FindsProposal ==
  ASSUME AgentOK, NEW c \in AgentThreads, FindProposal(c), agentCall[c].proposal \in agentProposals[agentCall[c].tenant]
  PROVE  AgentOK'
  <1>1. PICK w : w = agentCall[c]
    OBVIOUS
  <1>2. /\ w.at = "find" /\ w.op = "feedback" /\ agentStarted' = agentStarted /\ serviceLock' = serviceLock
        /\ Move(c, "rows") /\ w.proposal \in agentProposals[w.tenant]
        /\ UNCHANGED <<policyState, policyVersions, feedbackRows, agentProposals, artefacts, agentRegime, agentCrashed>>
    BY <1>1, PlacesOf DEF FindProposal, At, agentStore, fixed
  <1>3. PICK t \in Learners : t = w.tenant
    BY <1>1, <1>2, WorkOn
  <1>4. w \in AgentCalls /\ w # NoAgentCall /\ CallInv(w) /\ StoreInv(t) /\ w.mine = {}
    BY <1>1, <1>2, <1>3, WorkOn DEF CallInv
  <1>5. PICK x : /\ agentCall' = [agentCall EXCEPT ![c] = x] /\ SameCall(x, w) /\ x.at = "rows" /\ x.mine = {}
    BY <1>1, <1>2, <1>4, SomePlaces, Moves
  <1>6. x \in AgentCalls /\ x.op = "feedback" /\ x.tenant = t /\ x.proposal \in agentProposals[t]
    BY <1>2, <1>3, <1>5 DEF SameCall
  <1>7. \A u \in Learners : ~Owes(w, u)
    BY <1>2 DEF Owes
  <1>8. agentCrashed = 0 => \A s \in policyState[t] : Recorded(t, s) /\ Ids(feedbackRows[t]) = s.learned \cup x.mine
    <2>1. \A d \in AgentThreads \ {c} : ~Owes(agentCall[d], t)
      BY <1>1, <1>2, OthersQuiet, QuietOwesNothing
    <2> QED
      BY <1>1, <1>4, <1>5, <1>7, <2>1, NothingOwed
  <1>9. CallInv(x)
    BY <1>5, <1>6, <1>8 DEF CallInv, AgentPlaces
  <1>10. OneWriter'
    BY <1>1, <1>2, <1>5, <1>6, StillOneWriter
  <1> QED
    BY <1>1, <1>2, <1>5, <1>6, <1>7, <1>9, <1>10, CrashCount, StoreSame

\* The versions only rise, so the last is the greatest.
LEMMA NextIsNewer ==
  ASSUME NEW t \in Learners, StoreInv(t), policyVersions[t] \in Seq(VersionRecords)
  PROVE  NextVersion(t) \in Nat /\ Newer(NextVersion(t), t)
  <1>1. PICK v \in Seq(VersionRecords) : v = policyVersions[t]
    OBVIOUS
  <1>2. PICK all : all = {v[i].version : i \in DOMAIN v} \cup {0}
    OBVIOUS
  <1>3. \A i \in DOMAIN v : v[i].version \in Nat /\ v[i].version \in all
    <2>1. \A i \in DOMAIN v : v[i] \in VersionRecords
      BY <1>1
    <2> QED
      BY <1>2, <2>1 DEF VersionRecords
  <1>4. \A i, j \in DOMAIN v : i < j => v[i].version < v[j].version
    BY <1>1 DEF StoreInv
  <1>5. \E m \in all : \A n \in all : m >= n
    <2>1. CASE v = <<>>
      BY <1>2, <2>1
    <2>2. CASE v # <<>>
      <3>1. Len(v) \in DOMAIN v /\ \A i \in DOMAIN v : i \in Nat /\ i <= Len(v)
        BY <1>1, <2>2
      <3>2. \A i \in DOMAIN v : v[Len(v)].version >= v[i].version
        BY <1>3, <1>4, <3>1
      <3>3. \A n \in all : v[Len(v)].version >= n
        BY <1>2, <1>3, <3>1, <3>2
      <3> QED
        BY <1>3, <3>1, <3>3
    <2> QED
      BY <2>1, <2>2
  <1>6. Max(all) \in all /\ \A n \in all : Max(all) >= n
    BY <1>5 DEF Max
  <1>7. NextVersion(t) = Max(all) + 1
    BY <1>1, <1>2 DEF NextVersion
  <1>8. Max(all) \in Nat
    BY <1>2, <1>3, <1>6
  <1>9. \A i \in DOMAIN v : v[i].version < Max(all) + 1
    BY <1>3, <1>6, <1>8
  <1> QED
    BY <1>1, <1>7, <1>8, <1>9 DEF Newer

\* The reads of a retrain.
LEMMA ReadsVersions ==
  ASSUME AgentOK, NEW c \in AgentThreads, ReadVersions(c) \/ ReadLog(c) \/ Replay(c)
  PROVE  AgentOK'
  <1>1. PICK w : w = agentCall[c]
    OBVIOUS
  <1>2. /\ w.at \in {"versions", "log", "replay"} /\ w.op \in {"retrain", "cli"}
        /\ agentStarted' = agentStarted /\ serviceLock' = serviceLock
        /\ UNCHANGED <<policyState, policyVersions, feedbackRows, agentProposals, artefacts, agentRegime, agentCrashed>>
    BY <1>1, PlacesOf DEF ReadVersions, ReadLog, Replay, At, agentStore, fixed
  <1>3. PICK t \in Learners : t = w.tenant
    BY <1>1, <1>2, WorkOn
  <1>4. /\ w \in AgentCalls /\ w # NoAgentCall /\ CallInv(w) /\ StoreInv(t) /\ policyVersions[t] \in Seq(VersionRecords)
        /\ feedbackRows[t] \subseteq FeedbackRecords /\ Ids(feedbackRows[t]) \subseteq AgentIds
    BY <1>1, <1>2, <1>3, WorkOn
  <1>5. \A u \in Learners : ~Owes(w, u)
    BY <1>2 DEF Owes
  <1>6. {"log", "replay", "artefact"} \subseteq AgentPlaces[w.op]
    BY <1>2 DEF AgentPlaces, Fitting
  <1>7. ASSUME NEW x, agentCall' = [agentCall EXCEPT ![c] = x], x \in AgentCalls, x.op = w.op, CallInv(x) PROVE AgentOK'
    <2>1. OneWriter'
      BY <1>1, <1>2, <1>7, StillOneWriter
    <2> QED
      BY <1>1, <1>2, <1>5, <1>7, <2>1, CrashCount, StoreSame
  <1>8. CASE ReadVersions(c)
    <2>1. PICK version : version = NextVersion(t)
      OBVIOUS
    <2>2. version \in Nat /\ Newer(version, t)
      BY <1>4, <2>1, NextIsNewer
    <2>3. PICK x : x = [w EXCEPT !.at = "log", !.version = version]
      OBVIOUS
    <2>4. agentCall' = [agentCall EXCEPT ![c] = x]
      BY <1>1, <1>3, <1>8, <2>1, <2>3 DEF ReadVersions, AgentOK, AgentTypes
    <2>5. x \in AgentCalls /\ x.at = "log" /\ x.op = w.op /\ x.tenant = t /\ x.version = version
      BY <1>3, <1>4, <2>2, <2>3, SomePlaces DEF AgentCalls
    <2>6. CallInv(x)
      BY <1>2, <1>6, <2>2, <2>5 DEF CallInv
    <2> QED
      BY <1>7, <2>4, <2>5, <2>6
  <1>9. CASE ReadLog(c)
    <2>1. PICK x : x = [w EXCEPT !.at = "replay", !.log = feedbackRows[t]]
      OBVIOUS
    <2>2. agentCall' = [agentCall EXCEPT ![c] = x] /\ w.at = "log"
      BY <1>1, <1>3, <1>9, <2>1 DEF ReadLog, AgentOK, AgentTypes, At
    <2>3. x \in AgentCalls /\ x.at = "replay" /\ x.op = w.op /\ x.tenant = t /\ x.version = w.version /\ x.log = feedbackRows[t]
      BY <1>3, <1>4, <2>1, SomePlaces DEF AgentCalls
    <2>4. Newer(w.version, t)
      BY <1>3, <1>4, <2>2 DEF CallInv
    <2>5. CallInv(x)
      BY <1>2, <1>6, <2>3, <2>4 DEF CallInv
    <2> QED
      BY <1>7, <2>2, <2>3, <2>5
  <1>10. CASE Replay(c)
    <2>1. w.at = "replay" /\ w.log = feedbackRows[t] /\ Newer(w.version, t) /\ w.version \in Nat
      BY <1>1, <1>3, <1>4, <1>10 DEF Replay, At, CallInv, AgentCalls
    <2>2. PICK used : used = {r \in feedbackRows[t] : r.teaches /\ r.proposal \in agentProposals[t]}
      OBVIOUS
    <2>3. used = {r \in feedbackRows[t] : r.teaches}
      BY <1>4, <2>2 DEF StoreInv
    <2>4. PICK s : s = [version |-> w.version, learned |-> {r.id : r \in used}]
      OBVIOUS
    <2>5. s.version = w.version /\ s.learned = Ids(feedbackRows[t]) /\ s \in AgentPolicies
      BY <1>4, <2>1, <2>3, <2>4 DEF Ids, AgentPolicies
    <2>6. PICK x : x = [w EXCEPT !.at = "artefact", !.log = {}, !.state = s]
      OBVIOUS
    <2>7. agentCall' = [agentCall EXCEPT ![c] = x]
      BY <1>1, <1>3, <1>10, <2>1, <2>2, <2>4, <2>6 DEF Replay, AgentOK, AgentTypes
    <2>8. x \in AgentCalls /\ x.at = "artefact" /\ x.op = w.op /\ x.tenant = t /\ x.version = w.version /\ x.state = s
      BY <1>3, <1>4, <2>5, <2>6, SomePlaces DEF AgentCalls
    <2>9. Fitted(x)
      BY <2>5, <2>8 DEF Fitted
    <2>10. CallInv(x)
      BY <1>2, <1>6, <2>1, <2>8, <2>9 DEF CallInv
    <2> QED
      BY <1>7, <2>7, <2>8, <2>10
  <1> QED
    BY <1>8, <1>9, <1>10

LEMMA Writers ==
  ASSUME AgentOK, NEW c \in AgentThreads, NEW w, w = agentCall[c], w.at \notin {"idle", "lock"},
         w.op \in {"feedback", "retrain", "cli", "reset"} \/ w.at \in {"coldSave", "coldRecord"}
  PROVE  agentRegime = "alone" \/ w.op \in {"feedback", "retrain"}
  <1>1. w.at \in {"coldSave", "coldRecord"} => agentRegime = "alone"
    BY WorkOn DEF CallInv
  <1>2. w.op \in {"cli", "reset"} => agentRegime = "alone"
    BY DEF AgentOK, OneWriter
  <1> QED
    BY <1>1, <1>2

\* What a step that writes the store has to show.
LEMMA WriterStep ==
  ASSUME AgentOK, NEW c \in AgentThreads, NEW w, w = agentCall[c], w.at \notin {"idle", "lock"},
         agentRegime = "alone" \/ w.op \in {"feedback", "retrain"},
         NEW x, agentCall' = [agentCall EXCEPT ![c] = x], x = NoAgentCall \/ x \in AgentCalls,
         NEW t \in Learners, t = w.tenant, StoreInv(t)', CallInv(x)',
         UNCHANGED <<agentRegime, agentCrashed, agentStarted>>,
         \/ x.op = w.op /\ serviceLock' = serviceLock
         \/ x = NoAgentCall /\ serviceLock' = serviceLock \ {c},
         policyState' \in [Learners -> SUBSET AgentPolicies],
         policyVersions' \in [Learners -> Seq(VersionRecords)],
         feedbackRows' \in [Learners -> SUBSET FeedbackRecords],
         agentProposals' \in [Learners -> SUBSET Nat],
         artefacts' \in [Learners -> SUBSET AgentPolicies],
         \A u \in Learners \ {t} :
            /\ policyState'[u] = policyState[u] /\ policyVersions'[u] = policyVersions[u]
            /\ feedbackRows'[u] = feedbackRows[u] /\ agentProposals'[u] = agentProposals[u]
            /\ artefacts'[u] = artefacts[u]
  PROVE  AgentOK'
  <1>1. AgentTypes'
    BY CallsTyped DEF AgentOK, AgentTypes
  <1>2. OneWriter'
    <2>1. CASE x.op = w.op /\ serviceLock' = serviceLock
      BY <2>1, StillOneWriter, Zenon
    <2>2. CASE x = NoAgentCall /\ serviceLock' = serviceLock \ {c}
      BY <2>2, StillOneWriter
    <2> QED
      BY <2>1, <2>2
  <1>3. ASSUME NEW u \in Learners PROVE StoreInv(u)'
    <2>1. CASE u = t
      BY <2>1
    <2>2. CASE u # t
      <3>1. ~Owes(w, u)
        BY <2>2 DEF Owes
      <3> QED
        BY <2>2, <3>1, OtherTenants
    <2> QED
      BY <2>1, <2>2
  <1>4. ASSUME NEW d \in AgentThreads \ {c} PROVE CallInv(agentCall[d])'
    <2>1. PICK v : v = agentCall[d]
      OBVIOUS
    <2>2. agentCall'[d] = v /\ CallQuiet(v) /\ CallInv(v) /\ (v = NoAgentCall \/ v.tenant \in Learners)
      BY <2>1, OthersQuiet, CallTypes DEF AgentOK, AgentTypes
    <2>3. CallInv(v)'
      BY <1>3, <2>2, QuietKeeps
    <2> QED
      BY <2>2, <2>3 DEF CallInv, Fitted, Recorded, Newer
  <1> QED
    BY <1>1, <1>2, <1>3, <1>4, AssembleCalls

LEMMA StoreTypes ==
  ASSUME AgentOK
  PROVE  /\ policyState \in [Learners -> SUBSET AgentPolicies]
         /\ policyVersions \in [Learners -> Seq(VersionRecords)]
         /\ feedbackRows \in [Learners -> SUBSET FeedbackRecords]
         /\ agentProposals \in [Learners -> SUBSET Nat]
         /\ artefacts \in [Learners -> SUBSET AgentPolicies]
  BY DEF AgentOK, AgentTypes

LEMMA ColdSaves ==
  ASSUME AgentOK, NEW c \in AgentThreads, ColdSave(c)
  PROVE  AgentOK'
  <1>1. PICK w : w = agentCall[c]
    OBVIOUS
  <1>2. PICK t : t = w.tenant
    OBVIOUS
  <1>3. /\ w.at = "coldSave" /\ policyState' = [policyState EXCEPT ![t] = {ColdStart}] /\ Move(c, "coldRecord")
        /\ UNCHANGED <<policyVersions, feedbackRows, agentProposals, artefacts, serviceLock, agentStarted, agentCrashed, agentRegime>>
    BY <1>1, <1>2 DEF ColdSave, At, fixed
  <1>4. w \in AgentCalls /\ w # NoAgentCall /\ t \in Learners /\ CallInv(w) /\ StoreInv(t) /\ w.op \in {"propose", "look", "reset", "retrain"}
    BY <1>1, <1>2, <1>3, WorkOn, PlacesOf
  <1>5. agentRegime = "alone" /\ feedbackRows[t] = {} /\ agentProposals[t] = {} /\ policyVersions[t] = <<>>
    BY <1>2, <1>3, <1>4 DEF CallInv
  <1>6. PICK x : agentCall' = [agentCall EXCEPT ![c] = x] /\ SameCall(x, w) /\ x.at = "coldRecord"
    BY <1>1, <1>3, <1>4, SomePlaces, Moves
  <1>7. x \in AgentCalls /\ x.op = w.op /\ x.tenant = t
    BY <1>2, <1>6 DEF SameCall
  <1>8. ColdStart \in AgentPolicies /\ ColdStart.version = 1 /\ ColdStart.learned = {}
    BY DEF ColdStart, AgentPolicies
  <1>9. policyState'[t] = {ColdStart} /\ policyState' \in [Learners -> SUBSET AgentPolicies]
    BY <1>3, <1>4, <1>8, StoreTypes
  <1>10. x.at \in AgentPlaces[x.op]
    BY <1>4, <1>6, <1>7 DEF AgentPlaces, Loading
  <1>11. CallInv(x)'
    BY <1>3, <1>5, <1>6, <1>7, <1>9, <1>10 DEF CallInv
  <1>12. \E d \in AgentThreads : Owes(agentCall'[d], t)
    BY <1>6, <1>7 DEF AgentOK, AgentTypes, Owes
  <1>13. Newer(2, t)'
    BY <1>3, <1>5 DEF Newer
  <1>14. StoreInv(t)'
    BY <1>3, <1>5, <1>8, <1>9, <1>12, <1>13 DEF StoreInv, Owes
  <1>15. \A u \in Learners \ {t} : policyState'[u] = policyState[u]
    BY <1>3, StoreTypes
  <1> QED
    BY <1>1, <1>2, <1>3, <1>4, <1>5, <1>6, <1>7, <1>9, <1>11, <1>14, <1>15, StoreTypes, WriterStep

Rising(v) == \A i, j \in DOMAIN v : i < j => v[i].version < v[j].version
Under(v, version) == \A i \in DOMAIN v : v[i].version < version

\* A row of a newer version comes after the others.
LEMMA AppendsRow ==
  ASSUME NEW v \in Seq(VersionRecords), NEW r \in VersionRecords, Rising(v), Under(v, r.version),
         NEW z, z = Append(v, r)
  PROVE  /\ z \in Seq(VersionRecords) /\ z # <<>> /\ Last(z) = r /\ Rising(z)
         /\ \A i \in DOMAIN z : z[i] = r \/ \E j \in DOMAIN v : z[i] = v[j]
  <1>1. /\ z \in Seq(VersionRecords) /\ Len(z) = Len(v) + 1 /\ z[Len(v) + 1] = r
        /\ \A i \in 1..Len(v) : z[i] = v[i]
    BY AppendProperties
  <1>2. DOMAIN z = 1..(Len(v) + 1) /\ DOMAIN v = 1..Len(v) /\ Len(v) \in Nat
    BY <1>1
  <1>3. z # <<>> /\ Last(z) = r
    BY <1>1 DEF Last
  <1>4. ASSUME NEW i \in DOMAIN z, NEW j \in DOMAIN z, i < j PROVE z[i].version < z[j].version
    <2>1. i \in DOMAIN v /\ z[i] = v[i]
      BY <1>1, <1>2, <1>4
    <2>2. CASE j = Len(v) + 1
      BY <1>1, <2>1, <2>2 DEF Under
    <2>3. CASE j # Len(v) + 1
      <3>1. j \in DOMAIN v /\ z[j] = v[j]
        BY <1>1, <1>2, <2>3
      <3> QED
        BY <1>4, <2>1, <3>1 DEF Rising
    <2> QED
      BY <2>2, <2>3
  <1>5. ASSUME NEW i \in DOMAIN z PROVE z[i] = r \/ \E j \in DOMAIN v : z[i] = v[j]
    BY <1>1, <1>2
  <1> QED
    BY <1>1, <1>3, <1>4, <1>5 DEF Rising

\* A record call, of a cold start as well: the policy gets its row.
LEMMA RowWritten ==
  ASSUME AgentOK, NEW t \in Learners, NEW s \in AgentPolicies, policyState[t] = {s}, Newer(s.version, t),
         NEW artefact \in BOOLEAN, artefact => s \in artefacts[t],
         agentCrashed = 0 => s.learned = Ids(feedbackRows[t]),
         policyVersions' = [policyVersions EXCEPT ![t] = Append(@, Row(s.version, s.learned, artefact))],
         UNCHANGED <<policyState, feedbackRows, agentProposals, artefacts, agentRegime, agentCrashed>>
  PROVE  policyVersions' \in [Learners -> Seq(VersionRecords)] /\ StoreInv(t)'
  <1>1. PICK v \in Seq(VersionRecords) : v = policyVersions[t]
    BY StoreTypes
  <1>2. PICK r : r = Row(s.version, s.learned, artefact)
    OBVIOUS
  <1>3. r \in VersionRecords /\ r.version = s.version /\ r.learned = s.learned /\ r.artefact = artefact /\ s.version \in Nat
    BY <1>2 DEF Row, VersionRecords, AgentPolicies
  <1>4. PICK z : z = Append(v, r)
    OBVIOUS
  <1>5. StoreInv(t)
    BY DEF AgentOK
  <1>6. Rising(v) /\ Under(v, r.version)
    BY <1>1, <1>3, <1>5 DEF StoreInv, Newer, Rising, Under
  <1>7. /\ z \in Seq(VersionRecords) /\ z # <<>> /\ Last(z) = r /\ Rising(z)
        /\ \A i \in DOMAIN z : z[i] = r \/ \E j \in DOMAIN v : z[i] = v[j]
    <2>1. z \in Seq(VersionRecords)
      BY <1>1, <1>3, <1>4, <1>6, AppendsRow
    <2>2. z # <<>>
      BY <1>1, <1>3, <1>4, <1>6, AppendsRow
    <2>3. Last(z) = r
      BY <1>1, <1>3, <1>4, <1>6, AppendsRow
    <2>4. Rising(z)
      BY <1>1, <1>3, <1>4, <1>6, AppendsRow
    <2>5. \A i \in DOMAIN z : z[i] = r \/ \E j \in DOMAIN v : z[i] = v[j]
      BY <1>1, <1>3, <1>4, <1>6, AppendsRow
    <2> QED
      BY <2>1, <2>2, <2>3, <2>4, <2>5
  <1>8. policyVersions' = [policyVersions EXCEPT ![t] = z]
    BY <1>1, <1>2, <1>4
  <1>9. policyVersions' \in [Learners -> Seq(VersionRecords)] /\ policyVersions'[t] = z
    BY <1>7, <1>8, StoreTypes
  <1>10. [version |-> s.version, learned |-> s.learned] = s
    BY DEF AgentPolicies
  <1>11. \A i \in DOMAIN z : z[i].artefact => [version |-> z[i].version, learned |-> z[i].learned] \in artefacts[t]
    BY <1>1, <1>3, <1>5, <1>7, <1>10 DEF StoreInv
  <1>12. \A i \in DOMAIN z : z[i].version < s.version + 1
    <2>1. \A j \in DOMAIN v : v[j] \in VersionRecords
      OBVIOUS
    <2>2. \A j \in DOMAIN v : v[j].version \in Nat
      BY <2>1 DEF VersionRecords
    <2> QED
      BY <1>3, <1>6, <1>7, <2>2 DEF Under
  <1>13. s.learned \subseteq Ids(feedbackRows[t])
    BY <1>5 DEF StoreInv
  <1>14. \A r2 \in feedbackRows[t] : r2.proposal \in agentProposals[t]
    BY <1>5 DEF StoreInv
  <1>15. Recorded(t, s)'
    BY <1>3, <1>7, <1>9 DEF Recorded
  <1>16. Newer(s.version + 1, t)'
    BY <1>9, <1>12 DEF Newer
  <1>17. agentCrashed \in Nat
    BY CrashCount
  <1>18. policyState'[t] = {s} /\ feedbackRows'[t] = feedbackRows[t] /\ agentProposals'[t] = agentProposals[t] /\ artefacts'[t] = artefacts[t]
    OBVIOUS
  <1>19. /\ Newer(s.version + 1, t)' /\ s.learned \subseteq Ids(feedbackRows'[t])
         /\ agentCrashed' > 0 \/ (Recorded(t, s)' /\ s.learned = Ids(feedbackRows'[t]))
    BY <1>13, <1>15, <1>16, <1>17, <1>18
  <1>20. StoreInv(t)'
    BY <1>7, <1>9, <1>11, <1>14, <1>18, <1>19 DEF StoreInv, Rising
  <1> QED
    BY <1>9, <1>20

LEMMA ColdRecords ==
  ASSUME AgentOK, NEW c \in AgentThreads, ColdRecord(c)
  PROVE  AgentOK'
  <1>1. PICK w : w = agentCall[c]
    OBVIOUS
  <1>2. PICK t : t = w.tenant
    OBVIOUS
  <1>3. /\ w.at = "coldRecord"
        /\ policyVersions' = [policyVersions EXCEPT ![t] = Append(@, Row(1, {}, FALSE))]
        /\ agentCall' = [agentCall EXCEPT ![c].at = AfterLoad(c), ![c].state = ColdStart]
        /\ UNCHANGED <<policyState, feedbackRows, agentProposals, artefacts, serviceLock, agentStarted, agentCrashed, agentRegime>>
    BY <1>1, <1>2 DEF ColdRecord, At, fixed
  <1>4. w \in AgentCalls /\ w # NoAgentCall /\ t \in Learners /\ CallInv(w) /\ w.op \in {"propose", "look", "reset", "retrain"}
    BY <1>1, <1>2, <1>3, WorkOn, PlacesOf
  <1>5. /\ agentRegime = "alone" /\ feedbackRows[t] = {} /\ agentProposals[t] = {} /\ policyVersions[t] = <<>>
        /\ policyState[t] = {ColdStart}
    BY <1>2, <1>3, <1>4 DEF CallInv
  <1>6. ColdStart \in AgentPolicies /\ ColdStart.version = 1 /\ ColdStart.learned = {}
    BY DEF ColdStart, AgentPolicies
  <1>7. Newer(1, t) /\ Ids(feedbackRows[t]) = {}
    BY <1>5 DEF Newer, Ids
  <1>8. policyVersions' \in [Learners -> Seq(VersionRecords)] /\ StoreInv(t)'
    BY <1>3, <1>4, <1>5, <1>6, <1>7, RowWritten
  <1>9. PICK at : at = AfterLoad(c)
    OBVIOUS
  <1>10. /\ w.op = "propose" => at = "propose"
         /\ w.op = "retrain" => at = "versions"
         /\ w.op \in {"look", "reset"} => at = "return"
    BY <1>1, <1>9 DEF AfterLoad
  <1>11. PICK x : x = [w EXCEPT !.at = at, !.state = ColdStart]
    OBVIOUS
  <1>12. agentCall' = [agentCall EXCEPT ![c] = x]
    BY <1>1, <1>3, <1>9, <1>11 DEF AgentOK, AgentTypes
  <1>13. at \in UNION {AgentPlaces[op] : op \in DOMAIN AgentPlaces}
    BY <1>4, <1>10, SomePlaces
  <1>14. x \in AgentCalls
    BY <1>4, <1>6, <1>11, <1>13 DEF AgentCalls
  <1>15. x.at = at /\ x.op = w.op /\ x.tenant = t
    BY <1>2, <1>4, <1>11 DEF AgentCalls
  <1>16. x.at \in AgentPlaces[x.op]
    BY <1>4, <1>10, <1>15 DEF AgentPlaces, Loading, Fitting
  <1>17. policyState'[t] # {}
    BY <1>3, <1>5
  <1>18. CallInv(x)'
    BY <1>4, <1>10, <1>15, <1>16, <1>17 DEF CallInv
  <1>19. \A u \in Learners \ {t} : policyVersions'[u] = policyVersions[u]
    BY <1>3, StoreTypes
  <1> QED
    BY <1>1, <1>2, <1>3, <1>4, <1>5, <1>8, <1>12, <1>14, <1>15, <1>18, <1>19, StoreTypes, WriterStep

LEMMA RecordsVersion ==
  ASSUME AgentOK, NEW c \in AgentThreads, RecordPolicyVersion(c)
  PROVE  AgentOK'
  <1>1. PICK w : w = agentCall[c]
    OBVIOUS
  <1>2. PICK t : t = w.tenant
    OBVIOUS
  <1>3. PICK s : s = w.state
    OBVIOUS
  <1>4. PICK artefact : artefact = (w.op # "feedback")
    OBVIOUS
  <1>5. /\ w.at = "record"
        /\ policyVersions' = [policyVersions EXCEPT ![t] = Append(@, Row(s.version, s.learned, artefact))]
        /\ agentCall' = [agentCall EXCEPT ![c] = NoAgentCall] /\ serviceLock' = serviceLock \ {c}
        /\ UNCHANGED <<policyState, feedbackRows, agentProposals, artefacts, agentStarted, agentCrashed, agentRegime>>
    BY <1>1, <1>2, <1>3, <1>4 DEF RecordPolicyVersion, Return, Finish, At, fixed
  <1>6. w \in AgentCalls /\ w # NoAgentCall /\ t \in Learners /\ CallInv(w) /\ w.op \in {"feedback", "retrain", "cli"}
    BY <1>1, <1>2, <1>5, WorkOn, PlacesOf
  <1>7. /\ policyState[t] = {s} /\ Newer(s.version, t) /\ (agentCrashed = 0 => s.learned = Ids(feedbackRows[t]))
        /\ w.op # "feedback" => s \in artefacts[t]
    BY <1>2, <1>3, <1>5, <1>6 DEF CallInv
  <1>8. s \in AgentPolicies /\ artefact \in BOOLEAN
    BY <1>3, <1>4, <1>6 DEF AgentCalls
  <1>9. policyVersions' \in [Learners -> Seq(VersionRecords)] /\ StoreInv(t)'
    BY <1>4, <1>5, <1>6, <1>7, <1>8, RowWritten
  <1>10. CallInv(NoAgentCall)'
    BY DEF CallInv
  <1>11. agentRegime = "alone" \/ w.op \in {"feedback", "retrain"}
    BY <1>1, <1>5, <1>6, Writers
  <1>12. \A u \in Learners \ {t} : policyVersions'[u] = policyVersions[u]
    BY <1>5, StoreTypes
  <1> QED
    BY <1>1, <1>2, <1>5, <1>6, <1>9, <1>10, <1>11, <1>12, StoreTypes, WriterStep

LEMMA SavesArtefact ==
  ASSUME AgentOK, NEW c \in AgentThreads, SaveArtefact(c)
  PROVE  AgentOK'
  <1>1. PICK w : w = agentCall[c]
    OBVIOUS
  <1>2. PICK t : t = w.tenant
    OBVIOUS
  <1>3. PICK s : s = w.state
    OBVIOUS
  <1>4. /\ w.at = "artefact" /\ Move(c, "saveFit")
        /\ artefacts' = [artefacts EXCEPT ![t] = {a \in @ : a.version # s.version} \cup {s}]
        /\ UNCHANGED <<policyState, policyVersions, feedbackRows, agentProposals, serviceLock, agentStarted, agentCrashed, agentRegime>>
    BY <1>1, <1>2, <1>3 DEF SaveArtefact, At, fixed
  <1>5. w \in AgentCalls /\ w # NoAgentCall /\ t \in Learners /\ CallInv(w) /\ StoreInv(t) /\ w.op \in {"retrain", "cli"}
    BY <1>1, <1>2, <1>4, WorkOn, PlacesOf
  <1>6. s \in AgentPolicies /\ Newer(w.version, t) /\ Fitted(w) /\ s.version = w.version
    BY <1>2, <1>3, <1>4, <1>5 DEF CallInv, AgentCalls, Fitted
  <1>7. PICK x : /\ agentCall' = [agentCall EXCEPT ![c] = x] /\ SameCall(x, w) /\ x.at = "saveFit"
                 /\ x.state = s /\ x.version = w.version
    BY <1>1, <1>3, <1>4, <1>5, SomePlaces, Moves
  <1>8. x \in AgentCalls /\ x.op = w.op /\ x.tenant = t
    BY <1>2, <1>7 DEF SameCall
  <1>9. /\ artefacts'[t] = {a \in artefacts[t] : a.version # s.version} \cup {s}
        /\ artefacts' \in [Learners -> SUBSET AgentPolicies]
        /\ \A u \in Learners \ {t} : artefacts'[u] = artefacts[u]
    BY <1>4, <1>5, <1>6, StoreTypes
  <1>10. /\ x.at \in AgentPlaces[x.op]
    BY <1>5, <1>7, <1>8 DEF AgentPlaces, Fitting
  <1>11. Newer(w.version, t)' /\ Fitted(x)'
    BY <1>2, <1>3, <1>4, <1>6, <1>7, <1>8 DEF Newer, Fitted
  <1>12. CallInv(x)'
    BY <1>5, <1>7, <1>8, <1>9, <1>10, <1>11 DEF CallInv
  <1>13. \A i \in DOMAIN policyVersions[t] : policyVersions[t][i].artefact =>
           [version |-> policyVersions[t][i].version, learned |-> policyVersions[t][i].learned] \in artefacts'[t]
    <2> TAKE i \in DOMAIN policyVersions[t]
    <2> HAVE policyVersions[t][i].artefact
    <2>1. PICK a : a = [version |-> policyVersions[t][i].version, learned |-> policyVersions[t][i].learned]
      OBVIOUS
    <2>2. a \in artefacts[t] /\ a.version = policyVersions[t][i].version
      BY <1>5, <2>1 DEF StoreInv
    <2>3. a.version < s.version
      BY <1>6, <2>2 DEF Newer
    <2>4. a.version # s.version
      BY <1>6, <2>2, <2>3, StoreTypes, <1>5 DEF AgentPolicies
    <2> QED
      BY <1>9, <2>1, <2>2, <2>4
  <1>14. StoreInv(t)'
    <2>1. ~Owes(w, t)
      BY <1>4, <1>5 DEF Owes
    <2>2. \A u \in policyState[t] :
             agentCrashed > 0 \/ (\E d \in AgentThreads : Owes(agentCall[d], t)) \/ (Recorded(t, u) /\ u.learned = Ids(feedbackRows[t]))
      BY <1>5 DEF StoreInv
    <2>3. \A d \in AgentThreads : Owes(agentCall[d], t) => Owes(agentCall'[d], t)
      BY <1>1, <1>7, <2>1
    <2>4. \A u : (Newer(u.version + 1, t)' <=> Newer(u.version + 1, t)) /\ (Recorded(t, u)' <=> Recorded(t, u))
      BY <1>4 DEF Newer, Recorded
    <2> QED
      BY <1>4, <1>5, <1>13, <2>2, <2>3, <2>4 DEF StoreInv
  <1>15. agentRegime = "alone" \/ w.op \in {"feedback", "retrain"}
    BY <1>1, <1>4, <1>5, Writers
  <1> QED
    BY <1>1, <1>2, <1>4, <1>5, <1>7, <1>8, <1>9, <1>12, <1>14, <1>15, StoreTypes, WriterStep

\* A policy that is saved before its row is recorded.
LEMMA PolicySaved ==
  ASSUME AgentOK, NEW c \in AgentThreads, NEW w, w = agentCall[c], w.at \notin {"idle", "lock"},
         agentRegime = "alone" \/ w.op \in {"feedback", "retrain"}, w.op \in {"feedback", "retrain", "cli"},
         NEW t \in Learners, t = w.tenant, NEW s \in AgentPolicies, Newer(s.version, t),
         s.learned \subseteq Ids(feedbackRows[t]), agentCrashed = 0 => s.learned = Ids(feedbackRows[t]),
         w.op # "feedback" => s \in artefacts[t],
         policyState' = [policyState EXCEPT ![t] = {s}],
         NEW x, agentCall' = [agentCall EXCEPT ![c] = x], x \in AgentCalls,
         x.at = "record", x.op = w.op, x.tenant = t, x.state = s,
         UNCHANGED <<policyVersions, feedbackRows, agentProposals, artefacts, serviceLock, agentStarted, agentCrashed, agentRegime>>
  PROVE  AgentOK'
  <1>1. /\ policyState'[t] = {s} /\ policyState' \in [Learners -> SUBSET AgentPolicies]
        /\ \A u \in Learners \ {t} : policyState'[u] = policyState[u]
    BY StoreTypes
  <1>2. x.at \in AgentPlaces[x.op]
    BY DEF AgentPlaces, Fitting
  <1>3. Newer(s.version, t)'
    BY DEF Newer
  <1>4. CallInv(x)'
    BY <1>1, <1>2, <1>3 DEF CallInv
  <1>5. \E d \in AgentThreads : Owes(agentCall'[d], t)
    BY DEF AgentOK, AgentTypes, Owes
  <1>6. policyVersions[t] \in Seq(VersionRecords) /\ s.version \in Nat
    BY StoreTypes DEF AgentPolicies
  <1>7. Newer(s.version + 1, t)'
    <2>1. \A i \in DOMAIN policyVersions[t] : policyVersions[t][i] \in VersionRecords
      BY <1>6
    <2>2. \A i \in DOMAIN policyVersions[t] : policyVersions[t][i].version \in Nat
      BY <2>1 DEF VersionRecords
    <2> QED
      BY <1>6, <2>2 DEF Newer
  <1>8. StoreInv(t)
    BY DEF AgentOK
  <1>9. StoreInv(t)'
    BY <1>1, <1>5, <1>7, <1>8 DEF StoreInv, Owes
  <1> QED
    BY <1>1, <1>4, <1>9, StoreTypes, WriterStep

LEMMA SavesFit ==
  ASSUME AgentOK, NEW c \in AgentThreads, SaveFit(c)
  PROVE  AgentOK'
  <1>1. PICK w : w = agentCall[c]
    OBVIOUS
  <1>2. PICK t : t = w.tenant
    OBVIOUS
  <1>3. PICK s : s = w.state
    OBVIOUS
  <1>4. /\ w.at = "saveFit" /\ Move(c, "record") /\ policyState' = [policyState EXCEPT ![t] = {s}]
        /\ UNCHANGED <<policyVersions, feedbackRows, agentProposals, artefacts, serviceLock, agentStarted, agentCrashed, agentRegime>>
    BY <1>1, <1>2, <1>3 DEF SaveFit, At, fixed
  <1>5. w \in AgentCalls /\ w # NoAgentCall /\ t \in Learners /\ CallInv(w) /\ w.op \in {"retrain", "cli"}
    BY <1>1, <1>2, <1>4, WorkOn, PlacesOf
  <1>6. s \in AgentPolicies /\ Newer(s.version, t) /\ s \in artefacts[t]
    BY <1>2, <1>3, <1>4, <1>5 DEF CallInv, AgentCalls, Fitted
  <1>7. s.learned \subseteq Ids(feedbackRows[t]) /\ (agentCrashed = 0 => s.learned = Ids(feedbackRows[t]))
    BY <1>2, <1>3, <1>4, <1>5 DEF CallInv, Fitted
  <1>8. PICK x : agentCall' = [agentCall EXCEPT ![c] = x] /\ SameCall(x, w) /\ x.at = "record" /\ x.state = s
    BY <1>1, <1>3, <1>4, <1>5, SomePlaces, Moves
  <1>9. x \in AgentCalls /\ x.op = w.op /\ x.tenant = t
    BY <1>2, <1>8 DEF SameCall
  <1>10. agentRegime = "alone" \/ w.op \in {"feedback", "retrain"}
    BY <1>1, <1>4, <1>5, Writers
  <1> QED
    BY <1>1, <1>2, <1>4, <1>5, <1>6, <1>7, <1>8, <1>9, <1>10, PolicySaved, ZenonT(40)

LEMMA SavesNudge ==
  ASSUME AgentOK, NEW c \in AgentThreads, SaveNudge(c)
  PROVE  AgentOK'
  <1>1. PICK w : w = agentCall[c]
    OBVIOUS
  <1>2. PICK t : t = w.tenant
    OBVIOUS
  <1>3. PICK old : old = w.state
    OBVIOUS
  <1>4. PICK s : s = Nudged(c, old)
    OBVIOUS
  <1>5. PICK at : at = IF w.mine = {} THEN "return" ELSE "record"
    OBVIOUS
  <1>6. /\ w.at = "save" /\ policyState' = [policyState EXCEPT ![t] = {s}]
        /\ agentCall' = [agentCall EXCEPT ![c].at = at, ![c].state = s]
        /\ UNCHANGED <<policyVersions, feedbackRows, agentProposals, artefacts, serviceLock, agentStarted, agentCrashed, agentRegime>>
    BY <1>1, <1>2, <1>3, <1>4, <1>5 DEF SaveNudge, At, fixed
  <1>7. /\ w \in AgentCalls /\ w # NoAgentCall /\ t \in Learners /\ CallInv(w) /\ StoreInv(t) /\ w.op = "feedback"
        /\ Ids(feedbackRows[t]) \subseteq AgentIds
    BY <1>1, <1>2, <1>6, WorkOn, PlacesOf
  <1>8. /\ old \in policyState[t] /\ old \in AgentPolicies /\ w.mine \subseteq Ids(feedbackRows[t])
        /\ agentCrashed = 0 => Recorded(t, old) /\ Ids(feedbackRows[t]) = old.learned \cup w.mine
    BY <1>2, <1>3, <1>6, <1>7 DEF CallInv, AgentCalls
  <1>9. policyState[t] = {old} /\ Newer(old.version + 1, t) /\ old.learned \subseteq Ids(feedbackRows[t])
    BY <1>7, <1>8 DEF StoreInv
  <1>10. s = IF w.mine = {} THEN old ELSE [version |-> old.version + 1, learned |-> old.learned \cup w.mine]
    BY <1>1, <1>4 DEF Nudged
  <1>11. s \in AgentPolicies
    <2>1. old.version + 1 \in Nat /\ old.learned \cup w.mine \subseteq AgentIds
      BY <1>7, <1>8, <1>9 DEF AgentPolicies
    <2> QED
      BY <1>8, <1>10, <2>1 DEF AgentPolicies
  <1>12. PICK x : x = [w EXCEPT !.at = at, !.state = s]
    OBVIOUS
  <1>13. agentCall' = [agentCall EXCEPT ![c] = x]
    BY <1>1, <1>6, <1>12 DEF AgentOK, AgentTypes
  <1>14. x \in AgentCalls /\ x.at = at /\ x.state = s /\ x.op = w.op /\ x.tenant = t
    <2>1. at \in UNION {AgentPlaces[op] : op \in DOMAIN AgentPlaces}
      BY <1>5, SomePlaces
    <2> QED
      BY <1>2, <1>7, <1>11, <1>12, <2>1 DEF AgentCalls
  <1>15. CASE w.mine # {}
    <2>1. /\ s.version = old.version + 1 /\ s.learned = old.learned \cup w.mine /\ at = "record"
      BY <1>5, <1>10, <1>15
    <2>2. Newer(s.version, t) /\ s.learned \subseteq Ids(feedbackRows[t]) /\ (agentCrashed = 0 => s.learned = Ids(feedbackRows[t]))
      BY <1>8, <1>9, <2>1
    <2>3. w.at \notin {"idle", "lock"} /\ (agentRegime = "alone" \/ w.op \in {"feedback", "retrain"}) /\ w.op \in {"feedback", "retrain", "cli"}
      BY <1>6, <1>7
    <2>4. (w.op # "feedback" => s \in artefacts[t]) /\ x.at = "record" /\ x.op = w.op /\ x.tenant = t /\ x.state = s
      BY <1>7, <1>14, <2>1
    <2>5. /\ policyState' = [policyState EXCEPT ![t] = {s}] /\ x \in AgentCalls
          /\ UNCHANGED <<policyVersions, feedbackRows, agentProposals, artefacts, serviceLock, agentStarted, agentCrashed, agentRegime>>
      BY <1>6, <1>14
    <2>6. t \in Learners
      BY <1>7
    <2> QED
      BY <1>1, <1>2, <1>11, <1>13, <2>2, <2>3, <2>4, <2>5, <2>6, PolicySaved, ZenonT(30)
  <1>16. CASE w.mine = {}
    <2>1. s = old /\ at = "return"
      BY <1>5, <1>10, <1>16
    <2>2. /\ policyState'[t] = {old} /\ policyState' \in [Learners -> SUBSET AgentPolicies]
          /\ \A u \in Learners \ {t} : policyState'[u] = policyState[u]
      BY <1>6, <1>7, <1>8, <2>1, StoreTypes
    <2>3. CallInv(x)'
      BY <1>7, <1>14, <2>1 DEF CallInv, AgentPlaces
    <2>4. Newer(old.version + 1, t)' /\ (agentCrashed = 0 => Recorded(t, old)' /\ old.learned = Ids(feedbackRows[t]))
      BY <1>6, <1>8, <1>9, <1>16 DEF Newer, Recorded
    <2>5. agentCrashed \in Nat
      BY CrashCount
    <2>6. StoreInv(t)'
      BY <1>6, <1>7, <1>9, <2>2, <2>4, <2>5 DEF StoreInv
    <2> QED
      BY <1>1, <1>2, <1>6, <1>7, <1>13, <1>14, <2>2, <2>3, <2>6, StoreTypes, WriterStep
  <1> QED
    BY <1>15, <1>16

LEMMA AddsFeedback ==
  ASSUME AgentOK, NEW c \in AgentThreads, AddFeedback(c)
  PROVE  AgentOK'
  <1>1. PICK w : w = agentCall[c]
    OBVIOUS
  <1>2. PICK t : t = w.tenant
    OBVIOUS
  <1>3. PICK row : row = [id |-> <<w.no, Len(w.edits)>>, proposal |-> w.proposal, teaches |-> Head(w.edits)]
    OBVIOUS
  <1>4. PICK mine : mine = IF row.teaches THEN w.mine \cup {row.id} ELSE w.mine
    OBVIOUS
  <1>5. PICK at : at = IF Len(w.edits) = 1 THEN "load" ELSE "rows"
    OBVIOUS
  <1>6. /\ w.at = "rows" /\ w.edits # <<>> /\ feedbackRows' = [feedbackRows EXCEPT ![t] = @ \cup {row}]
        /\ UNCHANGED <<policyState, policyVersions, agentProposals, artefacts, serviceLock, agentStarted, agentCrashed, agentRegime>>
    BY <1>1, <1>2, <1>3 DEF AddFeedback, At, fixed
  <1>7. w \in AgentCalls /\ w # NoAgentCall /\ t \in Learners /\ CallInv(w) /\ StoreInv(t) /\ w.op = "feedback"
    BY <1>1, <1>2, <1>6, WorkOn, PlacesOf
  <1>8. PICK x : x = [w EXCEPT !.edits = Tail(w.edits), !.mine = mine, !.at = at]
    OBVIOUS
  <1>9. agentCall' = [agentCall EXCEPT ![c] = x]
    BY <1>1, <1>3, <1>4, <1>5, <1>6, <1>8 DEF AddFeedback, AgentOK, AgentTypes
  <1>10. w.edits \in Seq(BOOLEAN) /\ w.no \in Nat /\ w.proposal \in Nat /\ w.mine \subseteq AgentIds
    BY <1>7 DEF AgentCalls
  <1>11. Tail(w.edits) \in Seq(BOOLEAN) /\ Head(w.edits) \in BOOLEAN /\ Len(w.edits) \in Nat
    <2>1. PICK S : S = BOOLEAN
      OBVIOUS
    <2>2. w.edits \in Seq(S)
      BY <1>10, <2>1
    <2>3. Tail(w.edits) \in Seq(S) /\ Head(w.edits) \in S
      BY <1>6, <2>2, HeadTailProperties
    <2>4. Len(w.edits) \in Nat
      BY <2>2
    <2> QED
      BY <2>1, <2>3, <2>4, Zenon
  <1>12. row \in FeedbackRecords /\ row.proposal = w.proposal /\ row.id \in AgentIds
    BY <1>3, <1>10, <1>11 DEF FeedbackRecords, AgentIds
  <1>13. mine \subseteq AgentIds
    BY <1>4, <1>10, <1>12
  <1>14. x \in AgentCalls
    BY <1>5, <1>7, <1>8, <1>11, <1>13, SomePlaces DEF AgentCalls
  <1>15. x.at = at /\ x.mine = mine /\ x.op = "feedback" /\ x.tenant = t /\ x.proposal = w.proposal
    BY <1>2, <1>7, <1>8 DEF AgentCalls
  <1>16. /\ w.proposal \in agentProposals[t] /\ w.mine \subseteq Ids(feedbackRows[t])
         /\ agentCrashed = 0 => \A s \in policyState[t] : Recorded(t, s) /\ Ids(feedbackRows[t]) = s.learned \cup w.mine
    BY <1>2, <1>6, <1>7 DEF CallInv
  <1>17. /\ feedbackRows'[t] = feedbackRows[t] \cup {row} /\ feedbackRows' \in [Learners -> SUBSET FeedbackRecords]
         /\ \A u \in Learners \ {t} : feedbackRows'[u] = feedbackRows[u]
    BY <1>6, <1>7, <1>12, StoreTypes
  <1>18. Ids(feedbackRows'[t]) = Ids(feedbackRows[t]) \cup IF row.teaches THEN {row.id} ELSE {}
    BY <1>17 DEF Ids
  <1>19. /\ mine \subseteq Ids(feedbackRows'[t]) /\ Ids(feedbackRows[t]) \subseteq Ids(feedbackRows'[t])
         /\ agentCrashed = 0 => \A s \in policyState[t] : Ids(feedbackRows'[t]) = s.learned \cup mine
    BY <1>4, <1>16, <1>18
  <1>20. \A s : (Recorded(t, s)' <=> Recorded(t, s)) /\ (Newer(s.version + 1, t)' <=> Newer(s.version + 1, t))
    BY <1>6 DEF Recorded, Newer
  <1>21. at \in {"rows", "load"} /\ x.at \in AgentPlaces[x.op]
    BY <1>5, <1>15 DEF AgentPlaces
  <1>22. CallInv(x)'
    BY <1>6, <1>15, <1>16, <1>19, <1>20, <1>21 DEF CallInv
  <1>23. \E d \in AgentThreads : Owes(agentCall'[d], t)
    BY <1>9, <1>15, <1>21 DEF AgentOK, AgentTypes, Owes
  <1>24. policyState[t] # {} /\ \A r \in feedbackRows'[t] : r.proposal \in agentProposals[t]
    BY <1>7, <1>12, <1>16, <1>17 DEF StoreInv
  <1>25. StoreInv(t)'
    BY <1>6, <1>7, <1>19, <1>20, <1>23, <1>24 DEF StoreInv, Owes
  <1>26. /\ w.at \notin {"idle", "lock"} /\ (agentRegime = "alone" \/ w.op \in {"feedback", "retrain"})
         /\ (x = NoAgentCall \/ x \in AgentCalls)
         /\ ((x.op = w.op /\ serviceLock' = serviceLock) \/ (x = NoAgentCall /\ serviceLock' = serviceLock \ {c}))
         /\ UNCHANGED <<agentRegime, agentCrashed, agentStarted>>
    BY <1>6, <1>7, <1>14, <1>15
  <1>27. /\ policyState' \in [Learners -> SUBSET AgentPolicies]
         /\ policyVersions' \in [Learners -> Seq(VersionRecords)]
         /\ feedbackRows' \in [Learners -> SUBSET FeedbackRecords]
         /\ agentProposals' \in [Learners -> SUBSET Nat]
         /\ artefacts' \in [Learners -> SUBSET AgentPolicies]
    BY <1>6, <1>17, StoreTypes
  <1>28. \A u \in Learners \ {t} :
            /\ policyState'[u] = policyState[u] /\ policyVersions'[u] = policyVersions[u]
            /\ feedbackRows'[u] = feedbackRows[u] /\ agentProposals'[u] = agentProposals[u]
            /\ artefacts'[u] = artefacts[u]
    BY <1>6, <1>17
  <1> QED
    BY <1>1, <1>2, <1>7, <1>9, <1>22, <1>25, <1>26, <1>27, <1>28, WriterStep, Zenon

LEMMA Resets ==
  ASSUME AgentOK, NEW c \in AgentThreads, ResetTenant(c)
  PROVE  AgentOK'
  <1>1. PICK w : w = agentCall[c]
    OBVIOUS
  <1>2. PICK t : t = w.tenant
    OBVIOUS
  <1>3. /\ w.at = "clear" /\ Move(c, "load")
        /\ policyState' = [policyState EXCEPT ![t] = {}] /\ policyVersions' = [policyVersions EXCEPT ![t] = <<>>]
        /\ feedbackRows' = [feedbackRows EXCEPT ![t] = {}] /\ agentProposals' = [agentProposals EXCEPT ![t] = {}]
        /\ UNCHANGED <<artefacts, serviceLock, agentStarted, agentCrashed, agentRegime>>
    BY <1>1, <1>2 DEF ResetTenant, At, fixed
  <1>4. w \in AgentCalls /\ w # NoAgentCall /\ t \in Learners /\ CallInv(w) /\ w.op = "reset"
    BY <1>1, <1>2, <1>3, WorkOn, PlacesOf
  <1>5. agentRegime = "alone"
    BY <1>1, <1>3, <1>4, Writers
  <1>6. PICK x : agentCall' = [agentCall EXCEPT ![c] = x] /\ SameCall(x, w) /\ x.at = "load"
    BY <1>1, <1>3, <1>4, SomePlaces, Moves
  <1>7. x \in AgentCalls /\ x.op = "reset" /\ x.tenant = t
    BY <1>2, <1>4, <1>6 DEF SameCall
  <1>8. CallInv(x)'
    BY <1>6, <1>7 DEF CallInv, AgentPlaces, Loading
  <1>9. /\ policyState'[t] = {} /\ policyVersions'[t] = <<>> /\ feedbackRows'[t] = {} /\ agentProposals'[t] = {}
        /\ policyState' \in [Learners -> SUBSET AgentPolicies] /\ policyVersions' \in [Learners -> Seq(VersionRecords)]
        /\ feedbackRows' \in [Learners -> SUBSET FeedbackRecords] /\ agentProposals' \in [Learners -> SUBSET Nat]
    BY <1>3, <1>4, StoreTypes
  <1>10. \A u \in Learners \ {t} :
            /\ policyState'[u] = policyState[u] /\ policyVersions'[u] = policyVersions[u]
            /\ feedbackRows'[u] = feedbackRows[u] /\ agentProposals'[u] = agentProposals[u]
    BY <1>3, StoreTypes
  <1>11. StoreInv(t)'
    BY <1>3, <1>5, <1>9 DEF StoreInv
  <1>12. /\ w.at \notin {"idle", "lock"} /\ (agentRegime = "alone" \/ w.op \in {"feedback", "retrain"})
         /\ (x = NoAgentCall \/ x \in AgentCalls)
         /\ ((x.op = w.op /\ serviceLock' = serviceLock) \/ (x = NoAgentCall /\ serviceLock' = serviceLock \ {c}))
         /\ UNCHANGED <<agentRegime, agentCrashed, agentStarted>>
    BY <1>3, <1>4, <1>5, <1>7
  <1>13. /\ policyState' \in [Learners -> SUBSET AgentPolicies]
         /\ policyVersions' \in [Learners -> Seq(VersionRecords)]
         /\ feedbackRows' \in [Learners -> SUBSET FeedbackRecords]
         /\ agentProposals' \in [Learners -> SUBSET Nat]
         /\ artefacts' \in [Learners -> SUBSET AgentPolicies]
    BY <1>3, <1>9, StoreTypes
  <1>14. \A u \in Learners \ {t} :
            /\ policyState'[u] = policyState[u] /\ policyVersions'[u] = policyVersions[u]
            /\ feedbackRows'[u] = feedbackRows[u] /\ agentProposals'[u] = agentProposals[u]
            /\ artefacts'[u] = artefacts[u]
    BY <1>3, <1>10
  <1> QED
    BY <1>1, <1>2, <1>4, <1>6, <1>8, <1>11, <1>12, <1>13, <1>14, WriterStep, Zenon

\* propose is not under the lock: its write meets the work of other calls.
LEMMA SavesProposal ==
  ASSUME AgentOK, NEW c \in AgentThreads, SaveProposal(c)
  PROVE  AgentOK'
  <1>1. PICK w : w = agentCall[c]
    OBVIOUS
  <1>2. PICK t : t = w.tenant
    OBVIOUS
  <1>3. /\ w.at = "propose" /\ agentProposals' = [agentProposals EXCEPT ![t] = @ \cup {w.no}]
        /\ agentCall' = [agentCall EXCEPT ![c] = NoAgentCall] /\ serviceLock' = serviceLock \ {c}
        /\ UNCHANGED <<policyState, policyVersions, feedbackRows, artefacts, agentStarted, agentCrashed, agentRegime>>
    BY <1>1, <1>2 DEF SaveProposal, Return, Finish, At, fixed
  <1>4. w \in AgentCalls /\ w # NoAgentCall /\ t \in Learners /\ CallInv(w) /\ StoreInv(t)
    BY <1>1, <1>2, <1>3, WorkOn
  <1>5. policyState[t] # {} /\ w.no \in Nat
    BY <1>2, <1>3, <1>4 DEF CallInv, AgentCalls
  <1>6. /\ agentProposals' \in [Learners -> SUBSET Nat] /\ agentProposals[t] \subseteq agentProposals'[t]
        /\ \A u \in Learners \ {t} : agentProposals'[u] = agentProposals[u]
    BY <1>3, <1>4, <1>5, StoreTypes
  <1>7. \A u : ~Owes(w, u)
    BY <1>3 DEF Owes
  <1>8. AgentTypes'
    BY <1>3, <1>6, CallsTyped DEF AgentOK, AgentTypes
  <1>9. OneWriter'
    BY <1>1, <1>3, StillOneWriter
  <1>10. StoreInv(t)'
    <2>1. \A s : (Newer(s.version + 1, t)' <=> Newer(s.version + 1, t)) /\ (Recorded(t, s)' <=> Recorded(t, s))
      BY <1>3 DEF Newer, Recorded
    <2>2. \A d \in AgentThreads : Owes(agentCall[d], t) => Owes(agentCall'[d], t)
      BY <1>1, <1>3, <1>7
    <2>3. \A r \in feedbackRows[t] : r.proposal \in agentProposals'[t]
      BY <1>4, <1>6 DEF StoreInv
    <2>4. \A s \in policyState[t] :
             agentCrashed > 0 \/ (\E d \in AgentThreads : Owes(agentCall[d], t)) \/ (Recorded(t, s) /\ s.learned = Ids(feedbackRows[t]))
      BY <1>4 DEF StoreInv
    <2> QED
      BY <1>3, <1>4, <1>5, <2>1, <2>2, <2>3, <2>4 DEF StoreInv
  <1>11. ASSUME NEW u \in Learners PROVE StoreInv(u)'
    <2>1. CASE u = t
      BY <1>10, <2>1
    <2>2. CASE u # t
      BY <1>1, <1>3, <1>6, <1>7, <2>2, OtherTenants
    <2> QED
      BY <2>1, <2>2
  <1>12. ASSUME NEW d \in AgentThreads \ {c} PROVE CallInv(agentCall[d])'
    <2>1. PICK v : v = agentCall[d]
      OBVIOUS
    <2>2. agentCall'[d] = v /\ CallInv(v)
      BY <1>3, <2>1 DEF AgentOK, AgentTypes
    <2>3. CASE v = NoAgentCall
      BY <2>2, <2>3 DEF CallInv
    <2>4. CASE v # NoAgentCall
      <3>1. v.at # "idle" /\ v.tenant \in Learners
        BY <2>1, <2>4, CallTypes
      <3>2. agentRegime # "alone"
        BY <1>1, <1>3, <2>1, <3>1 DEF AgentOK, OneWriter, At
      <3>3. v.at \notin {"coldSave", "coldRecord"}
        BY <2>2, <2>4, <3>2 DEF CallInv
      <3>4. agentProposals[v.tenant] \subseteq agentProposals'[v.tenant]
        BY <1>6, <3>1
      <3>5. \A n : Newer(n, v.tenant)' <=> Newer(n, v.tenant)
        BY <1>3 DEF Newer
      <3>6. (\A s : Recorded(v.tenant, s)' <=> Recorded(v.tenant, s)) /\ (Fitted(v)' <=> Fitted(v))
        BY <1>3 DEF Recorded, Fitted
      <3>7. CallInv(v)'
        BY <1>3, <2>2, <3>3, <3>4, <3>5, <3>6 DEF CallInv
      <3> QED
        BY <2>2, <3>7 DEF CallInv, Fitted, Recorded, Newer
    <2> QED
      BY <2>3, <2>4
  <1>13. CallInv(NoAgentCall)'
    BY DEF CallInv
  <1> QED
    BY <1>3, <1>8, <1>9, <1>11, <1>12, <1>13, AssembleCalls

\* A crash may leave a policy without its row and rows that nobody has learned;
\* it leaves no version that is too high.
LEMMA AgentCrashes ==
  ASSUME AgentOK, CrashAgent
  PROVE  AgentOK'
  <1>1. /\ agentCrashed' = agentCrashed + 1 /\ agentCall' = [c \in AgentThreads |-> NoAgentCall]
        /\ UNCHANGED <<policyState, policyVersions, feedbackRows, agentProposals, artefacts, agentStarted, agentRegime>>
    BY DEF CrashAgent, agentStore
  <1>2. agentCrashed' \in Nat /\ agentCrashed' > 0
    BY <1>1, CrashCount
  <1>3. \A c \in AgentThreads : agentCall'[c] = NoAgentCall
    BY <1>1
  <1>4. AgentTypes'
    BY <1>1, <1>2, <1>3 DEF AgentOK, AgentTypes
  <1>5. OneWriter'
    BY <1>3 DEF OneWriter, At, NoAgentCall
  <1>6. ASSUME NEW t \in Learners PROVE StoreInv(t)'
    <2>1. StoreInv(t)
      BY DEF AgentOK
    <2>2. \A s : Newer(s.version + 1, t)' <=> Newer(s.version + 1, t)
      BY <1>1 DEF Newer
    <2> QED
      BY <1>1, <1>2, <2>1, <2>2 DEF StoreInv
  <1>7. ASSUME NEW c \in AgentThreads PROVE CallInv(agentCall[c])'
    BY <1>3 DEF CallInv
  <1> QED
    BY <1>1, <1>4, <1>5, <1>6, <1>7 DEF AgentOK

LEMMA AgentStarts ==
  ASSUME AgentInit, agentRegime # "any"
  PROVE  AgentOK
  <1>1. agentRegime \in {"warm", "alone"}
    BY AgentAssumption DEF AgentInit
  <1>2. ColdStart \in AgentPolicies /\ ColdStart.version = 1 /\ ColdStart.learned = {}
    BY DEF ColdStart, AgentPolicies
  <1>3. PICK r : r = Row(1, {}, FALSE)
    OBVIOUS
  <1>4. r \in VersionRecords /\ r.version = 1 /\ r.learned = {} /\ r.artefact = FALSE
    BY <1>3 DEF Row, VersionRecords
  <1>5. PICK rows : rows = <<r>>
    OBVIOUS
  <1>6. rows \in Seq(VersionRecords) /\ Len(rows) = 1 /\ DOMAIN rows = {1} /\ rows[1] = r /\ rows # <<>> /\ Last(rows) = r
    BY <1>4, <1>5 DEF Last
  <1>7. AgentTypes
    <2>1. policyState \in [Learners -> SUBSET AgentPolicies] /\ artefacts \in [Learners -> SUBSET AgentPolicies]
      BY <1>2 DEF AgentInit
    <2>2. policyVersions \in [Learners -> Seq(VersionRecords)]
      <3>1. policyVersions = [t \in Learners |-> IF agentRegime = "warm" THEN rows ELSE <<>>]
        BY <1>3, <1>5 DEF AgentInit
      <3>2. <<>> \in Seq(VersionRecords)
        OBVIOUS
      <3> QED
        BY <1>6, <3>1, <3>2
    <2>3. feedbackRows \in [Learners -> SUBSET FeedbackRecords] /\ agentProposals \in [Learners -> SUBSET Nat]
      BY DEF AgentInit
    <2> QED
      BY <2>1, <2>2, <2>3 DEF AgentInit, AgentTypes
  <1>8. \A c \in AgentThreads : agentCall[c] = NoAgentCall
    BY DEF AgentInit
  <1>9. OneWriter
    BY <1>8 DEF OneWriter, At, NoAgentCall
  <1>10. ASSUME NEW t \in Learners PROVE StoreInv(t)
    <2>1. feedbackRows[t] = {} /\ Ids(feedbackRows[t]) = {}
      BY DEF AgentInit, Ids
    <2>2. CASE agentRegime = "warm"
      <3>1. policyState[t] = {ColdStart} /\ policyVersions[t] = rows
        BY <1>3, <1>5, <2>2 DEF AgentInit
      <3>2. Recorded(t, ColdStart) /\ Newer(2, t)
        BY <1>2, <1>4, <1>6, <3>1 DEF Recorded, Newer
      <3>3. \A i, j \in DOMAIN rows : ~(i < j) /\ ~rows[i].artefact
        BY <1>4, <1>6
      <3>4. \A s \in policyState[t] :
              /\ Newer(s.version + 1, t) /\ s.learned \subseteq Ids(feedbackRows[t])
              /\ Recorded(t, s) /\ s.learned = Ids(feedbackRows[t])
        <4>1. ColdStart.version + 1 = 2
          BY <1>2
        <4> QED
          BY <1>2, <2>1, <3>1, <3>2, <4>1
      <3> QED
        BY <2>1, <3>1, <3>3, <3>4 DEF StoreInv
    <2>3. CASE agentRegime # "warm"
      BY <2>1, <2>3 DEF AgentInit, StoreInv
    <2> QED
      BY <2>2, <2>3
  <1>11. \A c \in AgentThreads : CallInv(agentCall[c])
    BY <1>8 DEF CallInv
  <1> QED
    BY <1>1, <1>7, <1>9, <1>10, <1>11 DEF AgentOK

LEMMA ShortSeqs ==
  ASSUME NEW S, NEW x \in S
  PROVE  <<x>> \in Seq(S) /\ <<x, x>> \in Seq(S)
  OBVIOUS

LEMMA AgentSteps ==
  ASSUME AgentOK, [AgentNext]_agentVars
  PROVE  AgentOK'
  <1>1. CASE CrashAgent
    BY <1>1, AgentCrashes
  <1>2. ASSUME NEW c \in AgentThreads, NEW t \in Learners,
               Propose(c, t) \/ Look(c, t) \/ Retrain(c, t) \/ RetrainOnce(c, t) \/ Reset(c, t)
        PROVE  AgentOK'
    <2>1. <<>> \in Seq(BOOLEAN) /\ 0 \in Nat
      OBVIOUS
    <2>2. /\ "load" \in AgentPlaces["propose"] /\ "load" \in AgentPlaces["look"] /\ "lock" \in AgentPlaces["retrain"]
          /\ "versions" \in AgentPlaces["cli"] /\ "clear" \in AgentPlaces["reset"]
          /\ {"propose", "look", "retrain", "cli", "reset"} \subseteq DOMAIN AgentPlaces
      BY DEF AgentPlaces, Loading, Fitting
    <2>3. CASE Propose(c, t)
      BY <2>1, <2>2, <2>3, StartCall DEF Propose
    <2>4. CASE Look(c, t)
      BY <2>1, <2>2, <2>4, StartCall DEF Look
    <2>5. CASE Retrain(c, t)
      BY <2>1, <2>2, <2>5, StartCall DEF Retrain
    <2>6. CASE RetrainOnce(c, t)
      BY <2>1, <2>2, <2>6, StartCall DEF RetrainOnce
    <2>7. CASE Reset(c, t)
      BY <2>1, <2>2, <2>7, StartCall DEF Reset
    <2> QED
      BY <1>2, <2>3, <2>4, <2>5, <2>6, <2>7
  <1>3. ASSUME NEW c \in AgentThreads, NEW t \in Learners, NEW p \in AnyProposal,
               NEW edits \in {<<TRUE>>, <<FALSE>>, <<TRUE, TRUE>>}, Feedback(c, t, p, edits)
        PROVE  AgentOK'
    <2>1. p \in Nat
      BY StoreTypes DEF AnyProposal
    <2>2. edits \in Seq(BOOLEAN)
      <3>1. PICK S : S = BOOLEAN
        OBVIOUS
      <3>2. PICK yes, no : yes = TRUE /\ no = FALSE /\ yes \in S /\ no \in S
        BY <3>1, Zenon
      <3>3. <<yes>> \in Seq(S) /\ <<no>> \in Seq(S) /\ <<yes, yes>> \in Seq(S)
        BY <3>2, ShortSeqs, Zenon
      <3>4. edits \in {<<yes>>, <<no>>, <<yes, yes>>}
        BY <3>2, Zenon
      <3>5. edits \in Seq(S)
        BY <3>3, <3>4
      <3> QED
        BY <3>1, <3>5, Zenon
    <2>3. "lock" \in AgentPlaces["feedback"] /\ "feedback" \in DOMAIN AgentPlaces
      BY DEF AgentPlaces
    <2> QED
      BY <1>3, <2>1, <2>2, <2>3, StartCall DEF Feedback
  <1>4. ASSUME NEW c \in AgentThreads,
               TakeLock(c) \/ LoadPolicy(c) \/ ColdSave(c) \/ ColdRecord(c) \/ SaveProposal(c) \/ ReturnPolicy(c)
        PROVE  AgentOK'
    BY <1>4, TakesLock, LoadsPolicy, ColdSaves, ColdRecords, SavesProposal, ReturnsPolicy, Zenon
  <1>5. ASSUME NEW c \in AgentThreads, FindProposal(c) \/ AddFeedback(c) \/ SaveNudge(c)
        PROVE  AgentOK'
    BY <1>5, FindsProposal, ReturnsPolicy, AddsFeedback, SavesNudge, Zenon
  <1>6. ASSUME NEW c \in AgentThreads,
               \/ ReadVersions(c) \/ ReadLog(c) \/ Replay(c) \/ SaveArtefact(c) \/ SaveFit(c)
               \/ RecordPolicyVersion(c) \/ ResetTenant(c)
        PROVE  AgentOK'
    BY <1>6, ReadsVersions, SavesArtefact, SavesFit, RecordsVersion, Resets, Zenon
  <1>7. CASE UNCHANGED agentVars
    <2>1. UNCHANGED <<policyState, policyVersions, feedbackRows, agentProposals, artefacts, serviceLock, agentCall,
                      agentStarted, agentCrashed, agentRegime>>
      BY <1>7 DEF agentVars, agentStore
    <2>2. AgentTypes' /\ OneWriter'
      BY <2>1 DEF AgentOK, AgentTypes, OneWriter, At
    <2>3. ASSUME NEW t \in Learners PROVE StoreInv(t)'
      <3>1. StoreInv(t)
        BY DEF AgentOK
      <3>2. \A s : (Newer(s.version + 1, t)' <=> Newer(s.version + 1, t)) /\ (Recorded(t, s)' <=> Recorded(t, s))
        BY <2>1 DEF Newer, Recorded
      <3> QED
        BY <2>1, <3>1, <3>2 DEF StoreInv, Owes
    <2>4. ASSUME NEW c \in AgentThreads PROVE CallInv(agentCall[c])'
      BY <2>1 DEF AgentOK, CallInv, Fitted, Recorded, Newer
    <2> QED
      BY <2>1, <2>2, <2>3, <2>4 DEF AgentOK
  <1> QED
    BY <1>1, <1>2, <1>3, <1>4, <1>5, <1>6, <1>7 DEF AgentNext

\* The regime never changes.
LEMMA RegimeKept ==
  ASSUME [AgentNext]_agentVars
  PROVE  agentRegime' = agentRegime
  <1>1. ASSUME NEW c, NEW op, NEW t, NEW p, NEW edits, NEW at, StartAgentCall(c, op, t, p, edits, at)
        PROVE  agentRegime' = agentRegime
    BY <1>1 DEF StartAgentCall
  <1>2. ASSUME NEW c, NEW t, Propose(c, t) \/ Look(c, t) \/ Retrain(c, t) \/ RetrainOnce(c, t) \/ Reset(c, t)
        PROVE  agentRegime' = agentRegime
    BY <1>1, <1>2 DEF Propose, Look, Retrain, RetrainOnce, Reset
  <1>3. ASSUME NEW c, NEW t, NEW p, NEW edits, Feedback(c, t, p, edits) PROVE agentRegime' = agentRegime
    BY <1>1, <1>3 DEF Feedback
  <1>4. ASSUME NEW c,
               \/ TakeLock(c) \/ LoadPolicy(c) \/ ColdSave(c) \/ ColdRecord(c) \/ SaveProposal(c) \/ ReturnPolicy(c)
               \/ FindProposal(c) \/ AddFeedback(c) \/ SaveNudge(c)
        PROVE  agentRegime' = agentRegime
    BY <1>4 DEF TakeLock, LoadPolicy, ColdSave, ColdRecord, SaveProposal, ReturnPolicy, FindProposal, AddFeedback, SaveNudge, fixed
  <1>5. ASSUME NEW c,
               \/ ReadVersions(c) \/ ReadLog(c) \/ Replay(c) \/ SaveArtefact(c) \/ SaveFit(c)
               \/ RecordPolicyVersion(c) \/ ResetTenant(c)
        PROVE  agentRegime' = agentRegime
    BY <1>5 DEF ReadVersions, ReadLog, Replay, SaveArtefact, SaveFit, RecordPolicyVersion, ResetTenant, fixed
  <1>6. CrashAgent \/ UNCHANGED agentVars => agentRegime' = agentRegime
    BY DEF CrashAgent, agentVars
  <1> QED
    BY <1>2, <1>3, <1>4, <1>5, <1>6 DEF AgentNext

(* What is known of the store and of the calls at every step of the agent  *)
(* service: a feedback or a retrain is alone with the rows it reads, a     *)
(* policy is ahead of its row only while its call still owes the row, and  *)
(* a propose that runs beside them cannot disturb what they have read.     *)
THEOREM LearningKept == AgentSpec => []AgentInv
  <1> DEFINE Inv == agentRegime = "any" \/ AgentOK
  <1>1. AgentInit => Inv
    BY AgentStarts
  <1>2. Inv /\ [AgentNext]_agentVars => Inv'
    BY AgentSteps, RegimeKept
  <1>3. Inv => AgentInv
    BY DEF AgentOK, AgentInv
  <1> QED
    BY <1>1, <1>2, <1>3, PTL DEF AgentSpec

LEMMA SoundAtRest ==
  ASSUME AgentOK
  PROVE  LearningSound
  <1>1. ASSUME AtRest, agentCrashed = 0, NEW t \in Learners, NEW s \in policyState[t]
        PROVE  Recorded(t, s) /\ s.learned = Ids(feedbackRows[t])
    <2>1. ASSUME NEW c \in AgentThreads PROVE ~Owes(agentCall[c], t)
      <3>1. agentCall[c] = NoAgentCall
        BY <1>1, CallTypes DEF AtRest, At
      <3> QED
        BY <3>1 DEF Owes, NoAgentCall
    <2> QED
      BY <1>1, <2>1, NothingOwed DEF AgentOK
  <1>2. HistorySound
    BY <1>1 DEF AgentOK, HistorySound, StoreInv, Recorded
  <1>3. NothingUnlearned
    BY <1>1 DEF AgentOK, NothingUnlearned, StoreInv
  <1> QED
    BY <1>2, <1>3 DEF LearningSound

(* The store of the agent service is a true record of what the agent has   *)
(* learned (service.py feedback, retrain, reset_tenant): versions rise, a  *)
(* row with an artefact finds the fit it was made of, and when no call is  *)
(* in progress the policy that is served has learned the tenant's feedback *)
(* log - all of it unless the process died, and never anything else.       *)
THEOREM LearningIsSound == AgentSpec => []LearningSound
  <1> DEFINE Inv == agentRegime = "any" \/ AgentOK
  <1>1. AgentInit => Inv
    BY AgentStarts
  <1>2. Inv /\ [AgentNext]_agentVars => Inv'
    BY AgentSteps, RegimeKept
  <1>3. agentRegime = "any" => LearningSound
    BY DEF LearningSound, HistorySound, NothingUnlearned
  <1>4. Inv => LearningSound
    BY <1>3, SoundAtRest
  <1> QED
    BY <1>1, <1>2, <1>4, PTL DEF AgentSpec

(* The types, in every regime *)

HasMax(S) == \E x \in S : \A y \in S : x >= y

LEMMA FiniteMax ==
  ASSUME NEW S \in SUBSET Nat, IsFiniteSet(S), S # {}
  PROVE  HasMax(S)
  <1>1. PICK F : F = FiniteSubsetsOf(Nat)
    OBVIOUS
  <1>2. PICK R : R = StrictSubsetOrdering(Nat)
    OBVIOUS
  <1>3. IsWellFoundedOn(R, F)
    BY <1>1, <1>2, FS_StrictSubsetOrderingWellFounded
  <1>4. PICK T : T = {U \in F : U # {} /\ ~HasMax(U)}
    OBVIOUS
  <1>5. SUFFICES ASSUME T # {} PROVE FALSE
    BY <1>1, <1>4 DEF FiniteSubsetsOf
  <1>6. PICK U \in T : \A V \in T : <<V, U>> \notin R
    BY <1>3, <1>4, <1>5, WFMin
  <1>7. U \in SUBSET Nat /\ IsFiniteSet(U) /\ ~HasMax(U)
    BY <1>1, <1>4 DEF FiniteSubsetsOf
  <1>8. PICK x \in U : TRUE
    BY <1>4
  <1>9. U \ {x} \in F /\ <<U \ {x}, U>> \in R
    BY <1>1, <1>2, <1>7, <1>8, FS_RemoveElement DEF FiniteSubsetsOf, StrictSubsetOrdering
  <1>10. U \ {x} = {} \/ HasMax(U \ {x})
    BY <1>4, <1>6, <1>9
  <1>11. CASE U \ {x} = {}
    BY <1>7, <1>8, <1>11 DEF HasMax
  <1>12. CASE HasMax(U \ {x})
    <2>1. PICK m \in U \ {x} : \A y \in U \ {x} : m >= y
      BY <1>12 DEF HasMax
    <2>2. \A y \in U : (IF m >= x THEN m ELSE x) >= y
      BY <1>7, <1>8, <2>1
    <2> QED
      BY <1>7, <1>8, <2>1, <2>2 DEF HasMax
  <1> QED
    BY <1>10, <1>11, <1>12

\* Whatever the order of the rows, the next version is one of its own.
LEMMA NextIsPositive ==
  ASSUME NEW t \in Learners, policyVersions[t] \in Seq(VersionRecords)
  PROVE  NextVersion(t) \in Nat /\ NextVersion(t) > 0
  <1>1. PICK v \in Seq(VersionRecords) : v = policyVersions[t]
    OBVIOUS
  <1>2. PICK versions : versions = {v[i].version : i \in DOMAIN v}
    OBVIOUS
  <1>3. versions \in SUBSET Nat
    <2>1. \A i \in DOMAIN v : v[i] \in VersionRecords
      BY <1>1
    <2> QED
      BY <1>2, <2>1 DEF VersionRecords
  <1>4. IsFiniteSet(versions)
    <2>1. DOMAIN v = 1..Len(v) /\ Len(v) \in Nat
      BY <1>1
    <2>2. IsFiniteSet(DOMAIN v)
      BY <2>1, FS_Interval
    <2>3. [i \in DOMAIN v |-> v[i].version] \in Surjection(DOMAIN v, versions)
      BY <1>2 DEF Surjection
    <2> QED
      BY <2>2, <2>3, FS_Surjection
  <1>5. PICK all : all = versions \cup {0}
    OBVIOUS
  <1>6. HasMax(all) /\ all \in SUBSET Nat
    <2>1. IsFiniteSet(all)
      BY <1>4, <1>5, FS_AddElement
    <2>2. all \in SUBSET Nat /\ all # {}
      BY <1>3, <1>5
    <2> QED
      BY <2>1, <2>2, FiniteMax
  <1>7. Max(all) \in Nat
    BY <1>6 DEF HasMax, Max
  <1>8. NextVersion(t) = Max(all) + 1
    BY <1>1, <1>2, <1>5 DEF NextVersion
  <1> QED
    BY <1>7, <1>8

\* The locals that a step may leave.
GoodCall(x, n) ==
    x \in AgentCalls /\ x.no <= n /\ x.state.version > 0 /\ (x.at \in {"log", "replay"} => x.version > 0)

\* A row of one tenant is written, or none.
Stored(f, g, t, S) == g = f \/ \E y \in S : g = [f EXCEPT ![t] = y]

GoodPolicies == {s \in AgentPolicies : s.version > 0}
Single == {S \in SUBSET GoodPolicies : \A s, u \in S : s = u}

LEMMA StoredAt ==
  ASSUME NEW D, NEW f, NEW g, NEW t, NEW S, DOMAIN f = D, Stored(f, g, t, S)
  PROVE  DOMAIN g = D /\ \A u \in D : g[u] = f[u] \/ g[u] \in S
  <1>1. CASE g = f
    BY <1>1
  <1>2. ASSUME NEW y \in S, g = [f EXCEPT ![t] = y] PROVE DOMAIN g = D /\ \A u \in D : g[u] = f[u] \/ g[u] \in S
    BY <1>2
  <1> QED
    BY <1>1, <1>2 DEF Stored

\* What a step of call c on tenant t has to show.
LEMMA AgentStepTyped ==
  ASSUME AgentTypeInv, NEW c \in AgentThreads, NEW t \in Learners,
         NEW x, agentCall' = [agentCall EXCEPT ![c] = x], x = NoAgentCall \/ GoodCall(x, agentStarted'),
         agentStarted' \in Nat, agentStarted <= agentStarted', agentStarted' <= MaxAgentCalls,
         agentCrashed' = agentCrashed,
         serviceLock' \subseteq serviceLock \/ serviceLock' = {c},
         Stored(policyState, policyState', t, Single),
         Stored(policyVersions, policyVersions', t, Seq(VersionRecords)),
         Stored(feedbackRows, feedbackRows', t, SUBSET FeedbackRecords),
         Stored(agentProposals, agentProposals', t, SUBSET (0..agentStarted)),
         Stored(artefacts, artefacts', t, SUBSET GoodPolicies)
  PROVE  AgentTypeInv'
  <1>1. AgentTypes /\ agentStarted \in Nat
    BY DEF AgentTypeInv, AgentTypes
  <1>2. policyState' \in [Learners -> SUBSET AgentPolicies]
    BY <1>1 DEF AgentTypes, Stored, Single, GoodPolicies
  <1>3. policyVersions' \in [Learners -> Seq(VersionRecords)]
    BY <1>1 DEF AgentTypes, Stored
  <1>4. feedbackRows' \in [Learners -> SUBSET FeedbackRecords]
    BY <1>1 DEF AgentTypes, Stored
  <1>5. \A u \in Learners : agentProposals'[u] \subseteq 0..agentStarted'
    <2> SUFFICES ASSUME NEW u \in Learners PROVE agentProposals'[u] \subseteq 0..agentStarted
      BY <1>1
    <2>1. agentProposals[u] \subseteq 0..agentStarted
      BY DEF AgentTypeInv
    <2> QED
      BY <1>1, <2>1 DEF AgentTypes, Stored
  <1>6. agentProposals' \in [Learners -> SUBSET Nat]
    <2>1. \A S \in SUBSET (0..agentStarted) : S \in SUBSET Nat
      BY <1>1
    <2>2. agentProposals \in [Learners -> SUBSET Nat]
      BY <1>1 DEF AgentTypes
    <2>3. CASE agentProposals' = agentProposals
      BY <2>2, <2>3
    <2>4. ASSUME NEW P \in SUBSET (0..agentStarted), agentProposals' = [agentProposals EXCEPT ![t] = P]
          PROVE  agentProposals' \in [Learners -> SUBSET Nat]
      BY <2>1, <2>2, <2>4
    <2> QED
      BY <2>3, <2>4 DEF Stored
  <1>7. artefacts' \in [Learners -> SUBSET AgentPolicies]
    BY <1>1 DEF AgentTypes, Stored, GoodPolicies
  <1>8. DOMAIN agentCall' = AgentThreads /\ \A d \in AgentThreads : agentCall'[d] = IF d = c THEN x ELSE agentCall[d]
    BY <1>1 DEF AgentTypes
  <1>9. \A d \in AgentThreads : agentCall'[d] = NoAgentCall \/ GoodCall(agentCall'[d], agentStarted')
    <2> SUFFICES ASSUME NEW d \in AgentThreads \ {c} PROVE agentCall[d] = NoAgentCall \/ GoodCall(agentCall[d], agentStarted')
      BY <1>8
    <2>1. PICK w : w = agentCall[d]
      OBVIOUS
    <2>2. w = NoAgentCall \/ (w \in AgentCalls /\ w.no \in Nat /\ GoodCall(w, agentStarted))
      BY <2>1 DEF AgentTypeInv, AgentTypes, GoodCall, AgentCalls
    <2>3. ASSUME w.no \in Nat, w.no <= agentStarted PROVE w.no <= agentStarted'
      BY <1>1, <2>3
    <2> QED
      BY <2>1, <2>2, <2>3 DEF GoodCall
  <1>10. AgentTypes'
    <2>1. agentCrashed' \in Nat
      BY <1>1 DEF AgentTypes
    <2> QED
      BY <1>2, <1>3, <1>4, <1>6, <1>7, <1>8, <1>9, <2>1 DEF AgentTypes, GoodCall
  <1>11. ASSUME NEW u \in Learners
         PROVE  /\ policyState'[u] = policyState[u] \/ policyState'[u] \in Single
                /\ artefacts'[u] = artefacts[u] \/ artefacts'[u] \in SUBSET GoodPolicies
    <2>1. DOMAIN policyState = Learners /\ DOMAIN artefacts = Learners
      BY <1>1 DEF AgentTypes
    <2>2. policyState'[u] = policyState[u] \/ policyState'[u] \in Single
      BY <2>1, StoredAt
    <2>3. artefacts'[u] = artefacts[u] \/ artefacts'[u] \in SUBSET GoodPolicies
      BY <2>1, StoredAt
    <2> QED
      BY <2>2, <2>3
  <1>12. ASSUME NEW u \in Learners
         PROVE  /\ \A s, v \in policyState'[u] : s = v
                /\ \A s \in policyState'[u] \cup artefacts'[u] : s.version > 0
    <2>1. (\A s, v \in policyState[u] : s = v) /\ \A s \in policyState[u] \cup artefacts[u] : s.version > 0
      BY DEF AgentTypeInv
    <2>2. (\A s, v \in policyState'[u] : s = v) /\ \A s \in policyState'[u] : s.version > 0
      <3>1. ASSUME NEW S \in Single PROVE (\A s, v \in S : s = v) /\ \A s \in S : s.version > 0
        BY DEF Single, GoodPolicies
      <3>2. CASE policyState'[u] = policyState[u]
        BY <2>1, <3>2
      <3> QED
        BY <1>11, <3>1, <3>2
    <2>3. \A s \in artefacts'[u] : s.version > 0
      <3>1. ASSUME NEW S \in SUBSET GoodPolicies PROVE \A s \in S : s.version > 0
        BY DEF GoodPolicies
      <3>2. CASE artefacts'[u] = artefacts[u]
        BY <2>1, <3>2
      <3> QED
        BY <1>11, <3>1, <3>2
    <2> QED
      BY <2>2, <2>3
  <1>13. serviceLock' \subseteq AgentThreads /\ \A a, d \in serviceLock' : a = d
    BY DEF AgentTypeInv
  <1> QED
    BY <1>5, <1>9, <1>10, <1>12, <1>13 DEF AgentTypeInv, GoodCall

\* A call in progress: its locals, its tenant and the tenant's rows.
LEMMA InProgress ==
  ASSUME AgentTypeInv, NEW c \in AgentThreads, agentCall[c].at # "idle"
  PROVE  /\ GoodCall(agentCall[c], agentStarted) /\ agentCall[c].tenant \in Learners
         /\ agentStarted \in Nat /\ agentStarted <= MaxAgentCalls
         /\ policyState[agentCall[c].tenant] \in Single
         /\ policyVersions[agentCall[c].tenant] \in Seq(VersionRecords)
         /\ feedbackRows[agentCall[c].tenant] \in SUBSET FeedbackRecords
         /\ agentProposals[agentCall[c].tenant] \in SUBSET (0..agentStarted)
         /\ artefacts[agentCall[c].tenant] \in SUBSET GoodPolicies
  <1>1. PICK w : w = agentCall[c]
    OBVIOUS
  <1>2. w # NoAgentCall
    BY <1>1 DEF NoAgentCall
  <1>3. w \in AgentCalls /\ w.tenant \in Learners
    BY <1>1, <1>2 DEF AgentTypeInv, AgentTypes, AgentCalls
  <1>4. GoodCall(w, agentStarted)
    BY <1>1, <1>2, <1>3 DEF AgentTypeInv, GoodCall
  <1>5. PICK t \in Learners : t = w.tenant
    BY <1>3
  <1>6. policyState[t] \in SUBSET AgentPolicies /\ artefacts[t] \in SUBSET AgentPolicies
    BY DEF AgentTypeInv, AgentTypes
  <1>7. policyState[t] \in Single /\ artefacts[t] \in SUBSET GoodPolicies
    BY <1>6 DEF AgentTypeInv, Single, GoodPolicies
  <1>8. policyVersions[t] \in Seq(VersionRecords) /\ feedbackRows[t] \in SUBSET FeedbackRecords
    BY DEF AgentTypeInv, AgentTypes
  <1>9. agentProposals[t] \in SUBSET (0..agentStarted) /\ agentStarted \in Nat /\ agentStarted <= MaxAgentCalls
    BY DEF AgentTypeInv, AgentTypes
  <1> QED
    BY <1>1, <1>3, <1>4, <1>5, <1>7, <1>8, <1>9

LEMMA CallsStart ==
  ASSUME AgentTypeInv, NEW c \in AgentThreads, NEW op \in DOMAIN AgentPlaces, NEW t \in Learners, NEW p \in Nat,
         NEW edits \in Seq(BOOLEAN), NEW at \in {"load", "lock", "versions", "clear"},
         StartAgentCall(c, op, t, p, edits, at)
  PROVE  AgentTypeInv'
  <1>1. PICK x : x = [NoAgentCall EXCEPT !.at = at, !.op = op, !.no = agentStarted', !.tenant = t, !.proposal = p, !.edits = edits]
    OBVIOUS
  <1>2. /\ agentCall' = [agentCall EXCEPT ![c] = x] /\ agentStarted' = agentStarted + 1 /\ agentStarted < MaxAgentCalls
        /\ UNCHANGED <<policyState, policyVersions, feedbackRows, agentProposals, artefacts, agentCrashed, serviceLock>>
    BY <1>1 DEF StartAgentCall, agentStore
  <1>3. agentStarted \in Nat /\ agentStarted' \in Nat /\ agentStarted' <= MaxAgentCalls /\ agentStarted <= agentStarted'
    BY <1>2, AgentAssumption DEF AgentTypeInv, AgentTypes
  <1>4. x = [at |-> at, op |-> op, no |-> agentStarted', tenant |-> t, proposal |-> p, edits |-> edits,
             mine |-> {}, log |-> {}, state |-> ColdStart, version |-> 0]
    BY <1>1 DEF NoAgentCall
  <1>5. GoodCall(x, agentStarted')
    BY <1>3, <1>4, SomePlaces DEF AgentCalls, AgentPolicies, ColdStart, GoodCall
  <1> QED
    BY <1>2, <1>3, <1>5, AgentStepTyped DEF Stored

LEMMA StartsTyped ==
  ASSUME AgentTypeInv, NEW c \in AgentThreads,
         \/ \E t \in Learners : Propose(c, t) \/ Look(c, t) \/ Retrain(c, t) \/ RetrainOnce(c, t) \/ Reset(c, t)
         \/ \E t \in Learners, p \in AnyProposal, edits \in {<<TRUE>>, <<FALSE>>, <<TRUE, TRUE>>} :
              Feedback(c, t, p, edits)
  PROVE  AgentTypeInv'
  <1>1. DOMAIN AgentPlaces = {"propose", "look", "reset", "feedback", "retrain", "cli"}
    BY DEF AgentPlaces
  <1>2. <<>> \in Seq(BOOLEAN) /\ <<TRUE>> \in Seq(BOOLEAN) /\ <<FALSE>> \in Seq(BOOLEAN) /\ <<TRUE, TRUE>> \in Seq(BOOLEAN)
    OBVIOUS
  <1>3. AnyProposal \subseteq Nat
    BY DEF AnyProposal, AgentTypeInv, AgentTypes
  <1>4. ASSUME NEW t \in Learners, Propose(c, t) \/ Look(c, t) \/ Retrain(c, t) \/ RetrainOnce(c, t) \/ Reset(c, t)
        PROVE  AgentTypeInv'
    BY <1>1, <1>2, <1>4, CallsStart DEF Propose, Look, Retrain, RetrainOnce, Reset
  <1>5. ASSUME NEW t \in Learners, NEW p \in AnyProposal, NEW edits \in {<<TRUE>>, <<FALSE>>, <<TRUE, TRUE>>},
               Feedback(c, t, p, edits)
        PROVE  AgentTypeInv'
    BY <1>1, <1>2, <1>3, <1>5, CallsStart DEF Feedback
  <1> QED
    BY <1>4, <1>5

Proceeds(c) ==
    \E x : (x = NoAgentCall \/ GoodCall(x, agentStarted)) /\ agentCall' = [agentCall EXCEPT ![c] = x]

\* A step of a call in progress, on the rows of its tenant.
LEMMA WorkTyped ==
  ASSUME AgentTypeInv, NEW c \in AgentThreads, agentCall[c].at # "idle", Proceeds(c),
         UNCHANGED <<agentStarted, agentCrashed>>,
         serviceLock' \subseteq serviceLock \/ serviceLock' = {c},
         NEW t, t = agentCall[c].tenant,
         Stored(policyState, policyState', t, Single),
         Stored(policyVersions, policyVersions', t, Seq(VersionRecords)),
         Stored(feedbackRows, feedbackRows', t, SUBSET FeedbackRecords),
         Stored(agentProposals, agentProposals', t, SUBSET (0..agentStarted)),
         Stored(artefacts, artefacts', t, SUBSET GoodPolicies)
  PROVE  AgentTypeInv'
  <1>1. PICK x : (x = NoAgentCall \/ GoodCall(x, agentStarted)) /\ agentCall' = [agentCall EXCEPT ![c] = x]
    BY DEF Proceeds
  <1>2. t \in Learners /\ agentStarted \in Nat /\ agentStarted <= MaxAgentCalls
    BY InProgress
  <1>3. agentStarted' \in Nat /\ agentStarted <= agentStarted' /\ agentStarted' <= MaxAgentCalls
    BY <1>2
  <1>4. x = NoAgentCall \/ GoodCall(x, agentStarted')
    BY <1>1
  <1> QED
    BY <1>1, <1>2, <1>3, <1>4, AgentStepTyped, Zenon

\* A call moves on, or returns.
LEMMA MovesTyped ==
  ASSUME AgentTypeInv, NEW c \in AgentThreads, agentCall[c].at # "idle"
  PROVE  /\ Finish(c) => Proceeds(c)
         /\ \A at \in UNION {AgentPlaces[op] : op \in DOMAIN AgentPlaces} :
              at \notin {"log", "replay"} /\ Move(c, at) => Proceeds(c)
  <1>1. Finish(c) => Proceeds(c)
    BY DEF Finish, Proceeds
  <1>2. ASSUME NEW at \in UNION {AgentPlaces[op] : op \in DOMAIN AgentPlaces}, at \notin {"log", "replay"}, Move(c, at)
        PROVE  Proceeds(c)
    <2>1. PICK w : w = agentCall[c]
      OBVIOUS
    <2>2. GoodCall(w, agentStarted) /\ w \in AgentCalls
      BY <2>1, InProgress DEF GoodCall
    <2>3. PICK x : x = [w EXCEPT !.at = at]
      OBVIOUS
    <2>4. x \in AgentCalls /\ x.at = at /\ x.no = w.no /\ x.state = w.state
      BY <2>2, <2>3 DEF AgentCalls
    <2>5. GoodCall(x, agentStarted)
      BY <1>2, <2>2, <2>4 DEF GoodCall
    <2>6. agentCall' = [agentCall EXCEPT ![c] = x]
      BY <1>2, <2>1, <2>3 DEF Move, AgentTypeInv, AgentTypes
    <2> QED
      BY <2>5, <2>6 DEF Proceeds
  <1> QED
    BY <1>1, <1>2

\* A call moves on with a policy.
LEMMA PolicyTyped ==
  ASSUME AgentTypeInv, NEW c \in AgentThreads, agentCall[c].at # "idle",
         NEW at \in UNION {AgentPlaces[op] : op \in DOMAIN AgentPlaces}, at \notin {"log", "replay"},
         NEW s \in GoodPolicies,
         \/ agentCall' = [agentCall EXCEPT ![c].at = at, ![c].state = s]
         \/ agentCall' = [agentCall EXCEPT ![c].at = at, ![c].log = {}, ![c].state = s]
  PROVE  Proceeds(c)
  <1>1. PICK w : w = agentCall[c]
    OBVIOUS
  <1>2. GoodCall(w, agentStarted) /\ w \in AgentCalls
    BY <1>1, InProgress DEF GoodCall
  <1>4. ASSUME NEW l \in {w.log, {}}, NEW x, x = [w EXCEPT !.at = at, !.log = l, !.state = s]
        PROVE  GoodCall(x, agentStarted)
    <2>1. s \in AgentPolicies /\ s.version > 0
      BY DEF GoodPolicies
    <2>2. x \in AgentCalls /\ x.at = at /\ x.no = w.no /\ x.state = s
      BY <1>2, <1>4, <2>1 DEF AgentCalls
    <2> QED
      BY <1>2, <2>1, <2>2 DEF GoodCall
  <1>5. c \in DOMAIN agentCall
    BY DEF AgentTypeInv, AgentTypes
  <1>6. CASE agentCall' = [agentCall EXCEPT ![c].at = at, ![c].state = s]
    <2>1. PICK x : x = [w EXCEPT !.at = at, !.log = w.log, !.state = s]
      OBVIOUS
    <2>2. x = [w EXCEPT !.at = at, !.state = s]
      BY <1>2, <2>1 DEF AgentCalls
    <2>3. agentCall' = [agentCall EXCEPT ![c] = x]
      BY <1>1, <1>5, <1>6, <2>2
    <2> QED
      BY <1>4, <2>1, <2>3 DEF Proceeds
  <1>7. CASE agentCall' = [agentCall EXCEPT ![c].at = at, ![c].log = {}, ![c].state = s]
    <2>1. PICK x : x = [w EXCEPT !.at = at, !.log = {}, !.state = s]
      OBVIOUS
    <2>2. agentCall' = [agentCall EXCEPT ![c] = x]
      BY <1>1, <1>5, <1>7, <2>1
    <2> QED
      BY <1>4, <2>1, <2>2 DEF Proceeds
  <1> QED
    BY <1>6, <1>7

LEMMA ColdStartIsGood == ColdStart \in GoodPolicies
  BY DEF ColdStart, GoodPolicies, AgentPolicies

LEMMA AfterLoadPlaces ==
  ASSUME NEW c
  PROVE  AfterLoad(c) \in {"propose", "save", "versions", "return"}
  BY DEF AfterLoad

\* Locks, loads and returns.
LEMMA LoadsTyped ==
  ASSUME AgentTypeInv, NEW c \in AgentThreads,
         TakeLock(c) \/ LoadPolicy(c) \/ ReturnPolicy(c) \/ FindProposal(c) \/ SaveProposal(c)
  PROVE  AgentTypeInv'
  <1>1. PICK t : t = agentCall[c].tenant
    OBVIOUS
  <1>2. agentCall[c].at # "idle" /\ UNCHANGED <<policyState, policyVersions, feedbackRows, artefacts, agentStarted, agentCrashed>>
    BY DEF TakeLock, LoadPolicy, ReturnPolicy, FindProposal, SaveProposal, At, agentStore, fixed
  <1>3. agentProposals' = agentProposals
        \/ \E P \in SUBSET (0..agentStarted) : agentProposals' = [agentProposals EXCEPT ![t] = P]
    <2>1. CASE SaveProposal(c)
      <3>1. PICK P : P = agentProposals[t] \cup {agentCall[c].no}
        OBVIOUS
      <3>2. agentProposals' = [agentProposals EXCEPT ![t] = P]
        BY <1>1, <2>1, <3>1 DEF SaveProposal
      <3>3. agentCall[c].no \in 0..agentStarted /\ agentProposals[t] \in SUBSET (0..agentStarted)
        BY <1>1, <1>2, InProgress DEF GoodCall, AgentCalls
      <3> QED
        BY <3>1, <3>2, <3>3
    <2>2. CASE ~SaveProposal(c)
      BY <2>2 DEF TakeLock, LoadPolicy, ReturnPolicy, FindProposal, agentStore
    <2> QED
      BY <2>1, <2>2
  <1>4. serviceLock' \subseteq serviceLock \/ serviceLock' = {c}
    BY DEF TakeLock, LoadPolicy, ReturnPolicy, FindProposal, SaveProposal, Return
  <1>5. Proceeds(c)
    <2>1. {"find", "load", "coldSave", "rows"} \subseteq UNION {AgentPlaces[op] : op \in DOMAIN AgentPlaces}
      BY SomePlaces
    <2>2. CASE TakeLock(c)
      BY <1>2, <2>1, <2>2, MovesTyped DEF TakeLock
    <2>3. CASE FindProposal(c)
      BY <1>2, <2>1, <2>3, MovesTyped DEF FindProposal, Return
    <2>4. CASE ReturnPolicy(c) \/ SaveProposal(c)
      BY <1>2, <2>4, MovesTyped DEF ReturnPolicy, SaveProposal, Return
    <2>5. CASE LoadPolicy(c)
      <3>1. CASE Move(c, "coldSave")
        BY <1>2, <2>1, <3>1, MovesTyped
      <3>2. ASSUME NEW s \in policyState[t], agentCall' = [agentCall EXCEPT ![c].at = AfterLoad(c), ![c].state = s]
            PROVE  Proceeds(c)
        <4>1. s \in GoodPolicies
          BY <1>1, <1>2, InProgress DEF Single
        <4>2. PICK at : at = AfterLoad(c)
          OBVIOUS
        <4>3. at \in UNION {AgentPlaces[op] : op \in DOMAIN AgentPlaces} /\ at \notin {"log", "replay"}
          BY <4>2, AfterLoadPlaces, SomePlaces
        <4>4. agentCall' = [agentCall EXCEPT ![c].at = at, ![c].state = s]
          BY <3>2, <4>2
        <4> QED
          BY <1>2, <4>1, <4>3, <4>4, PolicyTyped
      <3> QED
        BY <1>1, <2>5, <3>1, <3>2 DEF LoadPolicy
    <2> QED
      BY <2>2, <2>3, <2>4, <2>5
  <1> QED
    BY <1>1, <1>2, <1>3, <1>4, <1>5, WorkTyped DEF Stored

\* What writes a policy.
LEMMA PoliciesTyped ==
  ASSUME AgentTypeInv, NEW c \in AgentThreads, ColdSave(c) \/ SaveNudge(c) \/ SaveFit(c) \/ SaveArtefact(c)
  PROVE  AgentTypeInv'
  <1>1. PICK w : w = agentCall[c]
    OBVIOUS
  <1>2. PICK t : t = w.tenant
    OBVIOUS
  <1>3. /\ agentCall[c].at # "idle"
        /\ UNCHANGED <<policyVersions, feedbackRows, agentProposals, serviceLock, agentStarted, agentCrashed>>
    BY DEF ColdSave, SaveNudge, SaveFit, SaveArtefact, At, fixed
  <1>4. GoodCall(w, agentStarted) /\ w \in AgentCalls /\ w.state \in GoodPolicies
    BY <1>1, <1>3, InProgress DEF GoodCall, AgentCalls, GoodPolicies
  <1>5. \A s \in GoodPolicies : {s} \in Single
    BY DEF Single
  <1>6. CASE ColdSave(c)
    <2>1. policyState' = [policyState EXCEPT ![t] = {ColdStart}] /\ UNCHANGED artefacts /\ Move(c, "coldRecord")
      BY <1>1, <1>2, <1>6 DEF ColdSave
    <2>2. Proceeds(c)
      BY <1>3, <2>1, MovesTyped, SomePlaces
    <2> QED
      BY <1>1, <1>2, <1>3, <1>5, <2>1, <2>2, ColdStartIsGood, WorkTyped DEF Stored
  <1>7. CASE SaveFit(c)
    <2>1. policyState' = [policyState EXCEPT ![t] = {w.state}] /\ UNCHANGED artefacts /\ Move(c, "record")
      BY <1>1, <1>2, <1>7 DEF SaveFit
    <2>2. Proceeds(c)
      BY <1>3, <2>1, MovesTyped, SomePlaces
    <2> QED
      BY <1>1, <1>2, <1>3, <1>4, <1>5, <2>1, <2>2, WorkTyped DEF Stored
  <1>8. CASE SaveArtefact(c)
    <2>1. PICK A : A = {a \in artefacts[t] : a.version # w.state.version} \cup {w.state}
      OBVIOUS
    <2>2. artefacts' = [artefacts EXCEPT ![t] = A] /\ UNCHANGED policyState /\ Move(c, "saveFit")
      BY <1>1, <1>2, <1>8, <2>1 DEF SaveArtefact
    <2>3. A \in SUBSET GoodPolicies
      BY <1>1, <1>2, <1>3, <1>4, <2>1, InProgress
    <2>4. Proceeds(c)
      BY <1>3, <2>2, MovesTyped, SomePlaces
    <2> QED
      BY <1>1, <1>2, <1>3, <2>2, <2>3, <2>4, WorkTyped DEF Stored
  <1>9. CASE SaveNudge(c)
    <2>1. PICK s : s = Nudged(c, w.state)
      OBVIOUS
    <2>2. s \in GoodPolicies
      <3>1. w.state.version \in Nat /\ w.state.version > 0 /\ w.state.learned \subseteq AgentIds /\ w.mine \subseteq AgentIds
        BY <1>4 DEF AgentCalls, AgentPolicies, GoodPolicies
      <3>2. CASE w.mine = {}
        BY <1>1, <1>4, <2>1, <3>2 DEF Nudged
      <3>3. CASE w.mine # {}
        <4>1. s = [version |-> w.state.version + 1, learned |-> w.state.learned \cup w.mine]
          BY <1>1, <2>1, <3>3 DEF Nudged
        <4> QED
          BY <3>1, <4>1 DEF GoodPolicies, AgentPolicies
      <3> QED
        BY <3>2, <3>3
    <2>3. PICK at : at = IF w.mine = {} THEN "return" ELSE "record"
      OBVIOUS
    <2>4. /\ policyState' = [policyState EXCEPT ![t] = {s}] /\ UNCHANGED artefacts
          /\ agentCall' = [agentCall EXCEPT ![c].at = at, ![c].state = s]
      BY <1>1, <1>2, <1>9, <2>1, <2>3 DEF SaveNudge
    <2>5. at \in UNION {AgentPlaces[op] : op \in DOMAIN AgentPlaces} /\ at \notin {"log", "replay"}
      BY <2>3, SomePlaces
    <2>6. Proceeds(c)
      BY <1>3, <2>2, <2>4, <2>5, PolicyTyped
    <2> QED
      BY <1>1, <1>2, <1>3, <1>5, <2>2, <2>4, <2>6, WorkTyped DEF Stored
  <1> QED
    BY <1>6, <1>7, <1>8, <1>9

\* What writes a row of the history, or clears them all.
LEMMA RowsTyped ==
  ASSUME AgentTypeInv, NEW c \in AgentThreads, ColdRecord(c) \/ RecordPolicyVersion(c) \/ ResetTenant(c)
  PROVE  AgentTypeInv'
  <1>1. PICK w : w = agentCall[c]
    OBVIOUS
  <1>2. PICK t : t = w.tenant
    OBVIOUS
  <1>3. agentCall[c].at # "idle" /\ UNCHANGED <<artefacts, agentStarted, agentCrashed>>
    BY DEF ColdRecord, RecordPolicyVersion, ResetTenant, At, fixed
  <1>4. GoodCall(w, agentStarted) /\ w.state \in AgentPolicies /\ policyVersions[t] \in Seq(VersionRecords)
    BY <1>1, <1>2, <1>3, InProgress DEF GoodCall, AgentCalls
  <1>5. ASSUME NEW s \in AgentPolicies, NEW artefact \in BOOLEAN
        PROVE  Append(policyVersions[t], Row(s.version, s.learned, artefact)) \in Seq(VersionRecords)
    <2>1. Row(s.version, s.learned, artefact) \in VersionRecords
      BY DEF Row, VersionRecords, AgentPolicies
    <2> QED
      BY <1>4, <2>1, AppendProperties
  <1>6. CASE ColdRecord(c)
    <2>1. /\ policyVersions' = [policyVersions EXCEPT ![t] = Append(@, Row(1, {}, FALSE))]
          /\ agentCall' = [agentCall EXCEPT ![c].at = AfterLoad(c), ![c].state = ColdStart]
          /\ UNCHANGED <<policyState, feedbackRows, agentProposals, serviceLock>>
      BY <1>1, <1>2, <1>6 DEF ColdRecord
    <2>2. Append(policyVersions[t], Row(1, {}, FALSE)) \in Seq(VersionRecords)
      <3>1. ColdStart \in AgentPolicies /\ ColdStart.version = 1 /\ ColdStart.learned = {}
        BY DEF ColdStart, AgentPolicies
      <3> QED
        BY <1>5, <3>1
    <2>3. PICK at : at = AfterLoad(c)
      OBVIOUS
    <2>4. at \in UNION {AgentPlaces[op] : op \in DOMAIN AgentPlaces} /\ at \notin {"log", "replay"}
      BY <2>3, AfterLoadPlaces, SomePlaces
    <2>5. agentCall' = [agentCall EXCEPT ![c].at = at, ![c].state = ColdStart]
      BY <2>1, <2>3
    <2>6. Proceeds(c)
      BY <1>3, <2>4, <2>5, ColdStartIsGood, PolicyTyped
    <2> QED
      BY <1>1, <1>2, <1>3, <2>1, <2>2, <2>6, WorkTyped DEF Stored
  <1>7. CASE RecordPolicyVersion(c)
    <2>1. /\ policyVersions' = [policyVersions EXCEPT ![t] = Append(@, Row(w.state.version, w.state.learned, w.op # "feedback"))]
          /\ Finish(c) /\ serviceLock' = serviceLock \ {c}
          /\ UNCHANGED <<policyState, feedbackRows, agentProposals>>
      BY <1>1, <1>2, <1>7 DEF RecordPolicyVersion, Return
    <2>2. Append(policyVersions[t], Row(w.state.version, w.state.learned, w.op # "feedback")) \in Seq(VersionRecords)
      BY <1>4, <1>5
    <2>3. Proceeds(c)
      BY <1>3, <2>1, MovesTyped
    <2> QED
      BY <1>1, <1>2, <1>3, <2>1, <2>2, <2>3, WorkTyped DEF Stored
  <1>8. CASE ResetTenant(c)
    <2>1. /\ policyState' = [policyState EXCEPT ![t] = {}]
          /\ policyVersions' = [policyVersions EXCEPT ![t] = <<>>]
          /\ feedbackRows' = [feedbackRows EXCEPT ![t] = {}]
          /\ agentProposals' = [agentProposals EXCEPT ![t] = {}]
          /\ Move(c, "load") /\ UNCHANGED serviceLock
      BY <1>1, <1>2, <1>8 DEF ResetTenant
    <2>2. {} \in Single /\ <<>> \in Seq(VersionRecords)
      BY EmptySeq DEF Single
    <2>3. Proceeds(c)
      BY <1>3, <2>1, MovesTyped, SomePlaces
    <2> QED
      BY <1>1, <1>2, <1>3, <2>1, <2>2, <2>3, WorkTyped DEF Stored
  <1> QED
    BY <1>6, <1>7, <1>8

LEMMA FeedbackTyped ==
  ASSUME AgentTypeInv, NEW c \in AgentThreads, AddFeedback(c)
  PROVE  AgentTypeInv'
  <1>1. PICK w : w = agentCall[c]
    OBVIOUS
  <1>2. PICK t : t = w.tenant
    OBVIOUS
  <1>3. PICK row : row = [id |-> <<w.no, Len(w.edits)>>, proposal |-> w.proposal, teaches |-> Head(w.edits)]
    OBVIOUS
  <1>4. PICK mine : mine = IF row.teaches THEN w.mine \cup {row.id} ELSE w.mine
    OBVIOUS
  <1>5. PICK at : at = IF Len(w.edits) = 1 THEN "load" ELSE "rows"
    OBVIOUS
  <1>6. /\ w.at = "rows" /\ w.edits # <<>> /\ feedbackRows' = [feedbackRows EXCEPT ![t] = @ \cup {row}]
        /\ UNCHANGED <<policyState, policyVersions, agentProposals, artefacts, serviceLock, agentStarted, agentCrashed>>
    BY <1>1, <1>2, <1>3 DEF AddFeedback, At, fixed
  <1>7. GoodCall(w, agentStarted) /\ w \in AgentCalls /\ feedbackRows[t] \in SUBSET FeedbackRecords
    BY <1>1, <1>2, <1>6, InProgress DEF GoodCall
  <1>8. PICK x : x = [w EXCEPT !.edits = Tail(w.edits), !.mine = mine, !.at = at]
    OBVIOUS
  <1>9. agentCall' = [agentCall EXCEPT ![c] = x]
    BY <1>1, <1>3, <1>4, <1>5, <1>6, <1>8 DEF AddFeedback, AgentTypeInv, AgentTypes
  <1>10. w.edits \in Seq(BOOLEAN) /\ w.no \in Nat /\ w.proposal \in Nat /\ w.mine \subseteq AgentIds
    BY <1>7 DEF AgentCalls
  <1>11. Tail(w.edits) \in Seq(BOOLEAN) /\ Head(w.edits) \in BOOLEAN /\ Len(w.edits) \in Nat
    <2>1. PICK S : S = BOOLEAN
      OBVIOUS
    <2>2. w.edits \in Seq(S)
      BY <1>10, <2>1
    <2>3. Tail(w.edits) \in Seq(S) /\ Head(w.edits) \in S
      BY <1>6, <2>2, HeadTailProperties
    <2>4. Len(w.edits) \in Nat
      BY <2>2
    <2> QED
      BY <2>1, <2>3, <2>4, Zenon
  <1>12. row \in FeedbackRecords /\ row.id \in AgentIds
    BY <1>3, <1>10, <1>11 DEF FeedbackRecords, AgentIds
  <1>13. mine \subseteq AgentIds
    BY <1>4, <1>10, <1>12
  <1>14. x \in AgentCalls
    BY <1>5, <1>7, <1>8, <1>11, <1>13, SomePlaces DEF AgentCalls
  <1>15. x.at = at /\ x.no = w.no /\ x.state = w.state
    BY <1>7, <1>8 DEF AgentCalls
  <1>16. GoodCall(x, agentStarted)
    BY <1>5, <1>7, <1>14, <1>15 DEF GoodCall
  <1>17. Proceeds(c)
    BY <1>9, <1>16 DEF Proceeds
  <1>18. Stored(feedbackRows, feedbackRows', t, SUBSET FeedbackRecords)
    <2>1. PICK F : F = feedbackRows[t] \cup {row}
      OBVIOUS
    <2>2. F \in SUBSET FeedbackRecords /\ feedbackRows' = [feedbackRows EXCEPT ![t] = F]
      BY <1>6, <1>7, <1>12, <2>1
    <2> QED
      BY <2>2 DEF Stored
  <1>19. agentCall[c].at # "idle" /\ serviceLock' \subseteq serviceLock
    BY <1>1, <1>6
  <1> QED
    BY <1>1, <1>2, <1>6, <1>17, <1>18, <1>19, WorkTyped DEF Stored

\* The reads of a retrain.
LEMMA RetrainTyped ==
  ASSUME AgentTypeInv, NEW c \in AgentThreads, ReadVersions(c) \/ ReadLog(c) \/ Replay(c)
  PROVE  AgentTypeInv'
  <1>1. PICK w : w = agentCall[c]
    OBVIOUS
  <1>2. PICK t : t = w.tenant
    OBVIOUS
  <1>3. /\ agentCall[c].at # "idle"
        /\ UNCHANGED <<policyState, policyVersions, feedbackRows, agentProposals, artefacts, serviceLock, agentStarted, agentCrashed>>
    BY DEF ReadVersions, ReadLog, Replay, At, agentStore, fixed
  <1>4. /\ GoodCall(w, agentStarted) /\ w \in AgentCalls /\ t \in Learners
        /\ feedbackRows[t] \in SUBSET FeedbackRecords /\ policyVersions[t] \in Seq(VersionRecords)
    BY <1>1, <1>2, <1>3, InProgress DEF GoodCall
  <1>5. c \in DOMAIN agentCall
    BY DEF AgentTypeInv, AgentTypes
  <1>6. Proceeds(c)
    <2>1. CASE ReadVersions(c)
      <3>1. PICK version : version = NextVersion(t)
        OBVIOUS
      <3>2. version \in Nat /\ version > 0
        BY <1>4, <3>1, NextIsPositive
      <3>3. PICK x : x = [w EXCEPT !.at = "log", !.version = version]
        OBVIOUS
      <3>4. agentCall' = [agentCall EXCEPT ![c] = x]
        BY <1>1, <1>2, <1>5, <2>1, <3>1, <3>3 DEF ReadVersions
      <3>5. x \in AgentCalls /\ x.no = w.no /\ x.state = w.state /\ x.version = version
        BY <1>4, <3>2, <3>3, SomePlaces DEF AgentCalls
      <3>6. GoodCall(x, agentStarted)
        BY <1>4, <3>2, <3>5 DEF GoodCall
      <3> QED
        BY <3>4, <3>6 DEF Proceeds
    <2>2. CASE ReadLog(c)
      <3>1. PICK x : x = [w EXCEPT !.at = "replay", !.log = feedbackRows[t]]
        OBVIOUS
      <3>2. agentCall' = [agentCall EXCEPT ![c] = x] /\ w.at = "log"
        BY <1>1, <1>2, <1>5, <2>2, <3>1 DEF ReadLog, At
      <3>3. x \in AgentCalls /\ x.no = w.no /\ x.state = w.state /\ x.version = w.version
        BY <1>4, <3>1, SomePlaces DEF AgentCalls
      <3>4. GoodCall(x, agentStarted)
        BY <1>4, <3>2, <3>3 DEF GoodCall
      <3> QED
        BY <3>2, <3>4 DEF Proceeds
    <2>3. CASE Replay(c)
      <3>1. PICK used : used = {r \in w.log : r.teaches /\ r.proposal \in agentProposals[t]}
        OBVIOUS
      <3>2. PICK s : s = [version |-> w.version, learned |-> {r.id : r \in used}]
        OBVIOUS
      <3>3. /\ w.at = "replay" /\ agentCall' = [agentCall EXCEPT ![c].at = "artefact", ![c].log = {}, ![c].state = s]
        BY <1>1, <1>2, <2>3, <3>1, <3>2 DEF Replay, At
      <3>4. w.version \in Nat /\ w.version > 0 /\ w.log \subseteq FeedbackRecords
        BY <1>4, <3>3 DEF GoodCall, AgentCalls
      <3>5. {r.id : r \in used} \subseteq AgentIds
        BY <3>1, <3>4 DEF FeedbackRecords
      <3>6. s \in GoodPolicies
        BY <3>2, <3>4, <3>5 DEF GoodPolicies, AgentPolicies
      <3> QED
        BY <1>3, <3>3, <3>6, PolicyTyped, SomePlaces
    <2> QED
      BY <2>1, <2>2, <2>3
  <1> QED
    BY <1>1, <1>2, <1>3, <1>6, WorkTyped DEF Stored

LEMMA RestTyped ==
  ASSUME AgentTypeInv, CrashAgent \/ UNCHANGED agentVars
  PROVE  AgentTypeInv'
  <1>1. CASE UNCHANGED agentVars
    BY <1>1 DEF agentVars, agentStore, AgentTypeInv, AgentTypes
  <1>2. CASE CrashAgent
    <2>1. /\ agentCall' = [c \in AgentThreads |-> NoAgentCall] /\ serviceLock' = {} /\ agentCrashed' = agentCrashed + 1
          /\ UNCHANGED <<policyState, policyVersions, feedbackRows, agentProposals, artefacts, agentStarted>>
      BY <1>2 DEF CrashAgent, agentStore
    <2>2. AgentTypes'
      BY <2>1 DEF AgentTypeInv, AgentTypes
    <2> QED
      BY <2>1, <2>2 DEF AgentTypeInv
  <1> QED
    BY <1>1, <1>2

LEMMA InitTyped == AgentInit => AgentTypeInv
  <1> SUFFICES ASSUME AgentInit PROVE AgentTypeInv
    OBVIOUS
  <1>1. ColdStart \in AgentPolicies /\ ColdStart.version = 1
    BY DEF ColdStart, AgentPolicies
  <1>2. PICK r : r = Row(1, {}, FALSE)
    OBVIOUS
  <1>3. r \in VersionRecords
    BY <1>2 DEF Row, VersionRecords
  <1>4. <<>> \in Seq(VersionRecords) /\ <<r>> \in Seq(VersionRecords)
    BY <1>3
  <1>6. policyVersions \in [Learners -> Seq(VersionRecords)]
    BY <1>2, <1>4 DEF AgentInit
  <1>7. /\ policyState \in [Learners -> SUBSET AgentPolicies] /\ artefacts \in [Learners -> SUBSET AgentPolicies]
        /\ feedbackRows \in [Learners -> SUBSET FeedbackRecords] /\ agentProposals \in [Learners -> SUBSET Nat]
    BY <1>1 DEF AgentInit
  <1>8. AgentTypes
    BY <1>6, <1>7 DEF AgentInit, AgentTypes
  <1>5. \A t \in Learners : agentProposals[t] \subseteq 0..agentStarted
    BY DEF AgentInit
  <1> QED
    BY <1>1, <1>5, <1>8, AgentAssumption DEF AgentInit, AgentTypeInv

(* At every step of the agent service, in every regime: a tenant has at    *)
(* most one policy, policies and artefacts have positive versions, the     *)
(* proposals are those of calls that were made, and one thread at most     *)
(* holds the lock.                                                         *)
THEOREM AgentTyped == AgentSpec => []AgentTypeOK
  <1>1. AgentTypeInv /\ [AgentNext]_agentVars => AgentTypeInv'
    <2> SUFFICES ASSUME AgentTypeInv, [AgentNext]_agentVars PROVE AgentTypeInv'
      OBVIOUS
    <2> QED
      BY StartsTyped, LoadsTyped, PoliciesTyped, RowsTyped, FeedbackTyped, RetrainTyped, RestTyped DEF AgentNext
  <1>2. AgentTypeInv => AgentTypeOK
    <2> SUFFICES ASSUME AgentTypeInv PROVE AgentTypeOK
      OBVIOUS
    <2>1. ASSUME NEW S, \A x, y \in S : x = y PROVE Cardinality(S) <= 1
      <3>1. CASE S = {}
        BY <3>1, FS_EmptySet
      <3>2. CASE S # {}
        <4>1. PICK x : S = {x}
          BY <2>1, <3>2
        <4> QED
          BY <4>1, FS_Singleton
      <3> QED
        BY <3>1, <3>2
    <2>2. ASSUME NEW t \in Learners
          PROVE  /\ Cardinality(policyState[t]) <= 1
                 /\ \A s \in policyState[t] \cup artefacts[t] : s.version \in Nat \ {0}
                 /\ \A i \in DOMAIN policyVersions[t] : policyVersions[t][i].artefact \in BOOLEAN
                 /\ agentProposals[t] \subseteq 0..MaxAgentCalls
      <3>1. Cardinality(policyState[t]) <= 1
        BY <2>1 DEF AgentTypeInv
      <3>2. policyState[t] \cup artefacts[t] \subseteq AgentPolicies
        BY DEF AgentTypeInv, AgentTypes
      <3>3. \A s \in policyState[t] \cup artefacts[t] : s.version > 0
        BY DEF AgentTypeInv
      <3>4. \A s \in policyState[t] \cup artefacts[t] : s.version \in Nat \ {0}
        BY <3>2, <3>3 DEF AgentPolicies
      <3>5. \A i \in DOMAIN policyVersions[t] : policyVersions[t][i].artefact \in BOOLEAN
        <4>1. PICK v \in Seq(VersionRecords) : v = policyVersions[t]
          BY DEF AgentTypeInv, AgentTypes
        <4>2. \A i \in DOMAIN v : v[i] \in VersionRecords
          BY <4>1
        <4> QED
          BY <4>1, <4>2 DEF VersionRecords
      <3>6. agentProposals[t] \subseteq 0..agentStarted /\ agentStarted \in Nat /\ agentStarted <= MaxAgentCalls
        BY DEF AgentTypeInv, AgentTypes
      <3>7. agentProposals[t] \subseteq 0..MaxAgentCalls
        BY <3>6, AgentAssumption
      <3> QED
        BY <3>1, <3>4, <3>5, <3>7
    <2>3. serviceLock \subseteq AgentThreads /\ Cardinality(serviceLock) <= 1 /\ DOMAIN agentCall = AgentThreads
      BY <2>1 DEF AgentTypeInv, AgentTypes
    <2> QED
      BY <2>2, <2>3 DEF AgentTypeOK
  <1> QED
    BY InitTyped, <1>1, <1>2, PTL DEF AgentSpec

-----------------------------------------------------------------------------
(***************************************************************************)
(* The fleet migration.                                                    *)
(***************************************************************************)
\* A list of the found tenants exists, and it names each of them once.
LEMMA ListOfSet ==
  ASSUME NEW S, IsFiniteSet(S)
  PROVE  /\ SetToSeq(S) \in Seq(S)
         /\ Len(SetToSeq(S)) = Cardinality(S)
         /\ IsInjective(SetToSeq(S))
  <1>1. Cardinality(S) \in Nat /\ ExistsBijection(1..Cardinality(S), S)
    BY FS_CardinalityType
  <1>2. PICK f \in [1..Cardinality(S) -> S] : IsInjective(f)
    BY <1>1 DEF ExistsBijection, Bijection, Injection, IsInjective
  <1>3. SetToSeq(S) \in [1..Cardinality(S) -> S] /\ IsInjective(SetToSeq(S))
    BY <1>2 DEF SetToSeq
  <1> QED
    BY <1>1, <1>3

FleetOK == FleetTypeOK /\ FleetInv

LEMMA InitFleet == FleetInit => FleetOK
  BY FleetAssumption DEF FleetInit, FleetOK, FleetTypeOK, FleetInv

\* The query: every runner starts, or returns for want of items.
LEMMA ListTenantsFleet ==
  ASSUME FleetOK, ListTenants
  PROVE  FleetOK'
  <1> USE DEF FleetOK, FleetTypeOK
  <1>1. PICK found \in SUBSET Fleets, busy \in SUBSET FleetRunners :
          /\ Cardinality(busy) = IF Cardinality(found) < Cardinality(FleetRunners)
                                 THEN Cardinality(found) ELSE Cardinality(FleetRunners)
          /\ fleetList' = {SetToSeq(found)}
          /\ fleetRunner' = [r \in FleetRunners |-> IF r \in busy THEN "ready" ELSE "returned"]
    BY DEF ListTenants
  <1>2. /\ UNCHANGED <<fleetTenant, schema, fleetCursor, fleetFailures, fleetWorked, fleetExit>>
        /\ fleetExit = "none" /\ \A r \in FleetRunners : fleetRunner[r] = "absent"
    BY DEF ListTenants
  <1>3. fleetList = {}
    BY <1>2, FleetAssumption DEF FleetInv
  <1>4. IsFiniteSet(found)
    BY FleetAssumption, FS_Subset
  <1>5. PICK items : items = SetToSeq(found)
    OBVIOUS
  <1>6. items \in Seq(Fleets) /\ Len(items) = Cardinality(found) /\ IsInjective(items)
    BY <1>4, <1>5, ListOfSet
  <1>7. FleetTypeOK'
    BY <1>1, <1>2, <1>5, <1>6
  <1>8. Len(items) > 0 => \E r \in FleetRunners : fleetRunner'[r] # "returned"
    <2>1. /\ Cardinality(found) \in Nat /\ Cardinality(FleetRunners) \in Nat
          /\ Cardinality(FleetRunners) # 0
      BY <1>4, FleetAssumption, FS_CardinalityType, FS_EmptySet
    <2>2. Len(items) > 0 => busy # {}
      <3>1. busy = {} => Cardinality(busy) = 0
        BY FS_EmptySet
      <3> QED
        BY <1>1, <1>6, <2>1, <3>1
    <2> QED
      BY <1>1, <2>2
  <1>9. ListWorked(items)'
    BY <1>1, <1>2, <1>3, <1>6, FleetAssumption DEF FleetInv, ListWorked
  <1> QED
    BY <1>1, <1>2, <1>3, <1>5, <1>6, <1>7, <1>8, <1>9, FleetAssumption DEF FleetInv

\* A runner takes the item the cursor points at, which no runner has.
LEMMA TakeItemFleet ==
  ASSUME FleetOK, NEW r \in FleetRunners, TakeItem(r)
  PROVE  FleetOK'
  <1> USE DEF FleetOK, FleetTypeOK
  <1>1. PICK items \in fleetList : fleetRunner[r] = "ready"
    BY DEF TakeItem
  <1>2. fleetList = {items} /\ items \in Seq(Fleets)
    BY <1>1
  <1>3. UNCHANGED <<fleetTenant, schema, fleetList, fleetFailures, fleetExit>>
    BY DEF TakeItem
  <1>4. IsInjective(items) /\ ListWorked(items)
    BY <1>1 DEF FleetInv
  <1>5. fleetExit = "none"
    BY <1>1 DEF FleetInv
  <1>6. CASE fleetCursor < Len(items)
    <2>1. PICK t : t = items[fleetCursor + 1]
      OBVIOUS
    <2>2. /\ fleetCursor' = fleetCursor + 1
          /\ fleetRunner' = [fleetRunner EXCEPT ![r] = t]
          /\ fleetWorked' = [fleetWorked EXCEPT ![t] = @ + 1]
      BY <1>2, <1>6, <2>1 DEF TakeItem
    <2>3. t \in Fleets /\ \A i \in 1..Len(items) : items[i] = t => i = fleetCursor + 1
      BY <1>2, <1>4, <1>6, <2>1 DEF IsInjective
    <2>4. \A q \in FleetRunners : fleetRunner[q] # t
      BY <1>2, <1>4, <2>3 DEF ListWorked
    <2>5. FleetTypeOK'
      BY <1>3, <2>2, <2>3
    <2>6. t \notin fleetFailures
      BY <1>2, <1>4, <1>6, <2>1 DEF ListWorked
    <2>7. ListWorked(items)'
      <3>1. \A u \in Fleets : Reported(u)' <=> Reported(u)
        BY <1>3 DEF Reported
      <3>2. \A i \in 1..Len(items) : items[i] \in Fleets /\ (items[i] = t <=> i = fleetCursor + 1)
        BY <1>2, <2>1, <2>3
      <3>3. \A q \in FleetRunners : fleetRunner'[q] = IF q = r THEN t ELSE fleetRunner[q]
        BY <2>2
      <3>4. fleetCursor' <= Len(items)
        BY <1>2, <1>6, <2>2
      <3>5. ASSUME NEW i \in 1..Len(items)
            PROVE  /\ fleetWorked'[items[i]] = IF i <= fleetCursor' THEN 1 ELSE 0
                   /\ i > fleetCursor' => items[i] \notin fleetFailures'
        BY <1>3, <1>4, <2>2, <3>2 DEF ListWorked
      <3>6. ASSUME NEW i \in 1..Len(items), i <= fleetCursor', ~Reported(items[i])'
            PROVE  \E q \in FleetRunners : fleetRunner'[q] = items[i]
        <4>1. CASE i = fleetCursor + 1
          BY <3>2, <3>3, <4>1
        <4>2. CASE i # fleetCursor + 1
          <5>1. i <= fleetCursor /\ ~Reported(items[i])
            BY <2>2, <3>1, <3>2, <3>6, <4>2
          <5>2. PICK q \in FleetRunners : fleetRunner[q] = items[i]
            BY <1>4, <5>1 DEF ListWorked
          <5>3. q # r
            BY <1>1, <3>2, <5>2, FleetAssumption
          <5> QED
            BY <3>3, <5>2, <5>3
        <4> QED
          BY <4>1, <4>2
      <3>7. ASSUME NEW q \in FleetRunners, fleetRunner'[q] \in Fleets
            PROVE  /\ \E i \in 1..fleetCursor' : fleetRunner'[q] = items[i]
                   /\ fleetRunner'[q] \notin fleetFailures'
        <4>1. CASE q = r
          BY <1>3, <1>6, <2>1, <2>2, <2>6, <3>3, <4>1
        <4>2. CASE q # r
          BY <1>3, <1>4, <2>2, <3>3, <3>7, <4>2 DEF ListWorked
        <4> QED
          BY <4>1, <4>2
      <3> QED
        BY <3>4, <3>5, <3>6, <3>7 DEF ListWorked
    <2> QED
      BY <1>2, <1>3, <1>4, <1>5, <2>2, <2>3, <2>4, <2>5, <2>7, FleetAssumption DEF FleetInv
  <1>7. CASE ~(fleetCursor < Len(items))
    <2>1. /\ fleetRunner' = [fleetRunner EXCEPT ![r] = "returned"]
          /\ UNCHANGED <<fleetCursor, fleetWorked>>
      BY <1>2, <1>7 DEF TakeItem
    <2>2. \A q \in FleetRunners : /\ fleetRunner'[q] = IF q = r THEN "returned" ELSE fleetRunner[q]
                                 /\ fleetRunner[q] \in Fleets => q # r
      BY <1>1, <2>1, FleetAssumption
    <2>3. "returned" \notin Fleets /\ \A i \in 1..Len(items) : items[i] \in Fleets
      BY <1>2, FleetAssumption
    <2>4. \A u : Reported(u)' <=> Reported(u)
      BY <1>3 DEF Reported
    <2>5. ListWorked(items)'
      BY <1>3, <1>4, <2>1, <2>2, <2>3, <2>4 DEF ListWorked
    <2> QED
      BY <1>2, <1>3, <1>4, <1>5, <1>7, <2>1, <2>5, FleetAssumption DEF FleetInv
  <1> QED
    BY <1>6, <1>7

\* A runner reports the tenant in its hands, and looks for the next item.
LEMMA WorkedFleet ==
  ASSUME FleetOK, NEW r \in FleetRunners, MigrateTenant(r) \/ MigrationFails(r)
  PROVE  FleetOK'
  <1> USE DEF FleetOK, FleetTypeOK
  <1>1. PICK t \in Fleets : t = fleetRunner[r]
    BY DEF MigrateTenant, MigrationFails
  <1>2. /\ UNCHANGED <<fleetTenant, fleetList, fleetCursor, fleetWorked, fleetExit>>
        /\ fleetRunner' = [fleetRunner EXCEPT ![r] = "ready"]
    BY DEF MigrateTenant, MigrationFails
  <1>3. \/ schema' = [schema EXCEPT ![t] = "new"] /\ fleetFailures' = fleetFailures
        \/ schema' = [schema EXCEPT ![t] = "broken"] /\ fleetFailures' = fleetFailures \cup {t}
    BY <1>1 DEF MigrateTenant, MigrationFails
  <1>4. \A q \in FleetRunners : fleetRunner[q] = t => q = r
    BY <1>1 DEF FleetInv
  <1>5. fleetExit = "none" /\ fleetList # {}
    BY <1>1, FleetAssumption DEF FleetInv
  <1>6. ASSUME NEW items \in fleetList PROVE ListWorked(items)'
    <2>1. ListWorked(items) /\ items \in Seq(Fleets) /\ t \notin fleetFailures
      BY <1>1 DEF FleetInv, ListWorked
    <2>2. Reported(t)'
      BY <1>3, <2>1 DEF Reported
    <2>3. \A u \in Fleets : Reported(u) /\ u # t => Reported(u)'
      BY <1>3 DEF Reported
    <2>4. \A q \in FleetRunners : fleetRunner'[q] \in Fleets => q # r /\ fleetRunner'[q] = fleetRunner[q]
      BY <1>2, FleetAssumption
    <2>5. ASSUME NEW i \in 1..Len(items), i <= fleetCursor, ~Reported(items[i])'
          PROVE  \E q \in FleetRunners : fleetRunner'[q] = items[i]
      <3>1. items[i] # t /\ ~Reported(items[i]) /\ items[i] \in Fleets
        BY <2>1, <2>2, <2>3, <2>5
      <3>2. PICK q \in FleetRunners : fleetRunner[q] = items[i]
        BY <2>1, <2>5, <3>1 DEF ListWorked
      <3> QED
        BY <1>1, <1>2, <3>1, <3>2
    <2>6. ASSUME NEW i \in 1..Len(items)
          PROVE  /\ fleetWorked'[items[i]] = IF i <= fleetCursor' THEN 1 ELSE 0
                 /\ i > fleetCursor' => items[i] \notin fleetFailures'
      <3>1. PICK j \in 1..fleetCursor : t = items[j]
        BY <1>1, <2>1 DEF ListWorked
      <3>2. i > fleetCursor => items[i] # t
        BY <2>1, <3>1 DEF ListWorked, IsInjective, FleetInv
      <3> QED
        BY <1>2, <1>3, <2>1, <3>2 DEF ListWorked
    <2>7. ASSUME NEW q \in FleetRunners, fleetRunner'[q] \in Fleets
          PROVE  /\ \E i \in 1..fleetCursor' : fleetRunner'[q] = items[i]
                 /\ fleetRunner'[q] \notin fleetFailures'
      <3>1. q # r /\ fleetRunner'[q] = fleetRunner[q] /\ fleetRunner[q] # t
        BY <1>4, <2>4, <2>7
      <3> QED
        BY <1>2, <1>3, <2>1, <2>7, <3>1 DEF ListWorked
    <2>8. fleetCursor' <= Len(items)
      BY <1>2, <2>1 DEF ListWorked
    <2> QED
      BY <1>2, <2>5, <2>6, <2>7, <2>8 DEF ListWorked
  <1>7. FleetTypeOK'
    BY <1>2, <1>3
  <1> QED
    BY <1>2, <1>4, <1>5, <1>6, <1>7, FleetAssumption DEF FleetInv

\* The script ends when every runner has returned.
LEMMA ExitFleetFleet ==
  ASSUME FleetOK, ExitFleet
  PROVE  FleetOK'
  <1>1. fleetList # {}
    BY FleetAssumption DEF FleetOK, FleetInv, ExitFleet
  <1> QED
    BY <1>1 DEF FleetOK, FleetTypeOK, FleetInv, ExitFleet, ListWorked, Reported

LEMMA NextFleet ==
  ASSUME FleetOK, [FleetNext]_fleetVars
  PROVE  FleetOK'
  <1>1. CASE UNCHANGED fleetVars
    BY <1>1 DEF fleetVars, FleetOK, FleetTypeOK, FleetInv, ListWorked, Reported
  <1>2. ASSUME NEW t \in Fleets, ActivateTenant(t) PROVE FleetOK'
    BY <1>2 DEF ActivateTenant, FleetOK, FleetTypeOK, FleetInv, ListWorked, Reported
  <1> QED
    BY <1>1, <1>2, ListTenantsFleet, TakeItemFleet, WorkedFleet, ExitFleetFleet DEF FleetNext

\* The runners share the list without losing or repeating an item.
THEOREM FleetCorrect == FleetSpec => [](FleetTypeOK /\ FleetInv)
  <1>1. FleetOK /\ [FleetNext]_fleetVars => FleetOK'
    BY NextFleet
  <1>2. FleetOK <=> FleetTypeOK /\ FleetInv
    BY DEF FleetOK
  <1> QED
    BY InitFleet, <1>1, <1>2, PTL DEF FleetSpec

\* When the migration script exits, every tenant of its list was worked on
\* exactly once and has the new schema or is reported.
THEOREM FleetReportIsTrue == FleetSpec => []ExitIsHonest
  <1>1. FleetTypeOK /\ FleetInv => ExitIsHonest
    <2> SUFFICES ASSUME FleetTypeOK, FleetInv, fleetExit # "none",
                        NEW items \in fleetList, NEW t \in ToSet(items)
                 PROVE  /\ fleetWorked[t] = 1
                        /\ schema[t] = IF t \in fleetFailures THEN "broken" ELSE "new"
                        /\ fleetExit = "ok" => schema[t] = "new"
      BY DEF ExitIsHonest
    <2>1. items \in Seq(Fleets) /\ ListWorked(items) /\ fleetCursor \in Nat
      BY DEF FleetTypeOK, FleetInv
    <2>2. PICK i \in 1..Len(items) : t = items[i]
      BY <2>1 DEF ToSet
    <2>3. \A r \in FleetRunners : fleetRunner[r] = "returned"
      BY DEF FleetInv
    <2>4. ~(fleetCursor < Len(items))
      BY <2>3 DEF FleetInv
    <2>5. i <= fleetCursor /\ t \in Fleets /\ t # "returned"
      BY <2>1, <2>2, <2>4, FleetAssumption
    <2>6. Reported(t) /\ fleetWorked[t] = 1
      BY <2>1, <2>2, <2>3, <2>5 DEF ListWorked
    <2> QED
      BY <2>6 DEF Reported, FleetInv
  <1> QED
    BY <1>1, FleetCorrect, PTL

(***************************************************************************)
(* The client cache.  First what the LRU's sequence operations do to the   *)
(* set of cached clients, then what a disposal does to the sockets.        *)
(***************************************************************************)
\* Each tenant, and each client, is at one place of the sequence.
TenantsApart(s) == \A i, j \in DOMAIN s : s[i][1] = s[j][1] => i = j
ClientsApart(s) == \A i, j \in DOMAIN s : s[i][2] = s[j][2] => i = j
HasClient(s, k) == \E i \in DOMAIN s : s[i][2] = k

EntryType == CacheTenants \X Clients

LEMMA RemoveAtSeq ==
  ASSUME NEW S, NEW s \in Seq(S), NEW c \in 1..Len(s)
  PROVE  /\ RemoveAt(s, c) \in Seq(S)
         /\ Len(RemoveAt(s, c)) = Len(s) - 1
         /\ \A i \in 1..(Len(s) - 1) : RemoveAt(s, c)[i] = IF i < c THEN s[i] ELSE s[i + 1]
  <1>1. Len(s) \in Nat /\ \A i \in 1..Len(s) : s[i] \in S
    BY LenProperties, ElementOfSeq
  <1>2. PICK a : a = SubSeq(s, 1, c - 1)
    OBVIOUS
  <1>3. PICK b : b = SubSeq(s, c + 1, Len(s))
    OBVIOUS
  <1>4. a \in Seq(S) /\ Len(a) = c - 1 /\ \A i \in 1..(c - 1) : a[i] = s[i]
    BY <1>1, <1>2, SubSeqProperties
  <1>5. /\ b \in Seq(S) /\ Len(b) = Len(s) - c
        /\ \A i \in 1..(Len(s) - c) : b[i] = s[c + i]
    BY <1>1, <1>3, SubSeqProperties
  <1>6. /\ a \o b \in Seq(S) /\ Len(a \o b) = Len(a) + Len(b)
        /\ \A i \in 1..(Len(a) + Len(b)) : (a \o b)[i] = IF i <= Len(a) THEN a[i] ELSE b[i - Len(a)]
    BY <1>4, <1>5, ConcatProperties
  <1>7. PICK r : r = a \o b
    OBVIOUS
  <1>8. r \in Seq(S) /\ Len(r) = Len(s) - 1
    BY <1>1, <1>4, <1>5, <1>6, <1>7
  <1>9. ASSUME NEW i \in 1..(Len(s) - 1) PROVE r[i] = IF i < c THEN s[i] ELSE s[i + 1]
    <2>1. CASE i < c
      BY <1>1, <1>4, <1>5, <1>6, <1>7, <2>1
    <2>2. CASE ~(i < c)
      <3>1. i - (c - 1) \in 1..(Len(s) - c) /\ c + (i - (c - 1)) = i + 1
        BY <1>1, <2>2
      <3>2. r[i] = b[i - (c - 1)]
        BY <1>1, <1>4, <1>5, <1>6, <1>7, <2>2
      <3> QED
        BY <1>5, <2>2, <3>1, <3>2
    <2> QED
      BY <2>1, <2>2
  <1> QED
    BY <1>2, <1>3, <1>7, <1>8, <1>9 DEF RemoveAt

\* Taking one entry out of a sequence of entries.
LEMMA WithoutEntry ==
  ASSUME NEW s \in Seq(EntryType), TenantsApart(s), ClientsApart(s),
         NEW c \in 1..Len(s), NEW w, w = RemoveAt(s, c)
  PROVE  /\ w \in Seq(EntryType) /\ Len(w) = Len(s) - 1
         /\ TenantsApart(w) /\ ClientsApart(w)
         /\ \A i \in 1..Len(w) : w[i][1] # s[c][1]
         /\ \A k \in Clients : HasClient(w, k) <=> HasClient(s, k) /\ k # s[c][2]
  <1>1. /\ w \in Seq(EntryType) /\ Len(w) = Len(s) - 1
        /\ \A i \in 1..(Len(s) - 1) : w[i] = IF i < c THEN s[i] ELSE s[i + 1]
    BY RemoveAtSeq
  <1>2. Len(s) \in Nat /\ DOMAIN s = 1..Len(s) /\ DOMAIN w = 1..(Len(s) - 1)
    BY <1>1, LenProperties
  <1>3. ASSUME NEW i \in 1..(Len(s) - 1)
        PROVE  \E j \in 1..Len(s) : j # c /\ w[i] = s[j] /\ j = IF i < c THEN i ELSE i + 1
    <2>1. CASE i < c
      BY <1>1, <1>2, <2>1
    <2>2. CASE ~(i < c)
      BY <1>1, <1>2, <2>2
    <2> QED
      BY <2>1, <2>2
  <1>4. ASSUME NEW j \in 1..Len(s), j # c PROVE \E i \in 1..(Len(s) - 1) : w[i] = s[j]
    <2>1. CASE j < c
      BY <1>1, <1>2, <2>1
    <2>2. CASE j > c
      <3>1. j - 1 \in 1..(Len(s) - 1) /\ ~(j - 1 < c) /\ (j - 1) + 1 = j
        BY <1>2, <2>2
      <3>2. w[j - 1] = s[j]
        BY <1>1, <3>1
      <3> QED
        BY <3>1, <3>2
    <2> QED
      BY <1>2, <1>4, <2>1, <2>2
  <1>5. ASSUME NEW i \in 1..(Len(s) - 1), NEW m \in 1..(Len(s) - 1),
               w[i][1] = w[m][1] \/ w[i][2] = w[m][2]
        PROVE  i = m
    <2>1. PICK j \in 1..Len(s) : w[i] = s[j] /\ j = IF i < c THEN i ELSE i + 1
      BY <1>3
    <2>2. PICK n \in 1..Len(s) : w[m] = s[n] /\ n = IF m < c THEN m ELSE m + 1
      BY <1>3
    <2>3. j = n
      BY <1>2, <1>5, <2>1, <2>2 DEF TenantsApart, ClientsApart
    <2> QED
      BY <1>2, <2>1, <2>2, <2>3
  <1>6. ASSUME NEW i \in 1..(Len(s) - 1) PROVE w[i][1] # s[c][1] /\ w[i][2] # s[c][2]
    BY <1>2, <1>3 DEF TenantsApart, ClientsApart
  <1>7. ASSUME NEW k \in Clients PROVE HasClient(w, k) <=> HasClient(s, k) /\ k # s[c][2]
    <2>1. ASSUME HasClient(w, k) PROVE HasClient(s, k) /\ k # s[c][2]
      <3>1. PICK i \in 1..(Len(s) - 1) : w[i][2] = k
        BY <1>2, <2>1 DEF HasClient
      <3> QED
        BY <1>2, <1>3, <1>6, <3>1 DEF HasClient
    <2>2. ASSUME HasClient(s, k), k # s[c][2] PROVE HasClient(w, k)
      <3>1. PICK j \in 1..Len(s) : s[j][2] = k /\ j # c
        BY <1>2, <2>2 DEF HasClient
      <3>2. PICK i \in 1..(Len(s) - 1) : w[i] = s[j]
        BY <1>4, <3>1
      <3> QED
        BY <1>2, <3>1, <3>2 DEF HasClient
    <2> QED
      BY <2>1, <2>2
  <1> QED
    BY <1>1, <1>2, <1>5, <1>6, <1>7 DEF TenantsApart, ClientsApart

\* cache.delete takes the entry of the tenant and nothing else.
LEMMA WithoutTenant ==
  ASSUME CacheTypeOK, SocketsAccounted, NEW t \in CacheTenants, NEW w, w = CacheWithout(t)
  PROVE  /\ w \in Seq(EntryType) /\ Len(w) <= Len(lru)
         /\ TenantsApart(w) /\ ClientsApart(w)
         /\ \A i \in 1..Len(w) : w[i][1] # t
         /\ \A k \in Clients : HasClient(w, k) <=> Cached(k) /\ k \notin Held(t)
         /\ Held(t) = {} \/ \E k \in Clients : Held(t) = {k} /\ Cached(k)
         /\ Entry(t) = {} <=> Held(t) = {}
         /\ Entry(t) # {} => Len(w) = Len(lru) - 1
  <1>1. lru \in Seq(EntryType) /\ TenantsApart(lru) /\ ClientsApart(lru)
    BY DEF CacheTypeOK, SocketsAccounted, TenantsApart, ClientsApart, EntryType
  <1>2. Len(lru) \in Nat /\ DOMAIN lru = 1..Len(lru) /\ \A i \in 1..Len(lru) : lru[i] \in EntryType
    BY <1>1, LenProperties, ElementOfSeq
  <1>3. \A k : Cached(k) <=> HasClient(lru, k)
    BY DEF Cached, HasClient
  <1>4. CASE Entry(t) = {}
    <2>1. w = lru /\ Held(t) = {} /\ \A i \in 1..Len(lru) : lru[i][1] # t
      BY <1>2, <1>4 DEF CacheWithout, Entry, Held
    <2> QED
      BY <1>1, <1>2, <1>3, <1>4, <2>1
  <1>5. CASE Entry(t) # {}
    <2>1. PICK c \in 1..Len(lru) : lru[c][1] = t /\ w = RemoveAt(lru, c)
      BY <1>2, <1>5 DEF CacheWithout, Entry
    <2>2. Held(t) = {lru[c][2]}
      <3>1. Entry(t) = {c}
        BY <1>1, <1>2, <2>1 DEF Entry, TenantsApart
      <3> QED
        BY <3>1 DEF Held
    <2>3. lru[c][2] \in Clients /\ Cached(lru[c][2])
      BY <1>2 DEF EntryType, Cached
    <2>4. /\ w \in Seq(EntryType) /\ Len(w) = Len(lru) - 1
          /\ TenantsApart(w) /\ ClientsApart(w)
          /\ \A i \in 1..Len(w) : w[i][1] # lru[c][1]
          /\ \A k \in Clients : HasClient(w, k) <=> HasClient(lru, k) /\ k # lru[c][2]
      BY <1>1, <2>1, WithoutEntry
    <2>5. \A k \in Clients : HasClient(w, k) <=> Cached(k) /\ k \notin Held(t)
      BY <1>3, <2>2, <2>4
    <2>6. \E k \in Clients : Held(t) = {k} /\ Cached(k)
      BY <2>2, <2>3
    <2>7. Held(t) # {}
      BY <2>2
    <2>8. Len(w) <= Len(lru) /\ \A i \in 1..Len(w) : w[i][1] # t
      BY <1>2, <2>1, <2>4
    <2> QED
      BY <1>5, <2>4, <2>5, <2>6, <2>7, <2>8
  <1> QED
    BY <1>4, <1>5

\* cache.set puts an entry at the young end.
LEMMA WithEntry ==
  ASSUME NEW w \in Seq(EntryType), TenantsApart(w), ClientsApart(w),
         NEW t \in CacheTenants, \A i \in 1..Len(w) : w[i][1] # t,
         NEW k \in Clients, ~HasClient(w, k), NEW v, v = Append(w, <<t, k>>)
  PROVE  /\ v \in Seq(EntryType) /\ Len(v) = Len(w) + 1 /\ v[Len(v)] = <<t, k>>
         /\ TenantsApart(v) /\ ClientsApart(v)
         /\ \A c \in Clients : HasClient(v, c) <=> HasClient(w, c) \/ c = k
  <1>1. <<t, k>> \in EntryType
    BY DEF EntryType
  <1>2. /\ v \in Seq(EntryType) /\ Len(v) = Len(w) + 1 /\ v[Len(w) + 1] = <<t, k>>
        /\ \A i \in 1..Len(w) : v[i] = w[i]
    BY <1>1, AppendProperties
  <1>3. Len(w) \in Nat /\ DOMAIN w = 1..Len(w) /\ DOMAIN v = 1..(Len(w) + 1)
    BY <1>2, LenProperties
  <1> QED
    BY <1>2, <1>3 DEF TenantsApart, ClientsApart, HasClient

\* An eviction takes the oldest entry.
LEMMA WithoutOldest ==
  ASSUME NEW v \in Seq(EntryType), Len(v) > 0, TenantsApart(v), ClientsApart(v),
         NEW r, r = Tail(v)
  PROVE  /\ r \in Seq(EntryType) /\ Len(r) = Len(v) - 1
         /\ TenantsApart(r) /\ ClientsApart(r)
         /\ Head(v) \in EntryType /\ HasClient(v, Head(v)[2])
         /\ \A c \in Clients : HasClient(r, c) <=> HasClient(v, c) /\ c # Head(v)[2]
  <1>0. v # <<>>
    BY EmptySeq
  <1>1. /\ r \in Seq(EntryType) /\ Len(r) = Len(v) - 1 /\ Head(v) \in EntryType
        /\ \A i \in 1..(Len(v) - 1) : r[i] = v[i + 1]
    BY <1>0, HeadTailProperties
  <1>2. Len(v) \in Nat /\ DOMAIN v = 1..Len(v) /\ DOMAIN r = 1..(Len(v) - 1)
    BY <1>1, LenProperties
  <1>3. Head(v) = v[1]
    BY <1>0, <1>2
  <1>4. ASSUME NEW c \in Clients, HasClient(v, c), c # v[1][2] PROVE HasClient(r, c)
    <2>1. PICK i \in 1..Len(v) : v[i][2] = c /\ i # 1
      BY <1>2, <1>4 DEF HasClient
    <2>2. i - 1 \in 1..(Len(v) - 1) /\ r[i - 1] = v[i]
      BY <1>1, <1>2, <2>1
    <2> QED
      BY <1>2, <2>1, <2>2 DEF HasClient
  <1>5. ASSUME NEW c \in Clients, HasClient(r, c) PROVE HasClient(v, c) /\ c # v[1][2]
    <2>1. PICK i \in 1..(Len(v) - 1) : r[i][2] = c
      BY <1>2, <1>5 DEF HasClient
    <2>2. i + 1 \in 1..Len(v) /\ v[i + 1][2] = c
      BY <1>1, <1>2, <2>1
    <2> QED
      BY <1>2, <2>2 DEF HasClient, ClientsApart
  <1>6. TenantsApart(r) /\ ClientsApart(r)
    <2>1. ASSUME NEW i \in 1..(Len(v) - 1), NEW m \in 1..(Len(v) - 1),
                 r[i][1] = r[m][1] \/ r[i][2] = r[m][2]
          PROVE  i = m
      <3>1. i + 1 \in 1..Len(v) /\ m + 1 \in 1..Len(v)
        BY <1>2
      <3>2. i + 1 = m + 1
        BY <1>1, <1>2, <2>1, <3>1 DEF TenantsApart, ClientsApart
      <3> QED
        BY <3>2
    <2> QED
      BY <1>2, <2>1 DEF TenantsApart, ClientsApart
  <1>7. HasClient(v, v[1][2])
    BY <1>0, <1>2 DEF HasClient
  <1> QED
    BY <1>1, <1>3, <1>4, <1>5, <1>6, <1>7

SocketStates == {"opening", "open", "closed"}

BorrowType == [at : {"idle", "waiting", "granted", "using"},
               tenant : CacheTenants \cup {0}, client : 0..MaxOpened]

CacheOK == CacheTypeOK /\ CacheInv

\* The client of a request in progress counts that request among its leases.
LEMMA UsingIsLeased ==
  ASSUME CacheTypeOK, SocketsAccounted, NEW b \in Borrowers, borrower[b].at = "using"
  PROVE  borrower[b].client \in Clients /\ leases[borrower[b].client] > 0
  <1>1. borrower[b].client \in Clients
    BY DEF CacheTypeOK, SocketsAccounted, Clients
  <1>2. PICK k \in Clients : k = borrower[b].client
    BY <1>1
  <1>3. b \in Leasing(k) /\ Leasing(k) \subseteq Borrowers /\ leases[k] = Cardinality(Leasing(k))
    BY <1>2 DEF Leasing, CacheTypeOK
  <1>4. IsFiniteSet(Leasing(k))
    BY <1>3, CacheAssumption, FS_Subset
  <1>5. Cardinality(Leasing(k)) \in Nat /\ Cardinality(Leasing(k)) # 0
    BY <1>3, <1>4, FS_CardinalityType, FS_EmptySet
  <1> QED
    BY <1>1, <1>2, <1>3, <1>5

\* A client with leases is the client of some request in progress.
LEMMA LeasedIsUsed ==
  ASSUME CacheTypeOK, NEW k \in Clients, leases[k] > 0
  PROVE  \E b \in Borrowers : borrower[b].at = "using" /\ borrower[b].client = k
  <1>1. leases[k] = Cardinality(Leasing(k)) /\ leases[k] \in Nat
    BY DEF CacheTypeOK
  <1>2. Leasing(k) # {}
    BY <1>1, FS_EmptySet
  <1> QED
    BY <1>2 DEF Leasing

\* As long as nobody starts or stops using a client, the counts are right.
LEMMA LeasesSame ==
  ASSUME CacheTypeOK, leases' = leases,
         \A b \in Borrowers : /\ borrower'[b].at = "using" <=> borrower[b].at = "using"
                              /\ borrower[b].at = "using" => borrower'[b].client = borrower[b].client
  PROVE  \A k \in Clients : leases'[k] = Cardinality(Leasing(k)')
  <1>1. \A k \in Clients : Leasing(k)' = Leasing(k)
    BY DEF Leasing
  <1> QED
    BY <1>1 DEF CacheTypeOK

\* disposeClient: what leaves the cache is closed, or put off for its borrowers.
LEMMA Disposed ==
  ASSUME CacheTypeOK, SocketsAccounted,
         NEW gone \in SUBSET Clients, \A k \in gone : Cached(k),
         NEW s \in Seq(SocketStates), Len(s) <= MaxOpened, Len(socket) <= Len(s),
         \A k \in 1..Len(socket) :
            s[k] = socket[k] \/ (socket[k] = "opening" /\ s[k] = "open" /\ Cached(k)'),
         \A k \in 1..Len(s) : k > Len(socket) => s[k] = "opening",
         DisposeAll(gone, s), leases' = leases,
         ClientsApart(lru'),
         \A k \in Clients : Cached(k)' =>
            k \notin gone /\ (Cached(k) \/ (k <= Len(s) /\ s[k] = "open" /\ k \notin deferred)),
         \A k \in Clients : Cached(k) /\ k \notin gone => Cached(k)',
         \A b \in Borrowers : borrower'[b].at \in {"granted", "using"} =>
            borrower'[b].client \in 1..Len(s) /\ s[borrower'[b].client] # "opening"
  PROVE  /\ SocketsAccounted'
         /\ socket' \in Seq(SocketStates) /\ Len(socket') = Len(s)
         /\ deferred' \subseteq 1..Len(socket')
         /\ \A k \in 1..Len(socket) : socket[k] = "open" /\ leases[k] > 0 => socket'[k] = "open"
  <1>1. PICK used \in SUBSET gone :
          /\ \A k \in gone : k \in used <=> leases[k] > 0
          /\ socket' = [k \in DOMAIN s |-> IF k \in gone \ used THEN "closed" ELSE s[k]]
          /\ deferred' = deferred \cup used
    BY DEF DisposeAll
  <1>2. Len(s) \in Nat /\ DOMAIN s = 1..Len(s) /\ \A k \in 1..Len(s) : s[k] \in SocketStates
    BY LenProperties, ElementOfSeq
  <1>3. Len(socket) \in Nat /\ Len(socket) <= MaxOpened /\ MaxOpened \in Nat
    BY CacheAssumption, LenProperties DEF CacheTypeOK
  <1>4. socket' \in [1..Len(s) -> SocketStates]
    BY <1>1, <1>2 DEF SocketStates
  <1>5. socket' \in Seq(SocketStates) /\ Len(socket') = Len(s)
    BY <1>2, <1>4, SeqDef
  <1>6. \A k \in 1..Len(s) : socket'[k] = IF k \in gone \ used THEN "closed" ELSE s[k]
    BY <1>1, <1>2
  <1>7. \A k \in gone : k \in 1..Len(socket) /\ socket[k] = "open" /\ s[k] = "open" /\ k \notin deferred
    BY <1>3 DEF SocketsAccounted, Clients
  <1>8. \A k \in Clients : Cached(k)' => k <= Len(s) /\ socket'[k] = "open"
    <2>1. ASSUME NEW k \in Clients, Cached(k)' PROVE k \in 1..Len(s) /\ s[k] = "open" /\ k \notin gone
      BY <1>2, <1>3, <2>1 DEF SocketsAccounted, Clients
    <2> QED
      BY <1>2, <1>6, <2>1
  <1>9. \A k \in deferred : k \in 1..Len(socket) /\ s[k] = socket[k] /\ socket[k] # "opening" /\ ~Cached(k)'
    <2>1. ASSUME NEW k \in deferred PROVE k \in 1..Len(socket) /\ k \in Clients
      BY <1>3 DEF CacheTypeOK, Clients
    <2> QED
      BY <2>1 DEF SocketsAccounted
  <1>10. \A k \in deferred' : socket'[k] # "opening" /\ ~Cached(k)' /\ k \in 1..Len(s)
    <2>1. ASSUME NEW k \in deferred PROVE socket'[k] # "opening" /\ k \in 1..Len(s)
      BY <1>2, <1>3, <1>6, <1>9
    <2>2. ASSUME NEW k \in used PROVE socket'[k] # "opening" /\ ~Cached(k)' /\ k \in 1..Len(s)
      BY <1>2, <1>3, <1>6, <1>7
    <2> QED
      BY <1>1, <1>9, <2>1, <2>2
  <1>11. ASSUME NEW k \in 1..Len(s), socket'[k] = "open"
         PROVE  Cached(k)' \/ (k \in deferred' /\ leases'[k] > 0)
    <2>1. s[k] = "open" /\ k \notin gone \ used /\ k \in 1..Len(socket) /\ k \in Clients
      BY <1>2, <1>3, <1>6, <1>11 DEF Clients
    <2>2. CASE socket[k] = "open"
      BY <1>1, <2>1, <2>2 DEF SocketsAccounted
    <2>3. CASE socket[k] # "open"
      BY <2>1, <2>3
    <2> QED
      BY <2>2, <2>3
  <1>12. \A b \in Borrowers : borrower'[b].at \in {"granted", "using"} =>
            borrower'[b].client \in 1..Len(s) /\ socket'[borrower'[b].client] # "opening"
    BY <1>6
  <1>13. \A k \in 1..Len(socket) : socket[k] = "open" /\ leases[k] > 0 => socket'[k] = "open"
    <2>1. ASSUME NEW k \in 1..Len(socket), socket[k] = "open", leases[k] > 0
          PROVE  k \in 1..Len(s) /\ s[k] = "open" /\ k \notin gone \ used
      BY <1>1, <1>2, <1>3, <2>1
    <2> QED
      BY <1>6, <2>1
  <1> QED
    BY <1>5, <1>8, <1>10, <1>11, <1>12, <1>13 DEF SocketsAccounted, ClientsApart

\* The types of the cache's variables, one fact each, and back.
LEMMA CacheParts ==
  ASSUME CacheTypeOK
  PROVE  /\ lru \in Seq(EntryType) /\ Len(lru) \in Nat /\ Len(lru) <= MaxClients /\ TenantsApart(lru)
         /\ socket \in Seq(SocketStates) /\ Len(socket) \in Nat /\ Len(socket) <= MaxOpened
         /\ DOMAIN socket = 1..Len(socket) /\ 1..Len(socket) \subseteq Clients
         /\ inflight \in [CacheTenants -> 0..Len(socket)]
         /\ borrower \in [Borrowers -> BorrowType]
         /\ deferred \subseteq 1..Len(socket)
         /\ leases \in [Clients -> Nat]
         /\ MaxOpened \in Nat /\ MaxClients \in Nat \ {0}
  <1>1. MaxOpened \in Nat /\ MaxClients \in Nat \ {0}
    BY CacheAssumption
  <1>2. lru \in Seq(EntryType) /\ Len(lru) <= MaxClients /\ TenantsApart(lru)
    BY DEF CacheTypeOK, EntryType, TenantsApart
  <1>3. socket \in Seq(SocketStates) /\ Len(socket) <= MaxOpened
    BY DEF CacheTypeOK, SocketStates
  <1>4. Len(lru) \in Nat /\ Len(socket) \in Nat /\ DOMAIN socket = 1..Len(socket)
    BY <1>2, <1>3, LenProperties
  <1>5. 1..Len(socket) \subseteq Clients
    BY <1>1, <1>3, <1>4 DEF Clients
  <1>6. /\ inflight \in [CacheTenants -> 0..Len(socket)]
        /\ borrower \in [Borrowers -> BorrowType]
        /\ deferred \subseteq 1..Len(socket)
        /\ leases \in [Clients -> Nat]
    BY DEF CacheTypeOK, BorrowType
  <1> QED
    BY <1>1, <1>2, <1>3, <1>4, <1>5, <1>6

LEMMA CacheTyped ==
  ASSUME lru' \in Seq(EntryType), Len(lru') <= MaxClients, TenantsApart(lru'),
         socket' \in Seq(SocketStates), Len(socket') <= MaxOpened,
         inflight' \in [CacheTenants -> 0..Len(socket')],
         borrower' \in [Borrowers -> BorrowType],
         deferred' \subseteq 1..Len(socket'),
         leases' \in [Clients -> Nat],
         \A k \in Clients : leases'[k] = Cardinality(Leasing(k)'),
         cacheDown' \in BOOLEAN, cacheGap' \in BOOLEAN
  PROVE  CacheTypeOK'
  <1>1. lru' \in Seq(CacheTenants \X Clients) /\ \A i, j \in DOMAIN lru' : lru'[i][1] = lru'[j][1] => i = j
    BY DEF EntryType, TenantsApart
  <1>2. socket' \in Seq({"opening", "open", "closed"})
    BY DEF SocketStates
  <1>3. borrower' \in [Borrowers -> [at : {"idle", "waiting", "granted", "using"},
                                     tenant : CacheTenants \cup {0}, client : 0..MaxOpened]]
    BY DEF BorrowType
  <1> QED
    BY <1>1, <1>2, <1>3 DEF CacheTypeOK

\* A step that moves no socket and keeps the cached clients.
LEMMA SocketsSame ==
  ASSUME CacheTypeOK, SocketsAccounted, UNCHANGED <<socket, deferred, leases>>,
         ClientsApart(lru'), \A k \in Clients : Cached(k)' <=> Cached(k),
         \A b \in Borrowers : borrower'[b].at \in {"granted", "using"} =>
            borrower'[b].client \in 1..Len(socket) /\ socket[borrower'[b].client] # "opening"
  PROVE  SocketsAccounted'
  <1>1. deferred \subseteq Clients /\ 1..Len(socket) \subseteq Clients
    BY CacheParts
  <1>2. \A i, j \in DOMAIN lru' : lru'[i][2] = lru'[j][2] => i = j
    BY DEF ClientsApart
  <1>3. \A k \in Clients : Cached(k)' => k <= Len(socket) /\ socket[k] = "open"
    BY DEF SocketsAccounted
  <1>4. \A k \in deferred : socket[k] # "opening" /\ ~Cached(k)'
    BY <1>1 DEF SocketsAccounted
  <1>5. \A k \in 1..Len(socket) : socket[k] = "open" => Cached(k)' \/ (k \in deferred /\ leases[k] > 0)
    BY <1>1 DEF SocketsAccounted
  <1> QED
    BY <1>2, <1>3, <1>4, <1>5 DEF SocketsAccounted

\* While nobody is between getClient and the lease, keeping the sockets that
\* have leases is enough.
LEMMA QuietKeepsLeases ==
  ASSUME CacheTypeOK, SocketsAccounted, LeasesHonoured, Quiet,
         cacheGap' = cacheGap, cacheDown' = cacheDown,
         \A b \in Borrowers : borrower'[b].at \in {"granted", "using"} =>
            borrower'[b] = borrower[b],
         \A k \in 1..Len(socket) : socket[k] = "open" /\ leases[k] > 0 => socket'[k] = "open"
  PROVE  LeasesHonoured'
  <1> SUFFICES ASSUME ~cacheGap, NEW b \in Borrowers
               PROVE  /\ borrower'[b].at # "granted"
                      /\ borrower'[b].at = "using" /\ ~cacheDown => socket'[borrower'[b].client] = "open"
    BY DEF LeasesHonoured
  <1>1. borrower'[b].at # "granted"
    BY DEF Quiet
  <1>2. ASSUME borrower'[b].at = "using", ~cacheDown PROVE socket'[borrower'[b].client] = "open"
    <2>1. borrower'[b] = borrower[b] /\ borrower[b].at = "using"
      BY <1>2
    <2>2. borrower[b].client \in 1..Len(socket) /\ socket[borrower[b].client] = "open"
      BY <1>2, <2>1 DEF SocketsAccounted, LeasesHonoured
    <2>3. leases[borrower[b].client] > 0
      BY <2>1, UsingIsLeased
    <2> QED
      BY <2>1, <2>2, <2>3
  <1> QED
    BY <1>1, <1>2

LEMMA InitCache == CacheInit => CacheOK
  <1> SUFFICES ASSUME CacheInit PROVE CacheOK
    OBVIOUS
  <1>1. \A k \in Clients : Leasing(k) = {}
    BY DEF CacheInit, Leasing, NoBorrow
  <1>2. \A k \in Clients : leases[k] = Cardinality(Leasing(k))
    BY <1>1, FS_EmptySet DEF CacheInit
  <1>3. /\ lru = <<>> /\ socket = <<>> /\ Len(lru) = 0 /\ Len(socket) = 0
        /\ lru \in Seq(CacheTenants \X Clients)
        /\ socket \in Seq({"opening", "open", "closed"})
    BY EmptySeq DEF CacheInit
  <1>4. borrower \in [Borrowers -> BorrowType] /\ \A b \in Borrowers : borrower[b].at = "idle"
    BY CacheAssumption DEF CacheInit, NoBorrow, BorrowType
  <1>5. CacheTypeOK
    <2>0. 0 \in 0..Len(socket) /\ 0 \in Nat
      BY <1>3
    <2>1. /\ inflight \in [CacheTenants -> 0..Len(socket)] /\ deferred = {}
          /\ leases \in [Clients -> Nat]
      BY <2>0 DEF CacheInit
    <2>1a. cacheDown \in BOOLEAN /\ cacheGap \in BOOLEAN
      BY CacheAssumption DEF CacheInit
    <2>2. \A i, j \in DOMAIN lru : lru[i][1] = lru[j][1] => i = j
      BY <1>3
    <2>3. Len(lru) <= MaxClients /\ Len(socket) <= MaxOpened
      BY <1>3, CacheAssumption
    <2> QED
      BY <1>2, <1>3, <1>4, <2>1, <2>1a, <2>2, <2>3 DEF CacheTypeOK, BorrowType
  <1>6. CacheInv
    BY <1>3, <1>4 DEF CacheInit, CacheInv, SocketsAccounted, LeasesHonoured, Cached
  <1> QED
    BY <1>5, <1>6 DEF CacheOK

\* getClient finds the client and makes it the youngest.
LEMMA HitCache ==
  ASSUME CacheOK, NEW b \in Borrowers, NEW t \in CacheTenants, GetClient(b, t), Hit(b, t)
  PROVE  CacheOK'
  <1>1. CacheTypeOK /\ SocketsAccounted /\ LeasesHonoured
    BY DEF CacheOK, CacheInv
  <1>2. PICK w : w = CacheWithout(t)
    OBVIOUS
  <1>3. PICK k \in Clients : Held(t) = {k} /\ Cached(k)
    BY <1>1, <1>2, WithoutTenant DEF Hit
  <1>4. /\ lru' = Append(w, <<t, k>>)
        /\ borrower' = [borrower EXCEPT ![b] = [at |-> "granted", tenant |-> t, client |-> k]]
        /\ UNCHANGED <<inflight, socket, deferred, leases, cacheDown, cacheGap>>
        /\ borrower[b].at = "idle" /\ Quiet /\ Entry(t) # {}
    BY <1>2, <1>3 DEF Hit, GetClient, ClientOf
  <1>5. /\ w \in Seq(EntryType) /\ TenantsApart(w) /\ ClientsApart(w) /\ Len(w) = Len(lru) - 1
        /\ \A i \in 1..Len(w) : w[i][1] # t
        /\ \A c \in Clients : HasClient(w, c) <=> Cached(c) /\ c \notin Held(t)
    BY <1>1, <1>2, <1>4, WithoutTenant
  <1>6. /\ lru' \in Seq(EntryType) /\ Len(lru') = Len(w) + 1
        /\ TenantsApart(lru') /\ ClientsApart(lru')
        /\ \A c \in Clients : HasClient(lru', c) <=> HasClient(w, c) \/ c = k
    BY <1>3, <1>4, <1>5, WithEntry, ZenonT(40)
  <1>7. \A c \in Clients : Cached(c)' <=> Cached(c)
    BY <1>3, <1>5, <1>6 DEF Cached, HasClient
  <1>8. borrower \in [Borrowers -> BorrowType] /\ Len(lru) \in Nat /\ MaxOpened \in Nat
    BY <1>1, CacheAssumption, LenProperties DEF CacheTypeOK, BorrowType
  <1>9. borrower' \in [Borrowers -> BorrowType]
    <2>1. [at |-> "granted", tenant |-> t, client |-> k] \in BorrowType
      BY <1>8 DEF BorrowType, Clients
    <2> QED
      BY <1>4, <1>8, <2>1
  <1>10. \A c \in Clients : leases'[c] = Cardinality(Leasing(c)')
    BY <1>1, <1>4, <1>8, LeasesSame
  <1>11. CacheTypeOK'
    <2>1. Len(lru') <= MaxClients
      BY <1>1, <1>5, <1>6, <1>8, CacheParts
    <2>2. /\ socket' \in Seq(SocketStates) /\ Len(socket') <= MaxOpened
          /\ inflight' \in [CacheTenants -> 0..Len(socket')]
          /\ deferred' \subseteq 1..Len(socket') /\ leases' \in [Clients -> Nat]
      BY <1>1, <1>4, CacheParts
    <2>3. cacheDown' \in BOOLEAN /\ cacheGap' \in BOOLEAN
      BY <1>1, <1>4 DEF CacheTypeOK
    <2> QED
      BY <1>6, <1>9, <1>10, <2>1, <2>2, <2>3, CacheTyped
  <1>12. k \in 1..Len(socket) /\ socket[k] = "open"
    BY <1>1, <1>3 DEF SocketsAccounted, Clients
  <1>13. \A q \in Borrowers : borrower'[q].at \in {"granted", "using"} =>
            borrower'[q].client \in 1..Len(socket) /\ socket[borrower'[q].client] # "opening"
    BY <1>1, <1>4, <1>8, <1>12 DEF SocketsAccounted
  <1>14. SocketsAccounted'
    BY <1>1, <1>4, <1>6, <1>7, <1>13, SocketsSame
  <1>15. LeasesHonoured'
    BY <1>1, <1>3, <1>4, <1>7, <1>8 DEF LeasesHonoured, Quiet
  <1> QED
    BY <1>11, <1>14, <1>15 DEF CacheOK, CacheInv

\* getClient waits for the cold start, or finds it settled (only with a gap).
LEMMA JoinCache ==
  ASSUME CacheOK, NEW b \in Borrowers, NEW t \in CacheTenants, GetClient(b, t), Join(b, t)
  PROVE  CacheOK'
  <1>1. CacheTypeOK /\ SocketsAccounted /\ LeasesHonoured
    BY DEF CacheOK, CacheInv
  <1>2. PICK k \in 1..Len(socket) : k = inflight[t]
    BY <1>1, LenProperties DEF Join, CacheTypeOK
  <1>3. PICK point \in {"granted", "waiting"} :
          /\ borrower' = [borrower EXCEPT ![b] = [at |-> point, tenant |-> t, client |-> k]]
          /\ point = "granted" <=> Settling(t)
    BY <1>2 DEF Join
  <1>4. /\ UNCHANGED <<lru, inflight, socket, deferred, leases, cacheDown, cacheGap>>
        /\ borrower[b].at = "idle" /\ Quiet
    BY DEF Join, GetClient
  <1>5. borrower \in [Borrowers -> BorrowType] /\ MaxOpened \in Nat /\ Len(socket) \in 0..MaxOpened
    BY <1>1, CacheAssumption, LenProperties DEF CacheTypeOK, BorrowType
  <1>6. borrower' \in [Borrowers -> BorrowType]
    <2>1. [at |-> point, tenant |-> t, client |-> k] \in BorrowType
      BY <1>5 DEF BorrowType
    <2> QED
      BY <1>3, <1>5, <2>1
  <1>7. \A c \in Clients : leases'[c] = Cardinality(Leasing(c)')
    BY <1>1, <1>3, <1>4, <1>5, LeasesSame
  <1>8. CacheTypeOK'
    BY <1>1, <1>4, <1>6, <1>7 DEF CacheTypeOK, BorrowType
  <1>9. point = "granted" => socket[k] # "opening" /\ cacheGap
    BY <1>2, <1>3, <1>4 DEF Settling, Quiet
  <1>10. SocketsAccounted'
    BY <1>1, <1>3, <1>4, <1>5, <1>9 DEF SocketsAccounted, Cached
  <1>11. LeasesHonoured'
    BY <1>1, <1>3, <1>4, <1>5, <1>9 DEF LeasesHonoured, Cached
  <1> QED
    BY <1>8, <1>10, <1>11 DEF CacheOK, CacheInv

\* getClient starts a cold start; an entry past its TTL is disposed of.
LEMMA OpenColdCache ==
  ASSUME CacheOK, NEW b \in Borrowers, NEW t \in CacheTenants, GetClient(b, t), OpenCold(b, t)
  PROVE  CacheOK'
  <1>1. CacheTypeOK /\ SocketsAccounted /\ LeasesHonoured
    BY DEF CacheOK, CacheInv
  <1>2. PICK w : w = CacheWithout(t)
    OBVIOUS
  <1>3. PICK gone \in SUBSET Clients : gone = Held(t) /\ \A k \in gone : Cached(k)
    BY <1>1, <1>2, WithoutTenant
  <1>4. PICK s : s = Append(socket, "opening")
    OBVIOUS
  <1>5. PICK n \in Clients : n = Len(socket) + 1 /\ n <= MaxOpened
    BY <1>1, CacheParts DEF OpenCold, Clients
  <1>6. /\ lru' = w /\ DisposeAll(gone, s)
        /\ inflight' = [inflight EXCEPT ![t] = n]
        /\ borrower' = [borrower EXCEPT ![b] = [at |-> "waiting", tenant |-> t, client |-> n]]
        /\ UNCHANGED <<leases, cacheDown, cacheGap>> /\ borrower[b].at = "idle" /\ Quiet
    BY <1>2, <1>3, <1>4, <1>5 DEF OpenCold, GetClient
  <1>7. /\ w \in Seq(EntryType) /\ TenantsApart(w) /\ ClientsApart(w) /\ Len(w) <= Len(lru)
        /\ \A k \in Clients : HasClient(w, k) <=> Cached(k) /\ k \notin gone
    BY <1>1, <1>2, <1>3, WithoutTenant
  <1>8. /\ s \in Seq(SocketStates) /\ Len(s) = n
        /\ \A k \in 1..Len(socket) : s[k] = socket[k]
        /\ \A k \in 1..n : k > Len(socket) => s[k] = "opening"
    <2>1. socket \in Seq(SocketStates) /\ "opening" \in SocketStates /\ Len(socket) \in Nat
      BY <1>1, CacheParts DEF SocketStates
    <2> QED
      BY <1>4, <1>5, <2>1, AppendProperties
  <1>9. \A k \in Clients : Cached(k)' <=> Cached(k) /\ k \notin gone
    BY <1>6, <1>7 DEF Cached, HasClient
  <1>10. borrower \in [Borrowers -> BorrowType] /\ borrower' \in [Borrowers -> BorrowType]
    <2>1. [at |-> "waiting", tenant |-> t, client |-> n] \in BorrowType
      BY <1>1, <1>5, CacheParts DEF BorrowType, Clients
    <2> QED
      BY <1>1, <1>6, <2>1, CacheParts
  <1>11. \A q \in Borrowers : borrower'[q].at \in {"granted", "using"} =>
            borrower'[q] = borrower[q] /\ borrower[q].at = borrower'[q].at
    BY <1>6, <1>10
  <1>12. \A q \in Borrowers : borrower'[q].at \in {"granted", "using"} =>
            borrower'[q].client \in 1..Len(s) /\ s[borrower'[q].client] # "opening"
    <2>1. 1..Len(socket) \subseteq 1..Len(s)
      BY <1>1, <1>5, <1>8, CacheParts
    <2> QED
      BY <1>1, <1>8, <1>11, <2>1 DEF SocketsAccounted
  <1>13. /\ SocketsAccounted'
         /\ socket' \in Seq(SocketStates) /\ Len(socket') = n
         /\ deferred' \subseteq 1..Len(socket')
         /\ \A k \in 1..Len(socket) : socket[k] = "open" /\ leases[k] > 0 => socket'[k] = "open"
    <2>1. Len(s) <= MaxOpened /\ Len(socket) <= Len(s)
      BY <1>1, <1>5, <1>8, CacheParts
    <2>2. ClientsApart(lru') /\ leases' = leases
      BY <1>6, <1>7
    <2>3. \A k \in 1..Len(s) : k > Len(socket) => s[k] = "opening"
      BY <1>8
    <2>4. /\ \A k \in Clients : Cached(k)' => k \notin gone /\ Cached(k)
          /\ \A k \in Clients : Cached(k) /\ k \notin gone => Cached(k)'
      BY <1>9
    <2>5. s \in Seq(SocketStates) /\ DisposeAll(gone, s) /\ \A k \in 1..Len(socket) : s[k] = socket[k]
      BY <1>6, <1>8
    <2>6. /\ SocketsAccounted'
          /\ socket' \in Seq(SocketStates) /\ Len(socket') = Len(s)
          /\ deferred' \subseteq 1..Len(socket')
          /\ \A k \in 1..Len(socket) : socket[k] = "open" /\ leases[k] > 0 => socket'[k] = "open"
      BY <1>1, <1>3, <1>12, <2>1, <2>2, <2>3, <2>4, <2>5, Disposed
    <2> QED
      BY <1>8, <2>6
  <1>14. \A k \in Clients : leases'[k] = Cardinality(Leasing(k)')
    BY <1>1, <1>6, <1>10, LeasesSame
  <1>15. CacheTypeOK'
    <2>1. inflight' \in [CacheTenants -> 0..Len(socket')]
      BY <1>1, <1>5, <1>6, <1>13, CacheParts
    <2>2. /\ lru' \in Seq(EntryType) /\ TenantsApart(lru') /\ Len(lru') <= MaxClients
          /\ Len(socket') <= MaxOpened
      BY <1>1, <1>5, <1>6, <1>7, <1>13, CacheParts, LenProperties
    <2>3. leases' \in [Clients -> Nat] /\ cacheDown' \in BOOLEAN /\ cacheGap' \in BOOLEAN
      BY <1>1, <1>6 DEF CacheTypeOK
    <2> QED
      BY <1>10, <1>13, <1>14, <2>1, <2>2, <2>3, CacheTyped
  <1>16. LeasesHonoured'
    BY <1>1, <1>6, <1>11, <1>13, QuietKeepsLeases
  <1> QED
    BY <1>13, <1>15, <1>16 DEF CacheOK, CacheInv

\* disposeClient of what a tenant has cached: evict, on suspension.
LEMMA EvictTenantCache ==
  ASSUME CacheOK, NEW t \in CacheTenants, EvictTenant(t)
  PROVE  CacheOK'
  <1>1. CacheTypeOK /\ SocketsAccounted /\ LeasesHonoured
    BY DEF CacheOK, CacheInv
  <1>2. PICK w : w = CacheWithout(t)
    OBVIOUS
  <1>3. PICK gone \in SUBSET Clients : gone = Held(t) /\ \A k \in gone : Cached(k)
    BY <1>1, <1>2, WithoutTenant
  <1>4. /\ lru' = w /\ DisposeAll(gone, socket)
        /\ UNCHANGED <<inflight, leases, borrower, cacheDown, cacheGap>> /\ Quiet
    BY <1>2, <1>3 DEF EvictTenant
  <1>5. /\ w \in Seq(EntryType) /\ TenantsApart(w) /\ ClientsApart(w) /\ Len(w) <= Len(lru)
        /\ \A k \in Clients : HasClient(w, k) <=> Cached(k) /\ k \notin gone
    BY <1>1, <1>2, <1>3, WithoutTenant
  <1>6. \A k \in Clients : Cached(k)' <=> Cached(k) /\ k \notin gone
    BY <1>4, <1>5 DEF Cached, HasClient
  <1>7. /\ SocketsAccounted'
        /\ socket' \in Seq(SocketStates) /\ Len(socket') = Len(socket)
        /\ deferred' \subseteq 1..Len(socket')
        /\ \A k \in 1..Len(socket) : socket[k] = "open" /\ leases[k] > 0 => socket'[k] = "open"
    <2>1. /\ socket \in Seq(SocketStates) /\ Len(socket) <= MaxOpened /\ Len(socket) <= Len(socket)
          /\ \A k \in 1..Len(socket) : k > Len(socket) => socket[k] = "opening"
      BY <1>1, CacheParts
    <2>2. ClientsApart(lru')
      BY <1>4, <1>5
    <2>3. \A q \in Borrowers : borrower'[q].at \in {"granted", "using"} =>
            borrower'[q].client \in 1..Len(socket) /\ socket[borrower'[q].client] # "opening"
      BY <1>1, <1>4 DEF SocketsAccounted
    <2> QED
      BY <1>1, <1>3, <1>4, <1>6, <2>1, <2>2, <2>3, Disposed
  <1>8. \A k \in Clients : leases'[k] = Cardinality(Leasing(k)')
    BY <1>1, <1>4, LeasesSame
  <1>9. CacheTypeOK'
    <2>1. /\ inflight' \in [CacheTenants -> 0..Len(socket')] /\ borrower' \in [Borrowers -> BorrowType]
          /\ Len(socket') <= MaxOpened /\ leases' \in [Clients -> Nat]
      BY <1>1, <1>4, <1>7, CacheParts
    <2>2. lru' \in Seq(EntryType) /\ TenantsApart(lru') /\ Len(lru') <= MaxClients
      BY <1>1, <1>4, <1>5, CacheParts, LenProperties
    <2>3. cacheDown' \in BOOLEAN /\ cacheGap' \in BOOLEAN
      BY <1>1, <1>4 DEF CacheTypeOK
    <2> QED
      BY <1>7, <1>8, <2>1, <2>2, <2>3, CacheTyped
  <1>10. LeasesHonoured'
    BY <1>1, <1>4, <1>7, QuietKeepsLeases
  <1> QED
    BY <1>7, <1>9, <1>10 DEF CacheOK, CacheInv

\* $connect answers: the client is cached, which may evict the oldest one.
LEMMA ConnectedCache ==
  ASSUME CacheOK, NEW t \in CacheTenants, Connected(t)
  PROVE  CacheOK'
  <1>1. CacheTypeOK /\ SocketsAccounted /\ LeasesHonoured
    BY DEF CacheOK, CacheInv
  <1>2. PICK k \in 1..Len(socket) : k = inflight[t] /\ socket[k] = "opening"
    BY <1>1, CacheParts DEF Connected
  <1>3. k \in Clients /\ ~Cached(k) /\ k \notin deferred /\ k \in 1..MaxOpened
    BY <1>1, <1>2, CacheParts DEF SocketsAccounted, Clients
  <1>4. PICK w : w = CacheWithout(t)
    OBVIOUS
  <1>5. PICK v : v = Append(w, <<t, k>>)
    OBVIOUS
  <1>6. PICK evicted : evicted = IF Len(v) > MaxClients THEN {Head(v)[2]} ELSE {}
    OBVIOUS
  <1>7. PICK s : s = [socket EXCEPT ![k] = "open"]
    OBVIOUS
  <1>8. PICK gone : gone = evicted \cup Held(t)
    OBVIOUS
  <1>9. /\ lru' = (IF evicted = {} THEN v ELSE Tail(v))
        /\ DisposeAll(gone, s)
        /\ borrower' = [b \in Borrowers |-> IF borrower[b].at = "waiting" /\ borrower[b].client = k
                                            THEN [borrower[b] EXCEPT !.at = "granted"] ELSE borrower[b]]
        /\ UNCHANGED <<inflight, leases, cacheDown, cacheGap>> /\ Quiet
    BY <1>2, <1>4, <1>5, <1>6, <1>7, <1>8 DEF Connected
  <1>10. /\ w \in Seq(EntryType) /\ TenantsApart(w) /\ ClientsApart(w) /\ Len(w) <= Len(lru)
         /\ \A i \in 1..Len(w) : w[i][1] # t
         /\ \A c \in Clients : HasClient(w, c) <=> Cached(c) /\ c \notin Held(t)
         /\ Held(t) \subseteq Clients /\ \A c \in Held(t) : Cached(c)
    BY <1>1, <1>4, WithoutTenant
  <1>11. /\ v \in Seq(EntryType) /\ Len(v) = Len(w) + 1 /\ v[Len(v)] = <<t, k>>
         /\ TenantsApart(v) /\ ClientsApart(v)
         /\ \A c \in Clients : HasClient(v, c) <=> HasClient(w, c) \/ c = k
    BY <1>3, <1>5, <1>10, WithEntry
  <1>12. Len(w) \in Nat /\ Len(lru) \in Nat /\ Len(lru) <= MaxClients /\ MaxClients \in Nat \ {0}
    BY <1>1, <1>10, CacheParts, LenProperties
  <1>13. /\ evicted \subseteq Clients /\ k \notin evicted
         /\ \A c \in evicted : Cached(c) /\ c \notin Held(t)
         /\ lru' \in Seq(EntryType) /\ Len(lru') <= MaxClients
         /\ TenantsApart(lru') /\ ClientsApart(lru')
         /\ \A c \in Clients : HasClient(lru', c) <=> HasClient(v, c) /\ c \notin evicted
    <2>1. CASE Len(v) > MaxClients
      <3>1. PICK r : r = Tail(v)
        OBVIOUS
      <3>2. /\ r \in Seq(EntryType) /\ Len(r) = Len(v) - 1
            /\ TenantsApart(r) /\ ClientsApart(r)
            /\ Head(v) \in EntryType /\ HasClient(v, Head(v)[2])
            /\ \A c \in Clients : HasClient(r, c) <=> HasClient(v, c) /\ c # Head(v)[2]
        <4>1. Len(v) > 0
          BY <1>11, <1>12
        <4> QED
          BY <1>11, <3>1, <4>1, WithoutOldest
      <3>3. evicted = {Head(v)[2]} /\ lru' = r
        BY <1>6, <1>9, <2>1, <3>1
      <3>4. Head(v)[2] \in Clients
        BY <3>2 DEF EntryType
      <3>5. Head(v)[2] # k
        <4>1. v # <<>> /\ DOMAIN v = 1..Len(v) /\ Len(v) > 1
          BY <1>11, <1>12, <2>1, EmptySeq, LenProperties
        <4>2. Head(v) = v[1]
          BY <4>1
        <4> QED
          BY <1>11, <1>12, <4>1, <4>2 DEF ClientsApart
      <3>6. Cached(Head(v)[2]) /\ Head(v)[2] \notin Held(t)
        BY <1>10, <1>11, <3>2, <3>4, <3>5
      <3>7. Len(r) <= MaxClients
        BY <1>10, <1>11, <1>12, <3>2
      <3> QED
        BY <3>2, <3>3, <3>4, <3>5, <3>6, <3>7
    <2>2. CASE ~(Len(v) > MaxClients)
      <3>1. evicted = {} /\ lru' = v
        BY <1>6, <1>9, <2>2
      <3>2. Len(v) <= MaxClients
        BY <1>11, <1>12, <2>2
      <3> QED
        BY <1>11, <3>1, <3>2
    <2> QED
      BY <2>1, <2>2
  <1>14. gone \in SUBSET Clients /\ k \notin gone /\ \A c \in gone : Cached(c)
    BY <1>3, <1>8, <1>10, <1>13
  <1>15. \A c \in Clients : Cached(c)' <=> (Cached(c) /\ c \notin gone) \/ c = k
    <2>1. \A c : Cached(c)' <=> HasClient(lru', c)
      BY DEF Cached, HasClient
    <2> QED
      BY <1>3, <1>8, <1>10, <1>11, <1>13, <2>1
  <1>16. /\ s \in Seq(SocketStates) /\ Len(s) = Len(socket) /\ s[k] = "open"
         /\ \A c \in 1..Len(socket) : c # k => s[c] = socket[c]
    <2>1. socket \in [1..Len(socket) -> SocketStates] /\ Len(socket) \in Nat /\ "open" \in SocketStates
      BY <1>1, CacheParts, ElementOfSeq, LenProperties DEF SocketStates
    <2>2. s \in [1..Len(socket) -> SocketStates]
      BY <1>7, <2>1
    <2> QED
      BY <1>2, <1>7, <2>1, <2>2, SeqDef
  <1>17. borrower \in [Borrowers -> BorrowType] /\ borrower' \in [Borrowers -> BorrowType]
    BY <1>1, <1>9, CacheParts DEF BorrowType
  <1>18. \A q \in Borrowers : borrower'[q] = borrower[q] \/ (borrower[q].at = "waiting" /\
            borrower'[q].at = "granted" /\ borrower'[q].client = k)
    BY <1>9, <1>17 DEF BorrowType
  <1>19. \A q \in Borrowers : borrower'[q].at \in {"granted", "using"} =>
            borrower'[q].client \in 1..Len(s) /\ s[borrower'[q].client] # "opening"
    <2>1. ASSUME NEW q \in Borrowers, borrower'[q].at \in {"granted", "using"}, borrower'[q] = borrower[q]
          PROVE  borrower'[q].client \in 1..Len(s) /\ s[borrower'[q].client] # "opening"
      <3>1. borrower[q].client \in 1..Len(socket) /\ socket[borrower[q].client] # "opening"
        BY <1>1, <2>1 DEF SocketsAccounted
      <3> QED
        BY <1>2, <1>16, <2>1, <3>1
    <2>2. ASSUME NEW q \in Borrowers, borrower'[q].client = k
          PROVE  borrower'[q].client \in 1..Len(s) /\ s[borrower'[q].client] # "opening"
      BY <1>2, <1>16, <2>2
    <2> QED
      BY <1>18, <2>1, <2>2
  <1>20. /\ SocketsAccounted'
         /\ socket' \in Seq(SocketStates) /\ Len(socket') = Len(socket)
         /\ deferred' \subseteq 1..Len(socket')
         /\ \A c \in 1..Len(socket) : socket[c] = "open" /\ leases[c] > 0 => socket'[c] = "open"
    <2>1. /\ Len(s) <= MaxOpened /\ Len(socket) <= Len(s)
          /\ \A c \in 1..Len(s) : c > Len(socket) => s[c] = "opening"
      BY <1>1, <1>16, CacheParts
    <2>2. \A c \in 1..Len(socket) : s[c] = socket[c] \/ (socket[c] = "opening" /\ s[c] = "open" /\ Cached(c)')
      <3>1. Cached(k)'
        BY <1>3, <1>15
      <3> QED
        BY <1>2, <1>16, <3>1
    <2>3. /\ \A c \in Clients : Cached(c)' =>
                c \notin gone /\ (Cached(c) \/ (c <= Len(s) /\ s[c] = "open" /\ c \notin deferred))
          /\ \A c \in Clients : Cached(c) /\ c \notin gone => Cached(c)'
      <3>1. k <= Len(s)
        BY <1>2, <1>16
      <3> QED
        BY <1>3, <1>14, <1>15, <1>16, <3>1
    <2>4. leases' = leases /\ DisposeAll(gone, s) /\ ClientsApart(lru')
      BY <1>9, <1>13
    <2>5. /\ SocketsAccounted'
          /\ socket' \in Seq(SocketStates) /\ Len(socket') = Len(s)
          /\ deferred' \subseteq 1..Len(socket')
          /\ \A c \in 1..Len(socket) : socket[c] = "open" /\ leases[c] > 0 => socket'[c] = "open"
      BY <1>1, <1>14, <1>16, <1>19, <2>1, <2>2, <2>3, <2>4, Disposed
    <2> QED
      BY <1>16, <2>5
  <1>21. \A c \in Clients : leases'[c] = Cardinality(Leasing(c)')
    BY <1>1, <1>9, <1>18, LeasesSame
  <1>22. CacheTypeOK'
    <2>1. /\ inflight' \in [CacheTenants -> 0..Len(socket')] /\ Len(socket') <= MaxOpened
          /\ leases' \in [Clients -> Nat]
      BY <1>1, <1>9, <1>20, CacheParts
    <2>2. cacheDown' \in BOOLEAN /\ cacheGap' \in BOOLEAN
      BY <1>1, <1>9 DEF CacheTypeOK
    <2> QED
      BY <1>13, <1>17, <1>20, <1>21, <2>1, <2>2, CacheTyped
  <1>23. LeasesHonoured'
    <2> SUFFICES ASSUME ~cacheGap, NEW q \in Borrowers, NEW c \in Clients, borrower'[q].client = c,
                        borrower'[q].at \in {"granted", "using"}
                 PROVE  /\ borrower'[q].at = "granted" => Cached(c)'
                        /\ borrower'[q].at = "using" /\ ~cacheDown => socket'[c] = "open"
      <3>1. \A q \in Borrowers : borrower'[q].at \in {"granted", "using"} => borrower'[q].client \in Clients
        BY <1>1, <1>16, <1>19, CacheParts
      <3> QED
        BY <1>9, <3>1 DEF LeasesHonoured, Cached
    <2>1. Cached(k)' /\ \A b \in Borrowers : borrower[b].at # "granted"
      BY <1>3, <1>9, <1>15 DEF Quiet
    <2>2. ASSUME borrower'[q].at = "granted" PROVE Cached(c)'
      <3>1. c = k
        BY <1>18, <2>1, <2>2
      <3> QED
        BY <2>1, <3>1
    <2>3. ASSUME borrower'[q].at = "using", ~cacheDown PROVE socket'[c] = "open"
      <3>1. borrower[q].at = "using" /\ borrower[q].client = c
        BY <1>18, <2>3
      <3>2. c \in 1..Len(socket) /\ socket[c] = "open" /\ leases[c] > 0
        BY <1>1, <2>3, <3>1, UsingIsLeased DEF SocketsAccounted, LeasesHonoured
      <3> QED
        BY <1>20, <3>2
    <2> QED
      BY <2>2, <2>3
  <1> QED
    BY <1>20, <1>22, <1>23 DEF CacheOK, CacheInv

\* $connect fails: nobody held that client yet.
LEMMA ConnectFailsCache ==
  ASSUME CacheOK, NEW t \in CacheTenants, ConnectFails(t)
  PROVE  CacheOK'
  <1>1. CacheTypeOK /\ SocketsAccounted /\ LeasesHonoured
    BY DEF CacheOK, CacheInv
  <1>2. PICK k \in 1..Len(socket) : k = inflight[t] /\ socket[k] = "opening"
    BY <1>1, CacheParts DEF ConnectFails
  <1>3. /\ socket' = [socket EXCEPT ![k] = "closed"]
        /\ inflight' = [inflight EXCEPT ![t] = 0]
        /\ borrower' = [b \in Borrowers |-> IF borrower[b].client = k THEN NoBorrow ELSE borrower[b]]
        /\ UNCHANGED <<lru, leases, deferred, cacheDown, cacheGap>> /\ Quiet
    BY <1>2 DEF ConnectFails
  <1>4. /\ socket' \in Seq(SocketStates) /\ Len(socket') = Len(socket) /\ socket'[k] = "closed"
        /\ \A c \in 1..Len(socket) : c # k => socket'[c] = socket[c]
    <2>1. socket \in [1..Len(socket) -> SocketStates] /\ Len(socket) \in Nat /\ "closed" \in SocketStates
      BY <1>1, CacheParts, ElementOfSeq, LenProperties DEF SocketStates
    <2>2. socket' \in [1..Len(socket) -> SocketStates]
      BY <1>3, <2>1
    <2> QED
      BY <1>2, <1>3, <2>1, <2>2, SeqDef, LenProperties
  <1>5. borrower \in [Borrowers -> BorrowType] /\ borrower' \in [Borrowers -> BorrowType]
    <2>1. NoBorrow \in BorrowType
      BY CacheAssumption DEF NoBorrow, BorrowType
    <2> QED
      BY <1>1, <1>3, <2>1, CacheParts
  <1>6. \A q \in Borrowers : borrower[q].at \in {"granted", "using"} => borrower[q].client # k
    BY <1>1, <1>2 DEF SocketsAccounted
  <1>7. \A q \in Borrowers : /\ borrower'[q].at \in {"granted", "using"} => borrower'[q] = borrower[q]
                             /\ borrower[q].at \in {"granted", "using"} => borrower'[q] = borrower[q]
    BY <1>3, <1>6 DEF NoBorrow
  <1>8. \A c \in Clients : leases'[c] = Cardinality(Leasing(c)')
    BY <1>1, <1>3, <1>7, LeasesSame
  <1>9. CacheTypeOK'
    <2>1. inflight' \in [CacheTenants -> 0..Len(socket')]
      BY <1>1, <1>3, <1>4, CacheParts
    <2>2. /\ lru' \in Seq(EntryType) /\ TenantsApart(lru') /\ Len(lru') <= MaxClients
          /\ Len(socket') <= MaxOpened /\ deferred' \subseteq 1..Len(socket') /\ leases' \in [Clients -> Nat]
      BY <1>1, <1>3, <1>4, CacheParts
    <2>3. cacheDown' \in BOOLEAN /\ cacheGap' \in BOOLEAN
      BY <1>1, <1>3 DEF CacheTypeOK
    <2> QED
      BY <1>4, <1>5, <1>8, <2>1, <2>2, <2>3, CacheTyped
  <1>10. \A c \in 1..Len(socket) : socket[c] = "open" => socket'[c] = "open"
    BY <1>2, <1>4
  <1>11. SocketsAccounted'
    <2>1. \A c : Cached(c)' <=> Cached(c)
      BY <1>3 DEF Cached
    <2>2. \A c \in Clients : Cached(c) => c \in 1..Len(socket) /\ socket[c] = "open"
      BY <1>1, CacheParts DEF SocketsAccounted, Clients
    <2>3. \A c \in deferred : socket'[c] # "opening" /\ ~Cached(c)
      <3>1. \A c \in deferred : c \in 1..Len(socket) /\ socket[c] # "opening" /\ ~Cached(c)
        BY <1>1, CacheParts DEF SocketsAccounted
      <3> QED
        BY <1>4, <3>1
    <2>4. \A c \in 1..Len(socket) : socket'[c] = "open" => Cached(c) \/ (c \in deferred /\ leases[c] > 0)
      BY <1>1, <1>4 DEF SocketsAccounted
    <2>5. \A q \in Borrowers : borrower'[q].at \in {"granted", "using"} =>
            borrower'[q].client \in 1..Len(socket) /\ socket'[borrower'[q].client] # "opening"
      BY <1>1, <1>4, <1>7 DEF SocketsAccounted
    <2>6. \A i, j \in DOMAIN lru' : lru'[i][2] = lru'[j][2] => i = j
      BY <1>1, <1>3 DEF SocketsAccounted
    <2>7. \A c \in Clients : Cached(c)' => c <= Len(socket') /\ socket'[c] = "open"
      BY <1>4, <1>10, <2>1, <2>2
    <2>8. \A c \in deferred' : socket'[c] # "opening" /\ ~Cached(c)'
      BY <1>3, <2>1, <2>3
    <2>9. \A c \in 1..Len(socket') : socket'[c] = "open" => Cached(c)' \/ (c \in deferred' /\ leases'[c] > 0)
      BY <1>3, <1>4, <2>1, <2>4
    <2>10. \A q \in Borrowers : borrower'[q].at \in {"granted", "using"} =>
            borrower'[q].client \in 1..Len(socket') /\ socket'[borrower'[q].client] # "opening"
      BY <1>4, <2>5
    <2> QED
      BY <2>6, <2>7, <2>8, <2>9, <2>10 DEF SocketsAccounted
  <1>12. LeasesHonoured'
    BY <1>1, <1>3, <1>7, <1>10, QuietKeepsLeases
  <1> QED
    BY <1>9, <1>11, <1>12 DEF CacheOK, CacheInv

LEMMA SettleCache ==
  ASSUME CacheOK, NEW t \in CacheTenants, Settle(t)
  PROVE  CacheOK'
  <1>1. CacheTypeOK /\ SocketsAccounted /\ LeasesHonoured
    BY DEF CacheOK, CacheInv
  <1>2. /\ inflight' = [inflight EXCEPT ![t] = 0]
        /\ UNCHANGED <<lru, socket, leases, deferred, borrower, cacheDown, cacheGap>>
    BY DEF Settle
  <1>3. inflight' \in [CacheTenants -> 0..Len(socket)]
    BY <1>1, <1>2, CacheParts
  <1>4. CacheTypeOK'
    BY <1>1, <1>2, <1>3 DEF CacheTypeOK, Leasing
  <1>5. SocketsAccounted' /\ LeasesHonoured'
    BY <1>1, <1>2 DEF SocketsAccounted, LeasesHonoured, Cached
  <1> QED
    BY <1>4, <1>5 DEF CacheOK, CacheInv

\* The lease of withClient counts one more request on the client.
LEMMA LeaseCache ==
  ASSUME CacheOK, NEW b \in Borrowers, Lease(b)
  PROVE  CacheOK'
  <1>1. CacheTypeOK /\ SocketsAccounted /\ LeasesHonoured
    BY DEF CacheOK, CacheInv
  <1>2. PICK k \in Clients : k = borrower[b].client /\ k \in 1..Len(socket)
    BY <1>1, CacheParts DEF Lease, SocketsAccounted
  <1>3. /\ borrower[b].at = "granted"
        /\ leases' = [leases EXCEPT ![k] = @ + 1]
        /\ borrower' = [borrower EXCEPT ![b].at = "using"]
        /\ UNCHANGED <<lru, inflight, socket, deferred, cacheDown, cacheGap>>
    BY <1>2 DEF Lease
  <1>4. /\ borrower \in [Borrowers -> BorrowType] /\ borrower' \in [Borrowers -> BorrowType]
        /\ borrower'[b].at = "using" /\ borrower'[b].client = k
        /\ \A q \in Borrowers : q # b => borrower'[q] = borrower[q]
    <2>1. borrower \in [Borrowers -> BorrowType]
      BY <1>1, CacheParts
    <2>2. [borrower[b] EXCEPT !.at = "using"] \in BorrowType
      BY <2>1 DEF BorrowType
    <2>3. borrower' = [borrower EXCEPT ![b] = [borrower[b] EXCEPT !.at = "using"]]
      BY <1>3
    <2>4. [borrower[b] EXCEPT !.at = "using"].client = k
      BY <1>2, <2>1 DEF BorrowType
    <2> QED
      BY <2>1, <2>2, <2>3, <2>4 DEF BorrowType
  <1>5. leases \in [Clients -> Nat] /\ leases' \in [Clients -> Nat]
        /\ \A c \in Clients : leases'[c] >= leases[c]
    BY <1>1, <1>3, CacheParts
  <1>6. ASSUME NEW c \in Clients PROVE leases'[c] = Cardinality(Leasing(c)')
    <2>1. leases[c] = Cardinality(Leasing(c))
      BY <1>1 DEF CacheTypeOK
    <2>2. CASE c # k
      <3>1. Leasing(c)' = Leasing(c)
        BY <1>2, <1>4, <2>2 DEF Leasing
      <3> QED
        BY <1>3, <1>5, <2>1, <2>2, <3>1
    <2>3. CASE c = k
      <3>1. Leasing(c)' = Leasing(c) \cup {b} /\ b \notin Leasing(c)
        BY <1>2, <1>3, <1>4, <2>3 DEF Leasing
      <3>2. IsFiniteSet(Leasing(c))
        BY CacheAssumption, FS_Subset DEF Leasing
      <3>3. Cardinality(Leasing(c) \cup {b}) = Cardinality(Leasing(c)) + 1
        BY <3>1, <3>2, FS_AddElement
      <3> QED
        BY <1>3, <1>5, <2>1, <2>3, <3>1, <3>3
    <2> QED
      BY <2>2, <2>3
  <1>7. CacheTypeOK'
    <2>1. /\ lru' \in Seq(EntryType) /\ TenantsApart(lru') /\ Len(lru') <= MaxClients
          /\ socket' \in Seq(SocketStates) /\ Len(socket') <= MaxOpened
          /\ inflight' \in [CacheTenants -> 0..Len(socket')] /\ deferred' \subseteq 1..Len(socket')
      BY <1>1, <1>3, CacheParts
    <2>2. cacheDown' \in BOOLEAN /\ cacheGap' \in BOOLEAN
      BY <1>1, <1>3 DEF CacheTypeOK
    <2> QED
      BY <1>4, <1>5, <1>6, <2>1, <2>2, CacheTyped
  <1>8. \A c : Cached(c)' <=> Cached(c)
    BY <1>3 DEF Cached
  <1>9. SocketsAccounted'
    <2>1. \A c \in 1..Len(socket) : socket[c] = "open" => Cached(c)' \/ (c \in deferred /\ leases'[c] > 0)
      <3>1. 1..Len(socket) \subseteq Clients
        BY <1>1, CacheParts
      <3> QED
        BY <1>1, <1>5, <1>8, <3>1 DEF SocketsAccounted
    <2>2. \A q \in Borrowers : borrower'[q].at \in {"granted", "using"} =>
            borrower'[q].client \in 1..Len(socket) /\ socket[borrower'[q].client] # "opening"
      BY <1>1, <1>2, <1>3, <1>4 DEF SocketsAccounted
    <2>3. /\ \A i, j \in DOMAIN lru' : lru'[i][2] = lru'[j][2] => i = j
          /\ \A c \in Clients : Cached(c)' => c <= Len(socket) /\ socket[c] = "open"
          /\ \A c \in deferred : socket[c] # "opening" /\ ~Cached(c)'
      BY <1>1, <1>3, <1>8 DEF SocketsAccounted
    <2> QED
      BY <1>3, <2>1, <2>2, <2>3 DEF SocketsAccounted
  <1>10. LeasesHonoured'
    <2>1. ~cacheGap => Cached(k) /\ socket[k] = "open"
      BY <1>1, <1>2, <1>3 DEF LeasesHonoured, SocketsAccounted
    <2>2. ASSUME ~cacheGap, NEW q \in Borrowers, borrower'[q].at = "using", ~cacheDown
          PROVE  socket[borrower'[q].client] = "open"
      BY <1>1, <1>4, <2>1, <2>2 DEF LeasesHonoured
    <2>3. ASSUME ~cacheGap, NEW q \in Borrowers, borrower'[q].at = "granted"
          PROVE  q # b /\ borrower'[q] = borrower[q] /\ Cached(borrower[q].client)
      BY <1>1, <1>4, <2>3 DEF LeasesHonoured
    <2> QED
      BY <1>3, <2>2, <2>3 DEF LeasesHonoured, Cached
  <1> QED
    BY <1>7, <1>9, <1>10 DEF CacheOK, CacheInv

\* The last borrower of a client that was put off disconnects it.
LEMMA ReleaseCache ==
  ASSUME CacheOK, NEW b \in Borrowers, Release(b)
  PROVE  CacheOK'
  <1>1. CacheTypeOK /\ SocketsAccounted /\ LeasesHonoured
    BY DEF CacheOK, CacheInv
  <1>2. PICK k \in Clients : k = borrower[b].client /\ k \in 1..Len(socket) /\ leases[k] > 0
    BY <1>1, UsingIsLeased DEF Release, SocketsAccounted
  <1>3. /\ borrower[b].at = "using"
        /\ leases' = [leases EXCEPT ![k] = @ - 1]
        /\ borrower' = [borrower EXCEPT ![b] = NoBorrow]
        /\ UNCHANGED <<lru, inflight, cacheDown, cacheGap>> /\ Quiet
    BY <1>2 DEF Release
  <1>4. PICK done \in BOOLEAN :
          /\ done <=> leases[k] <= 1 /\ k \in deferred
          /\ socket' = IF done THEN [socket EXCEPT ![k] = "closed"] ELSE socket
          /\ deferred' = IF done THEN deferred \ {k} ELSE deferred
    BY <1>2 DEF Release, LastRelease
  <1>5. /\ borrower \in [Borrowers -> BorrowType] /\ borrower' \in [Borrowers -> BorrowType]
        /\ borrower'[b].at = "idle"
        /\ \A q \in Borrowers : q # b => borrower'[q] = borrower[q]
    <2>1. NoBorrow \in BorrowType
      BY CacheAssumption DEF NoBorrow, BorrowType
    <2> QED
      BY <1>1, <1>3, <2>1, CacheParts DEF NoBorrow
  <1>6. /\ leases \in [Clients -> Nat] /\ leases' \in [Clients -> Nat]
        /\ leases'[k] = leases[k] - 1
        /\ \A c \in Clients : c # k => leases'[c] = leases[c]
    BY <1>1, <1>2, <1>3, CacheParts
  <1>7. ASSUME NEW c \in Clients PROVE leases'[c] = Cardinality(Leasing(c)') /\ IsFiniteSet(Leasing(c)')
    <2>1. leases[c] = Cardinality(Leasing(c)) /\ IsFiniteSet(Leasing(c))
      <3>1. IsFiniteSet(Leasing(c))
        BY CacheAssumption, FS_Subset DEF Leasing
      <3> QED
        BY <1>1, <3>1 DEF CacheTypeOK
    <2>2. CASE c # k
      <3>1. Leasing(c)' = Leasing(c)
        BY <1>2, <1>3, <1>5, <2>2 DEF Leasing
      <3> QED
        BY <1>6, <2>1, <2>2, <3>1
    <2>3. CASE c = k
      <3>1. Leasing(c)' = Leasing(c) \ {b} /\ b \in Leasing(c)
        BY <1>2, <1>3, <1>5, <2>3 DEF Leasing
      <3>2. IsFiniteSet(Leasing(c) \ {b}) /\ Cardinality(Leasing(c) \ {b}) = Cardinality(Leasing(c)) - 1
        BY <2>1, <3>1, FS_RemoveElement
      <3> QED
        BY <1>6, <2>1, <2>3, <3>1, <3>2
    <2> QED
      BY <2>2, <2>3
  <1>8. /\ socket' \in Seq(SocketStates) /\ Len(socket') = Len(socket)
        /\ \A c \in 1..Len(socket) : socket'[c] = IF done /\ c = k THEN "closed" ELSE socket[c]
        /\ deferred' \subseteq deferred /\ deferred \subseteq 1..Len(socket) /\ Len(socket) <= MaxOpened
    <2>1. /\ socket \in Seq(SocketStates) /\ socket \in [1..Len(socket) -> SocketStates]
          /\ Len(socket) \in Nat /\ "closed" \in SocketStates
      BY <1>1, CacheParts, ElementOfSeq, LenProperties DEF SocketStates
    <2>2. socket' \in [1..Len(socket) -> SocketStates]
      BY <1>2, <1>4, <2>1
    <2>3. socket' \in Seq(SocketStates) /\ Len(socket') = Len(socket)
      BY <2>1, <2>2, SeqDef, LenProperties
    <2>4. \A c \in 1..Len(socket) : socket'[c] = IF done /\ c = k THEN "closed" ELSE socket[c]
      BY <1>2, <1>4, <2>1
    <2> QED
      BY <1>1, <1>4, <2>3, <2>4, CacheParts
  <1>9. CacheTypeOK'
    <2>1. /\ lru' \in Seq(EntryType) /\ TenantsApart(lru') /\ Len(lru') <= MaxClients
          /\ inflight' \in [CacheTenants -> 0..Len(socket')] /\ deferred' \subseteq 1..Len(socket')
      BY <1>1, <1>3, <1>8, CacheParts
    <2>2. cacheDown' \in BOOLEAN /\ cacheGap' \in BOOLEAN
      BY <1>1, <1>3 DEF CacheTypeOK
    <2> QED
      BY <1>5, <1>6, <1>7, <1>8, <2>1, <2>2, CacheTyped
  <1>10. \A c : Cached(c)' <=> Cached(c)
    BY <1>3 DEF Cached
  <1>11. SocketsAccounted'
    <2>1. \A i, j \in DOMAIN lru' : lru'[i][2] = lru'[j][2] => i = j
      BY <1>1, <1>3 DEF SocketsAccounted
    <2>2. ASSUME NEW c \in Clients, Cached(c)' PROVE c <= Len(socket') /\ socket'[c] = "open"
      <3>1. c \in 1..Len(socket) /\ socket[c] = "open" /\ c \notin deferred
        BY <1>1, <1>10, <2>2, CacheParts DEF SocketsAccounted, Clients
      <3> QED
        BY <1>4, <1>8, <3>1
    <2>3. ASSUME NEW c \in deferred' PROVE socket'[c] # "opening" /\ ~Cached(c)'
      <3>1. c \in 1..Len(socket) /\ socket[c] # "opening" /\ ~Cached(c)
        BY <1>1, <1>8, <2>3 DEF SocketsAccounted
      <3> QED
        BY <1>8, <1>10, <3>1
    <2>4. ASSUME NEW c \in 1..Len(socket'), socket'[c] = "open"
          PROVE  Cached(c)' \/ (c \in deferred' /\ leases'[c] > 0)
      <3>1. c \in 1..Len(socket) /\ socket[c] = "open" /\ ~(done /\ c = k) /\ c \in Clients
        BY <1>1, <1>8, <2>4, CacheParts
      <3>2. Cached(c) \/ (c \in deferred /\ leases[c] > 0)
        BY <1>1, <3>1 DEF SocketsAccounted
      <3>3. ASSUME c \in deferred, leases[c] > 0 PROVE c \in deferred' /\ leases'[c] > 0
        <4>1. CASE c # k
          BY <1>4, <1>6, <3>1, <3>3, <4>1
        <4>2. CASE c = k
          BY <1>4, <1>6, <3>1, <3>3, <4>2
        <4> QED
          BY <4>1, <4>2
      <3> QED
        BY <1>10, <3>2, <3>3
    <2>5. ASSUME NEW q \in Borrowers, borrower'[q].at \in {"granted", "using"}
          PROVE  borrower'[q].client \in 1..Len(socket') /\ socket'[borrower'[q].client] # "opening"
      <3>1. borrower'[q] = borrower[q]
        BY <1>5, <2>5
      <3>2. borrower[q].client \in 1..Len(socket) /\ socket[borrower[q].client] # "opening"
        BY <1>1, <2>5, <3>1 DEF SocketsAccounted
      <3> QED
        BY <1>8, <3>1, <3>2
    <2> QED
      BY <2>1, <2>2, <2>3, <2>4, <2>5 DEF SocketsAccounted
  <1>12. LeasesHonoured'
    <2>1. ASSUME ~cacheGap, NEW q \in Borrowers PROVE borrower'[q].at # "granted"
      BY <1>3, <1>5, <2>1 DEF Quiet
    <2>2. ASSUME ~cacheGap, ~cacheDown, NEW q \in Borrowers, borrower'[q].at = "using"
          PROVE  socket'[borrower'[q].client] = "open"
      <3>1. q # b /\ borrower'[q] = borrower[q] /\ borrower[q].at = "using"
        BY <1>5, <2>2
      <3>2. borrower[q].client \in 1..Len(socket) /\ socket[borrower[q].client] = "open"
        BY <1>1, <2>2, <3>1 DEF SocketsAccounted, LeasesHonoured
      <3>3. ASSUME done, borrower[q].client = k PROVE FALSE
        <4>1. q \in Leasing(k)'
          BY <2>2, <3>1, <3>3 DEF Leasing
        <4>2. leases'[k] = 0
          BY <1>4, <1>6, <3>3
        <4> QED
          BY <1>7, <4>1, <4>2, FS_EmptySet
      <3> QED
        BY <1>8, <3>1, <3>2, <3>3
    <2> QED
      BY <1>3, <2>1, <2>2 DEF LeasesHonoured
  <1> QED
    BY <1>9, <1>11, <1>12 DEF CacheOK, CacheInv

\* Shutdown closes what is cached, in use or not.
LEMMA DisconnectAllCache ==
  ASSUME CacheOK, DisconnectAll
  PROVE  CacheOK'
  <1>1. CacheTypeOK /\ SocketsAccounted /\ LeasesHonoured
    BY DEF CacheOK, CacheInv
  <1>2. PICK gone : gone = {lru[i][2] : i \in DOMAIN lru}
    OBVIOUS
  <1>3. /\ cacheDown' = TRUE /\ lru' = <<>>
        /\ deferred' = deferred \cup {c \in gone : leases[c] > 0}
        /\ socket' = [c \in DOMAIN socket |-> IF c \in gone THEN "closed" ELSE socket[c]]
        /\ UNCHANGED <<inflight, leases, borrower, cacheGap>> /\ Quiet
    BY <1>2 DEF DisconnectAll
  <1>4. \A c \in Clients : c \in gone <=> Cached(c)
    BY <1>2 DEF Cached
  <1>5. gone \subseteq 1..Len(socket)
    <2>1. \A i \in 1..Len(lru) : lru[i] \in EntryType
      BY <1>1, CacheParts, ElementOfSeq
    <2>2. gone \subseteq Clients
      BY <1>1, <1>2, <2>1, CacheParts, LenProperties DEF EntryType
    <2> QED
      BY <1>1, <1>4, <2>2, CacheParts DEF SocketsAccounted, Clients
  <1>6. /\ socket' \in Seq(SocketStates) /\ Len(socket') = Len(socket)
        /\ \A c \in 1..Len(socket) : socket'[c] = IF c \in gone THEN "closed" ELSE socket[c]
        /\ deferred' \subseteq 1..Len(socket)
    <2>1. /\ socket \in [1..Len(socket) -> SocketStates] /\ DOMAIN socket = 1..Len(socket)
          /\ Len(socket) \in Nat /\ "closed" \in SocketStates
      BY <1>1, CacheParts, ElementOfSeq, LenProperties DEF SocketStates
    <2>2. socket' \in [1..Len(socket) -> SocketStates]
      BY <1>3, <2>1
    <2>3. socket' \in Seq(SocketStates) /\ Len(socket') = Len(socket)
      BY <2>1, <2>2, SeqDef, LenProperties
    <2>4. deferred' \subseteq 1..Len(socket)
      BY <1>1, <1>3, <1>5, CacheParts
    <2> QED
      BY <1>3, <2>1, <2>3, <2>4
  <1>7. DOMAIN lru' = {} /\ Len(lru') = 0 /\ lru' \in Seq(EntryType) /\ \A c : ~Cached(c)'
    BY <1>3, EmptySeq DEF Cached
  <1>8. \A c \in Clients : leases'[c] = Cardinality(Leasing(c)')
    BY <1>1, <1>3, LeasesSame
  <1>9. CacheTypeOK'
    <2>1. /\ Len(lru') <= MaxClients /\ TenantsApart(lru')
          /\ Len(socket') <= MaxOpened
          /\ inflight' \in [CacheTenants -> 0..Len(socket')] /\ deferred' \subseteq 1..Len(socket')
          /\ leases' \in [Clients -> Nat] /\ borrower' \in [Borrowers -> BorrowType]
      BY <1>1, <1>3, <1>6, <1>7, CacheParts DEF TenantsApart
    <2>2. cacheDown' \in BOOLEAN /\ cacheGap' \in BOOLEAN
      BY <1>1, <1>3 DEF CacheTypeOK
    <2> QED
      BY <1>6, <1>7, <1>8, <2>1, <2>2, CacheTyped
  <1>10. SocketsAccounted'
    <2>1. ASSUME NEW c \in deferred' PROVE socket'[c] # "opening"
      <3>1. CASE c \in deferred
        BY <1>1, <1>6, <3>1, CacheParts DEF SocketsAccounted
      <3>2. CASE c \in gone
        BY <1>5, <1>6, <3>2
      <3> QED
        BY <1>3, <2>1, <3>1, <3>2
    <2>2. ASSUME NEW c \in 1..Len(socket), socket'[c] = "open"
          PROVE  c \in deferred' /\ leases'[c] > 0
      <3>1. socket[c] = "open" /\ c \notin gone /\ c \in Clients
        BY <1>1, <1>6, <2>2, CacheParts
      <3> QED
        BY <1>1, <1>3, <1>4, <3>1 DEF SocketsAccounted
    <2>3. \A q \in Borrowers : borrower'[q].at \in {"granted", "using"} =>
            borrower'[q].client \in 1..Len(socket) /\ socket'[borrower'[q].client] # "opening"
      BY <1>1, <1>3, <1>6 DEF SocketsAccounted
    <2> QED
      BY <1>6, <1>7, <2>1, <2>2, <2>3 DEF SocketsAccounted
  <1>11. LeasesHonoured'
    BY <1>3 DEF LeasesHonoured, Quiet
  <1> QED
    BY <1>9, <1>10, <1>11 DEF CacheOK, CacheInv

LEMMA NextCache ==
  ASSUME CacheOK, [CacheNext]_cacheVars
  PROVE  CacheOK'
  <1>1. CASE UNCHANGED cacheVars
    BY <1>1 DEF cacheVars, CacheOK, CacheTypeOK, CacheInv, SocketsAccounted, LeasesHonoured, Leasing, Cached
  <1>2. ASSUME NEW b \in Borrowers, NEW t \in CacheTenants, GetClient(b, t) PROVE CacheOK'
    BY <1>2, HitCache, JoinCache, OpenColdCache DEF GetClient
  <1> QED
    BY <1>1, <1>2, LeaseCache, ReleaseCache, ConnectedCache, ConnectFailsCache, SettleCache,
       EvictTenantCache, DisconnectAllCache
       DEF CacheNext

\* Every client of a process is cached once, put off or being connected, and
\* its leases are the requests that use it.
THEOREM CacheCorrect == CacheSpec => [](CacheTypeOK /\ CacheInv)
  <1>1. CacheOK /\ [CacheNext]_cacheVars => CacheOK'
    BY NextCache
  <1>2. CacheOK <=> CacheTypeOK /\ CacheInv
    BY DEF CacheOK
  <1> QED
    BY InitCache, <1>1, <1>2, PTL DEF CacheSpec

\* withClient keeps its client connected until shutdown, and no connected client
\* is forgotten: for any number of tenants, requests and cached clients.
THEOREM ClientsStayKept == CacheSpec => []ClientsKept
  <1>1. CacheTypeOK /\ CacheInv => ClientsKept
    <2> SUFFICES ASSUME CacheTypeOK, CacheInv PROVE ClientsKept
      OBVIOUS
    <2>1. BorrowedStaysOpen
      BY DEF CacheInv, LeasesHonoured, BorrowedStaysOpen
    <2>2. NoPoolLeaked
      <3> SUFFICES ASSUME NEW k \in DOMAIN socket, socket[k] = "open", ~Cached(k)
                   PROVE  \E b \in Borrowers : borrower[b].at \in {"granted", "using"} /\ borrower[b].client = k
        BY DEF NoPoolLeaked, Cached
      <3>1. k \in Clients /\ leases[k] > 0
        BY CacheParts DEF CacheInv, SocketsAccounted
      <3> QED
        BY <3>1, LeasedIsUsed
    <2> QED
      BY <2>1, <2>2 DEF ClientsKept
  <1> QED
    BY <1>1, CacheCorrect, PTL

-----------------------------------------------------------------------------
(* Users *)

USE UsersAssumption

CallsSound == \A c \in UserCalls : UserCallSound(c)

-----------------------------------------------------------------------------
(* Types, and what the locals of a call stand for                          *)

LEMMA AdminIsRole == Admin \in Role
  BY DEF Admin, Role, RoleRank

LEMMA UsersTypesInit == UsersInit => UsersTypeOK /\ CallsSound
  <1> SUFFICES ASSUME UsersInit PROVE UsersTypeOK /\ CallsSound
    OBVIOUS
  <1>1. NoUserCall \in UserCallType
    BY DEF NoUserCall, UserCallType, UserPoint, GrantUnits
  <1>2. Admin \in Role
    BY AdminIsRole
  <1>3. UsersTypeOK
    BY <1>1, <1>2, SMTT(30) DEF UsersInit, UsersTypeOK, GrantUnits
  <1>4. CallsSound
    BY DEF UsersInit, CallsSound, UserCallSound, NoUserCall, Granting, Revoking
  <1> QED
    BY <1>3, <1>4

LEMMA Idle == NoUserCall.at = "idle" /\ ~NoUserCall.tx /\ ~NoUserCall.doomed /\ NoUserCall.op = ""
  BY DEF NoUserCall

\* A step that changes one call's locals, and no rows, keeps the types.
LEMMA OneCall ==
  ASSUME UsersTypeOK, CallsSound,
         NEW c \in UserCalls, NEW r \in UserCallType,
         userCall' = [userCall EXCEPT ![c] = r]
  PROVE  /\ userCall' \in [UserCalls -> UserCallType]
         /\ userCall'[c] = r
         /\ \A d \in UserCalls : d # c => userCall'[d] = userCall[d]
  BY DEF UsersTypeOK

\* What a call is when it has started.
Opened(r) ==
    /\ r \in UserCallType /\ r.user \in Logins /\ ~r.tx
    /\ \/ r.at \in {"createLogin", "grantRow"} /\ r.op \in {"invite", "assign"} /\ r.role \in Role
          /\ (r.role = Admin => regime.promote)
       \/ r.at = "guard" /\ r.op = "revoke" /\ r.role = Admin
       \/ r.at = "siblings" /\ r.op = "revoke" /\ r.role \in Role \ {Admin}
       \/ r.at = "guard" /\ r.op = "deactivate"
       \/ r.at = "disable" /\ r.op = "deactivate" /\ Admin \notin RolesOf(r.user)
       \/ r.at = "compare" /\ r.op = "reconcile"

LEMMA RolesOfType == UsersTypeOK => \A u : RolesOf(u) \subseteq Role
  BY DEF UsersTypeOK, RolesOf

LEMMA CallOpened ==
  ASSUME UsersTypeOK, NEW c \in UserCalls, StartsUserCall(c)
  PROVE  /\ \E r : Opened(r) /\ userCall' = [userCall EXCEPT ![c] = r]
         /\ userCall[c].at = "idle"
         /\ regime.overlap \/ \A d \in UserCalls : userCall[d].at = "idle"
         /\ UNCHANGED <<storeVars, regime>>
         /\ started' \in 0..MaxUserCalls
  <1> DEFINE R(u, at, op, g, read) ==
               [NoUserCall EXCEPT !.at = at, !.user = u, !.op = op, !.role = g[1], !.unit = g[2], !.todo = read]
  <1>1. /\ MayStart(c)
        /\ userCall[c].at = "idle"
        /\ regime.overlap \/ \A d \in UserCalls : userCall[d].at = "idle"
        /\ started \in 0..MaxUserCalls /\ started < MaxUserCalls
        /\ regime.grants \subseteq Grants
    BY DEF StartsUserCall, MayStart, UsersTypeOK
  <1>2. PICK u \in Logins :
          \/ \E g \in regime.grants : Invite(c, u, g) \/ AssignRole(c, u, g) \/ RevokeRole(c, u, g)
          \/ Deactivate(c, u)
          \/ Reconcile(c, u)
    BY DEF StartsUserCall
  <1>3. ASSUME NEW g \in Grants
        PROVE  g[1] \in Role /\ g[2] \in GrantUnits
    BY DEF GrantUnits
  <1>4. Anywhere \in GrantUnits /\ RolesOf(u) \in SUBSET Role
    BY RolesOfType DEF GrantUnits
  <1>5. ASSUME NEW at, NEW op, NEW g, NEW read, StartUserCall(c, u, at, op, g, read)
        PROVE  /\ userCall' = [userCall EXCEPT ![c] = R(u, at, op, g, read)]
               /\ UNCHANGED <<storeVars, regime>>
               /\ started' \in 0..MaxUserCalls
    BY <1>1, <1>5 DEF StartUserCall
  <1>6. ASSUME NEW g \in regime.grants, Invite(c, u, g)
        PROVE  /\ Opened(R(u, "createLogin", "invite", g, {}))
               /\ StartUserCall(c, u, "createLogin", "invite", g, {})
    <2>1. StartUserCall(c, u, "createLogin", "invite", g, {}) /\ (g[1] = Admin => regime.promote)
      BY <1>6 DEF Invite
    <2>2. g[1] \in Role /\ g[2] \in GrantUnits
      BY <1>1, <1>3
    <2> QED
      BY <2>1, <2>2 DEF Opened, NoUserCall, UserCallType, UserPoint, Granting
  <1>7. ASSUME NEW g \in regime.grants, AssignRole(c, u, g)
        PROVE  /\ Opened(R(u, "grantRow", "assign", g, {}))
               /\ StartUserCall(c, u, "grantRow", "assign", g, {})
    <2>1. StartUserCall(c, u, "grantRow", "assign", g, {}) /\ (g[1] = Admin => regime.promote)
      BY <1>7 DEF AssignRole
    <2>2. g[1] \in Role /\ g[2] \in GrantUnits
      BY <1>1, <1>3
    <2> QED
      BY <2>1, <2>2 DEF Opened, NoUserCall, UserCallType, UserPoint, Granting
  <1>8. ASSUME NEW g \in regime.grants, RevokeRole(c, u, g)
        PROVE  \E at : /\ Opened(R(u, at, "revoke", g, {}))
                       /\ StartUserCall(c, u, at, "revoke", g, {})
    <2> DEFINE at == IF g[1] = Admin THEN "guard" ELSE "siblings"
    <2>1. StartUserCall(c, u, at, "revoke", g, {})
      BY <1>8 DEF RevokeRole
    <2>2. g[1] \in Role /\ g[2] \in GrantUnits
      BY <1>1, <1>3
    <2>3. Opened(R(u, at, "revoke", g, {}))
      BY <2>2 DEF Opened, NoUserCall, UserCallType, UserPoint, Revoking
    <2> QED
      BY <2>1, <2>3
  <1>9. ASSUME Deactivate(c, u)
        PROVE  \E at : /\ Opened(R(u, at, "deactivate", <<"", Anywhere>>, {}))
                       /\ StartUserCall(c, u, at, "deactivate", <<"", Anywhere>>, {})
    <2> DEFINE at == IF Admin \in RolesOf(u) THEN "guard" ELSE "disable"
    <2>1. StartUserCall(c, u, at, "deactivate", <<"", Anywhere>>, {})
      BY <1>9 DEF Deactivate
    <2>2. Opened(R(u, at, "deactivate", <<"", Anywhere>>, {}))
      BY <1>4 DEF Opened, NoUserCall, UserCallType, UserPoint, Deactivating
    <2> QED
      BY <2>1, <2>2
  <1>10. ASSUME Reconcile(c, u)
         PROVE  /\ Opened(R(u, "compare", "reconcile", <<"", Anywhere>>, RolesOf(u)))
                /\ StartUserCall(c, u, "compare", "reconcile", <<"", Anywhere>>, RolesOf(u))
    BY <1>4, <1>10 DEF Reconcile, Opened, NoUserCall, UserCallType, UserPoint
  <1>11. PICK r : Opened(r) /\ \E at, op, g, read : r = R(u, at, op, g, read) /\ StartUserCall(c, u, at, op, g, read)
    <2> HIDE DEF R
    <2>1. CASE \E g \in regime.grants : Invite(c, u, g) \/ AssignRole(c, u, g) \/ RevokeRole(c, u, g)
      <3>1. PICK g \in regime.grants : Invite(c, u, g) \/ AssignRole(c, u, g) \/ RevokeRole(c, u, g)
        BY <2>1
      <3> QED
        BY <3>1, <1>6, <1>7, <1>8
    <2>2. CASE Deactivate(c, u)
      BY <2>2, <1>9
    <2>3. CASE Reconcile(c, u)
      BY <2>3, <1>10
    <2> QED
      BY <1>2, <2>1, <2>2, <2>3
  <1>12. PICK at, op, g, read : r = R(u, at, op, g, read) /\ StartUserCall(c, u, at, op, g, read)
    BY <1>11
  <1> HIDE DEF R
  <1> QED
    BY <1>1, <1>5, <1>11, <1>12

LEMMA StartTypes ==
  ASSUME UsersTypeOK, CallsSound, NEW c \in UserCalls, StartsUserCall(c)
  PROVE  UsersTypeOK' /\ CallsSound'
  <1>1. PICK r : Opened(r) /\ userCall' = [userCall EXCEPT ![c] = r]
    BY CallOpened
  <1>2. UNCHANGED <<storeVars, regime>> /\ started' \in 0..MaxUserCalls
    BY CallOpened
  <1>3. /\ userCall' \in [UserCalls -> UserCallType]
        /\ userCall'[c] = r
        /\ \A d \in UserCalls : d # c => userCall'[d] = userCall[d]
    BY <1>1, OneCall DEF Opened
  <1>4. UsersTypeOK'
    BY <1>2, <1>3 DEF UsersTypeOK, storeVars
  <1>5. ASSUME NEW d \in UserCalls PROVE UserCallSound(d)'
    <2>1. CASE d = c
      BY <1>1, <1>2, <1>3, <2>1, AdminIsRole DEF Opened, UserCallSound, Granting, Revoking
    <2>2. CASE d # c
      BY <1>2, <1>3, <2>2 DEF CallsSound, UserCallSound
    <2> QED
      BY <2>1, <2>2
  <1> QED
    BY <1>4, <1>5 DEF CallsSound

\* What the step of a call makes of the locals: it ends, or goes on to another
\* point with the same user, role, unit and purpose.
GoesOn(c, r) ==
    LET k == userCall[c] IN
    /\ r \in UserCallType
    /\ userCall' = [userCall EXCEPT ![c] = r]
    /\ r.user = k.user /\ r.role = k.role /\ r.unit = k.unit /\ r.op = k.op /\ r.doomed = k.doomed

Ends(c) ==
    /\ userCall' \in [UserCalls -> UserCallType]
    /\ userCall'[c] = NoUserCall
    /\ \A d \in UserCalls \ {c} :
         LET k == userCall[d] n == userCall'[d] IN
         /\ n.at = k.at /\ n.user = k.user /\ n.role = k.role /\ n.unit = k.unit /\ n.op = k.op
         /\ n.tx = k.tx /\ n.todo = k.todo /\ (~n.doomed => ~k.doomed)

LEMMA NoCallType == NoUserCall \in UserCallType
  BY DEF NoUserCall, UserCallType, UserPoint, GrantUnits

LEMMA GoToOn ==
  ASSUME UsersTypeOK, NEW c \in UserCalls, NEW at \in UserPoint, GoTo(c, at)
  PROVE  \E r : GoesOn(c, r) /\ r.at = at /\ r.tx = userCall[c].tx /\ r.todo = userCall[c].todo
  <1> DEFINE r == [userCall[c] EXCEPT !.at = at]
  <1>1. userCall[c] \in UserCallType
    BY DEF UsersTypeOK
  <1>2. userCall' = [userCall EXCEPT ![c] = r]
    BY <1>1 DEF GoTo
  <1>3. /\ r \in UserCallType /\ r.at = at /\ r.user = userCall[c].user /\ r.role = userCall[c].role
        /\ r.unit = userCall[c].unit /\ r.op = userCall[c].op /\ r.doomed = userCall[c].doomed
        /\ r.tx = userCall[c].tx /\ r.todo = userCall[c].todo
    BY <1>1 DEF UserCallType
  <1> QED
    BY <1>2, <1>3 DEF GoesOn

LEMMA EndsOne ==
  ASSUME UsersTypeOK, NEW c \in UserCalls, EndUserCall(c)
  PROVE  Ends(c)
  BY NoCallType DEF UsersTypeOK, EndUserCall, Ends

LEMMA EndsAll ==
  ASSUME UsersTypeOK, NEW c \in UserCalls, NEW changed \in BOOLEAN, EndTransaction(c, changed)
  PROVE  /\ Ends(c)
         /\ \A d \in UserCalls \ {c} :
               userCall'[d].doomed = (userCall[d].doomed \/ (userCall[d].tx /\ userCall[c].tx /\ changed))
  <1> DEFINE n(d) == [userCall[d] EXCEPT !.doomed = @ \/ (userCall[d].tx /\ userCall[c].tx /\ changed)]
  <1>1. userCall' = [d \in UserCalls |-> IF d = c THEN NoUserCall ELSE n(d)]
    BY DEF EndTransaction
  <1>2. ASSUME NEW d \in UserCalls
        PROVE  /\ n(d) \in UserCallType
               /\ n(d).at = userCall[d].at /\ n(d).user = userCall[d].user /\ n(d).role = userCall[d].role
               /\ n(d).unit = userCall[d].unit /\ n(d).op = userCall[d].op /\ n(d).tx = userCall[d].tx
               /\ n(d).todo = userCall[d].todo
               /\ n(d).doomed = (userCall[d].doomed \/ (userCall[d].tx /\ userCall[c].tx /\ changed))
               /\ ~n(d).doomed => ~userCall[d].doomed
    <2>1. userCall[d] \in UserCallType /\ userCall[c] \in UserCallType
      BY DEF UsersTypeOK
    <2> QED
      BY <2>1 DEF UserCallType
  <1> HIDE DEF n
  <1>3. /\ userCall' \in [UserCalls -> UserCallType]
        /\ userCall'[c] = NoUserCall
        /\ \A d \in UserCalls \ {c} : userCall'[d] = n(d)
    BY <1>1, <1>2, NoCallType
  <1> QED
    BY <1>2, <1>3 DEF Ends

\* The points a call goes through.
Follows(k, r) ==
    \/ r.tx = k.tx /\ k.at \in Granting /\ r.at \in Granting
    \/ r.tx = k.tx /\ k.at \in Revoking /\ r.at \in Revoking
    \/ r.tx = k.tx /\ k.at \in Deactivating /\ r.at \in Deactivating
    \/ r.tx /\ k.at = "guard" /\ r.at = IF k.op = "revoke" THEN "siblings" ELSE "disable"
    \/ r.tx = k.tx /\ k.at \in {"compare", "repair"} /\ r.at = "repair" /\ (k.at = "compare" => regime.repair)

\* Every step of a call, told by what becomes of its locals.
LEMMA Steps ==
  ASSUME UsersTypeOK, NEW c \in UserCalls, UserCallStep(c)
  PROVE  /\ userCall[c].at # "idle"
         /\ UNCHANGED <<started, regime>>
         /\ Ends(c) \/ \E r : GoesOn(c, r) /\ Follows(userCall[c], r)
  <1> DEFINE k == userCall[c]
             Onward == Ends(c) \/ \E r : GoesOn(c, r) /\ Follows(k, r)
             Still == UNCHANGED <<started, regime>>
  <1>1. k \in UserCallType
    BY DEF UsersTypeOK
  <1>2. ASSUME NEW at \in UserPoint, GoTo(c, at),
               \/ k.at \in Granting /\ at \in Granting
               \/ k.at \in Revoking /\ at \in Revoking
               \/ k.at \in Deactivating /\ at \in Deactivating
        PROVE  Onward
    BY <1>2, GoToOn DEF Follows
  <1>3. ASSUME EndUserCall(c) PROVE Onward
    BY <1>3, EndsOne
  <1>4. CASE CreateLogin(c)
    <2> DEFINE r == [k EXCEPT !.at = "createAccount", !.created = (login[k.user] = "ABSENT")]
    <2>1. k.at = "createLogin" /\ userCall' = [userCall EXCEPT ![c] = r] /\ Still
      BY <1>1, <1>4 DEF CreateLogin, UserCallType
    <2>2. GoesOn(c, r)
      BY <1>1, <2>1 DEF GoesOn, UserCallType, UserPoint, Granting
    <2>3. Follows(k, r)
      BY <1>1, <2>1 DEF Follows, UserCallType, Granting
    <2> QED
      BY <2>1, <2>2, <2>3
  <1>5. CASE CreateAccount(c)
    BY <1>2, <1>3, <1>5 DEF CreateAccount, Granting, UserPoint
  <1>6. CASE Compensate(c)
    BY <1>3, <1>6 DEF Compensate
  <1>7. CASE GrantRow(c)
    BY <1>2, <1>7 DEF GrantRow, Granting, UserPoint
  <1>8. CASE GrantKeycloak(c)
    BY <1>3, <1>8 DEF GrantKeycloak
  <1>9. CASE Guard(c)
    <2> DEFINE at == IF k.op = "revoke" THEN "siblings" ELSE "disable"
               r == [k EXCEPT !.tx = TRUE, !.at = at]
    <2>1. k.at = "guard" /\ Still /\ (EndUserCall(c) \/ userCall' = [userCall EXCEPT ![c] = r])
      BY <1>1, <1>9 DEF Guard, UserCallType
    <2>2. CASE userCall' = [userCall EXCEPT ![c] = r]
      <3>1. at \in UserPoint
        BY DEF UserPoint, Revoking, Deactivating
      <3> HIDE DEF at
      <3>2. r \in UserCallType /\ r.at = at /\ r.tx = TRUE
        BY <1>1, <3>1 DEF UserCallType
      <3>3. GoesOn(c, r)
        BY <1>1, <2>2, <3>2 DEF GoesOn, UserCallType
      <3>4. Follows(k, r)
        BY <2>1, <3>2 DEF Follows, at
      <3> HIDE DEF r
      <3> QED
        BY <2>1, <3>3, <3>4
    <2> QED
      BY <1>3, <2>1, <2>2
  <1>10. CASE CountSiblings(c)
    BY <1>2, <1>10 DEF CountSiblings, Revoking, UserPoint
  <1>11. CASE RevokeKeycloak(c)
    BY <1>2, <1>11 DEF RevokeKeycloak, Revoking, UserPoint
  <1>12. CASE RevokeRow(c)
    <2>1. PICK changed \in BOOLEAN : EndTransaction(c, changed)
      BY <1>12 DEF RevokeRow
    <2> QED
      BY <1>12, <2>1, EndsAll DEF RevokeRow
  <1>13. CASE DisableLogin(c)
    BY <1>2, <1>13 DEF DisableLogin, Deactivating, UserPoint
  <1>14. CASE DeactivateRow(c)
    <2>1. PICK changed \in BOOLEAN : EndTransaction(c, changed)
      BY <1>14 DEF DeactivateRow
    <2> QED
      BY <1>14, <2>1, EndsAll DEF DeactivateRow
  <1>15. CASE Compare(c)
    <2> DEFINE r == [k EXCEPT !.at = "repair", !.todo = k.todo \ realmRoles[k.user]]
    <2>1. k.at = "compare" /\ Still
          /\ (EndUserCall(c) \/ (regime.repair /\ userCall' = [userCall EXCEPT ![c] = r]))
      BY <1>1, <1>15 DEF Compare, UserCallType
    <2>2. CASE regime.repair /\ userCall' = [userCall EXCEPT ![c] = r]
      <3>1. r \in UserCallType /\ r.at = "repair" /\ r.tx = k.tx
        BY <1>1 DEF UserCallType, UserPoint
      <3>2. GoesOn(c, r)
        BY <1>1, <2>2, <3>1 DEF GoesOn, UserCallType
      <3> QED
        BY <2>1, <2>2, <3>1, <3>2 DEF Follows
    <2> QED
      BY <1>3, <2>1, <2>2
  <1>16. CASE Repair(c)
    <2>1. PICK role \in k.todo :
             EndUserCall(c) \/ userCall' = [userCall EXCEPT ![c].todo = @ \ {role}]
      BY <1>16 DEF Repair
    <2> DEFINE r == [k EXCEPT !.todo = @ \ {role}]
    <2>2. k.at = "repair" /\ Still
      BY <1>16 DEF Repair
    <2>3. CASE userCall' = [userCall EXCEPT ![c].todo = @ \ {role}]
      <3>1. userCall' = [userCall EXCEPT ![c] = r]
        BY <1>1, <2>3 DEF UserCallType
      <3>2. r \in UserCallType /\ r.at = "repair" /\ r.tx = k.tx
        BY <1>1, <2>2 DEF UserCallType, UserPoint
      <3>3. GoesOn(c, r)
        BY <1>1, <3>1, <3>2 DEF GoesOn, UserCallType
      <3> QED
        BY <2>2, <3>2, <3>3 DEF Follows
    <2> QED
      BY <1>3, <2>1, <2>2, <2>3
  <1>17. CASE UserCallFails(c)
    BY <1>2, <1>3, <1>17 DEF UserCallFails, Granting, UserPoint
  <1> QED
    BY <1>4, <1>5, <1>6, <1>7, <1>8, <1>9, <1>10, <1>11, <1>12, <1>13, <1>14, <1>15, <1>16, <1>17
       DEF UserCallStep

\* No step writes to a store what is not of its type.
LEMMA StepStores ==
  ASSUME UsersTypeOK, CallsSound, NEW c \in UserCalls, UserCallStep(c)
  PROVE  /\ account' \in [Logins -> {"ABSENT", "ACTIVE", "INACTIVE"}]
         /\ userRoles' \subseteq Logins \X Role \X GrantUnits
         /\ login' \in [Logins -> {"ABSENT", "ENABLED", "DISABLED"}]
         /\ realmRoles' \in [Logins -> SUBSET Role]
         /\ claims' = claims
  <1>1. userCall[c] \in UserCallType /\ UserCallSound(c)
    BY DEF UsersTypeOK, CallsSound
  <1>2. userCall[c].at \in Granting \cup Revoking => userCall[c].role \in Role
    BY <1>1 DEF UserCallSound
  <1>3. userCall[c].unit \in GrantUnits
    BY <1>1 DEF UserCallType
  <1>4. CASE CreateLogin(c) \/ CreateAccount(c) \/ Compensate(c) \/ DisableLogin(c)
    BY <1>4 DEF UsersTypeOK, CreateLogin, CreateAccount, Compensate, DisableLogin
  <1>5. CASE GrantRow(c)
    <2>1. userCall[c].at = "grantRow" /\ userCall[c].user \in Logins
      BY <1>1, <1>5 DEF GrantRow, UserCallSound
    <2> QED
      BY <1>2, <1>3, <1>5, <2>1 DEF UsersTypeOK, GrantRow, Granting
  <1>6. CASE GrantKeycloak(c)
    BY <1>2, <1>6 DEF UsersTypeOK, GrantKeycloak, Granting
  <1>7. CASE Guard(c) \/ CountSiblings(c) \/ Compare(c) \/ UserCallFails(c)
    BY <1>7 DEF UsersTypeOK, Guard, CountSiblings, Compare, UserCallFails, storeVars
  <1>8. CASE RevokeKeycloak(c) \/ RevokeRow(c) \/ DeactivateRow(c) \/ Repair(c)
    BY <1>8 DEF UsersTypeOK, RevokeKeycloak, RevokeRow, DeactivateRow, Repair
  <1> QED
    BY <1>4, <1>5, <1>6, <1>7, <1>8 DEF UserCallStep

LEMMA StepTypes ==
  ASSUME UsersTypeOK, CallsSound, NEW c \in UserCalls, UserCallStep(c)
  PROVE  UsersTypeOK' /\ CallsSound'
  <1>1. /\ userCall[c].at # "idle"
        /\ UNCHANGED <<started, regime>>
    BY Steps
  <1>2. CASE Ends(c)
    <2>1. UsersTypeOK'
      BY <1>1, <1>2, StepStores DEF UsersTypeOK, Ends
    <2>2. ASSUME NEW d \in UserCalls PROVE UserCallSound(d)'
      <3>1. CASE d = c
        <4>1. userCall'[c] = NoUserCall
          BY <1>2 DEF Ends
        <4> QED
          BY <3>1, <4>1, Idle DEF UserCallSound, Granting, Revoking
      <3>2. CASE d # c
        BY <1>1, <1>2, <3>2 DEF Ends, CallsSound, UserCallSound
      <3> QED
        BY <3>1, <3>2
    <2> QED
      BY <2>1, <2>2 DEF CallsSound
  <1>3. ASSUME NEW r, GoesOn(c, r), Follows(userCall[c], r)
        PROVE  UsersTypeOK' /\ CallsSound'
    <2>1. /\ userCall' \in [UserCalls -> UserCallType]
          /\ userCall'[c] = r
          /\ \A d \in UserCalls : d # c => userCall'[d] = userCall[d]
      BY <1>3, OneCall DEF GoesOn
    <2>2. UsersTypeOK'
      BY <1>1, <2>1, StepStores DEF UsersTypeOK
    <2>3. UserCallSound(c)
      BY DEF CallsSound
    <2>4. ASSUME NEW d \in UserCalls PROVE UserCallSound(d)'
      <3>1. CASE d = c
        BY <1>1, <1>3, <2>1, <2>3, <3>1
           DEF GoesOn, Follows, UserCallSound, Granting, Revoking, Deactivating
      <3>2. CASE d # c
        BY <1>1, <2>1, <3>2 DEF CallsSound, UserCallSound
      <3> QED
        BY <3>1, <3>2
    <2> QED
      BY <2>2, <2>4 DEF CallsSound
  <1> QED
    BY <1>2, <1>3, Steps

LEMMA UsersTypesNext ==
  ASSUME UsersTypeOK, CallsSound, [UsersNext]_usersVars
  PROVE  UsersTypeOK' /\ CallsSound'
  <1>1. CASE \E c \in UserCalls : StartsUserCall(c) \/ UserCallStep(c)
    BY <1>1, StartTypes, StepTypes
  <1>2. CASE \E u \in Logins : RefreshToken(u)
    BY <1>2 DEF RefreshToken, UsersTypeOK, CallsSound, UserCallSound
  <1>3. CASE UNCHANGED usersVars
    BY <1>3 DEF usersVars, UsersTypeOK, CallsSound, UserCallSound
  <1> QED
    BY <1>1, <1>2, <1>3 DEF UsersNext

-----------------------------------------------------------------------------
(* Calls one after the other                                               *)

LEMMA RolesOfRows ==
  /\ \A u, x : x \in RolesOf(u) <=> \E r \in userRoles : r[1] = u /\ r[2] = x
  /\ \A u, x : x \in RolesOf(u)' <=> \E r \in userRoles' : r[1] = u /\ r[2] = x
  BY DEF RolesOf

\* The locals of a call that goes on to another point.
LEMMA GoToLocals ==
  ASSUME UsersTypeOK, NEW c \in UserCalls, NEW at \in UserPoint, GoTo(c, at)
  PROVE  LET k == userCall[c] n == userCall'[c] IN
         /\ n.at = at /\ n.user = k.user /\ n.role = k.role /\ n.unit = k.unit /\ n.todo = k.todo
         /\ n.op = k.op /\ n.tx = k.tx /\ n.doomed = k.doomed
         /\ \A d \in UserCalls \ {c} : userCall'[d] = userCall[d]
  <1>1. PICK r : GoesOn(c, r) /\ r.at = at /\ r.tx = userCall[c].tx /\ r.todo = userCall[c].todo
    BY GoToOn
  <1>2. userCall'[c] = r /\ \A d \in UserCalls \ {c} : userCall'[d] = userCall[d]
    BY <1>1 DEF GoesOn, UsersTypeOK
  <1> QED
    BY <1>1, <1>2 DEF GoesOn

LEMMA SequenceInit == UsersInit => SequenceInv
  <1> SUFFICES ASSUME UsersInit, ~regime.overlap PROVE InSequence
    BY DEF SequenceInv
  <1>1. \A c \in UserCalls : userCall[c].at = "idle"
    BY DEF UsersInit, NoUserCall
  <1>2. ASSUME NEW u \in Logins, NEW x \in realmRoles[u]
        PROVE  x \in RolesOf(u)
    <2>1. u \in Admins /\ x = Admin
      BY <1>2 DEF UsersInit
    <2>2. <<u, Admin, Anywhere>> \in userRoles
      BY <2>1 DEF UsersInit
    <2> QED
      BY <2>1, <2>2, RolesOfRows
  <1> QED
    BY <1>1, <1>2 DEF InSequence, Covered

LEMMA StartSequence ==
  ASSUME UsersTypeOK, CallsSound, SequenceInv, NEW c \in UserCalls, StartsUserCall(c)
  PROVE  SequenceInv'
  <1>1. PICK r : Opened(r) /\ userCall' = [userCall EXCEPT ![c] = r]
    BY CallOpened
  <1>2. /\ userCall'[c] = r
        /\ \A d \in UserCalls : d # c => userCall'[d] = userCall[d]
    BY <1>1, OneCall DEF Opened
  <1>3. UNCHANGED <<storeVars, regime>> /\ (regime.overlap \/ \A d \in UserCalls : userCall[d].at = "idle")
    BY CallOpened
  <1> SUFFICES ASSUME ~regime.overlap PROVE InSequence'
    BY <1>3 DEF SequenceInv
  <1>4. \A u \in Logins : RolesOf(u)' = RolesOf(u)
    BY <1>3 DEF RolesOf, storeVars
  <1>5. \A d \in UserCalls : Covered(d)'
    BY <1>1, <1>2, <1>3 DEF Opened, Covered
  <1> QED
    BY <1>2, <1>3, <1>4, <1>5 DEF SequenceInv, InSequence, storeVars

LEMMA StepSequence ==
  ASSUME UsersTypeOK, CallsSound, SequenceInv, NEW c \in UserCalls, UserCallStep(c)
  PROVE  SequenceInv'
  <1> DEFINE k == userCall[c]
             n == userCall'[c]
             Rows == \A u \in Logins : realmRoles'[u] \subseteq RolesOf(u)'
  <1>1. userCall[c].at # "idle" /\ UNCHANGED regime
    BY Steps
  <1> SUFFICES ASSUME ~regime.overlap PROVE InSequence'
    BY <1>1 DEF SequenceInv
  <1>2. /\ \A d \in UserCalls \ {c} : userCall[d].at = "idle"
        /\ \A u \in Logins : realmRoles[u] \subseteq RolesOf(u)
        /\ Covered(c)
    BY <1>1 DEF SequenceInv, InSequence
  <1>3. \A d \in UserCalls \ {c} : userCall'[d].at = "idle"
    BY <1>2, Steps DEF Ends, GoesOn, UsersTypeOK
  <1>4. /\ k \in UserCallType /\ k.user \in Logins
        /\ k.at \in Granting \cup Revoking => k.role \in Role
    BY <1>1 DEF UsersTypeOK, CallsSound, UserCallSound
  <1>5. SUFFICES Rows /\ Covered(c)'
    BY <1>2, <1>3, <1>5 DEF InSequence, Covered
  <1>6. ASSUME UNCHANGED <<userRoles, realmRoles>> PROVE Rows
    BY <1>2, <1>6 DEF RolesOf
  <1>7. ASSUME EndUserCall(c) PROVE Covered(c)'
    <2>1. n = NoUserCall
      BY <1>7 DEF EndUserCall, UsersTypeOK
    <2> QED
      BY <2>1, Idle DEF Covered
  <1>8. ASSUME NEW at \in UserPoint \ {"grantKeycloak", "revokeRow", "repair"}, GoTo(c, at)
        PROVE  Covered(c)'
    BY <1>8, GoToLocals DEF Covered
  <1>9. CASE CreateLogin(c)
    <2>1. n.at = "createAccount"
      BY <1>4, <1>9 DEF CreateLogin, UsersTypeOK, UserCallType
    <2> QED
      BY <1>6, <1>9, <2>1 DEF CreateLogin, Covered
  <1>10. CASE CreateAccount(c)
    BY <1>6, <1>7, <1>8, <1>10 DEF CreateAccount, UserPoint, Granting
  <1>11. CASE Compensate(c)
    BY <1>6, <1>7, <1>11 DEF Compensate
  <1>12. CASE GrantRow(c)
    <2>1. n.at = "grantKeycloak" /\ n.user = k.user /\ n.role = k.role
      BY <1>12, GoToLocals DEF GrantRow, UserPoint, Granting
    <2>2. userRoles' = userRoles \cup {<<k.user, k.role, k.unit>>} /\ UNCHANGED realmRoles
      BY <1>12 DEF GrantRow
    <2>3. k.role \in {r[2] : r \in {x \in userRoles' : x[1] = k.user}}
      <3> DEFINE row == <<k.user, k.role, k.unit>>
      <3>1. row \in userRoles' /\ row[1] = k.user /\ row[2] = k.role
        BY <2>2
      <3> QED
        BY <3>1
    <2>4. \A u \in Logins : RolesOf(u) \subseteq RolesOf(u)'
      BY <2>2, RolesOfRows
    <2> QED
      BY <1>2, <2>1, <2>2, <2>3, <2>4 DEF Covered, RolesOf
  <1>13. CASE GrantKeycloak(c)
    <2>1. /\ realmRoles' = [realmRoles EXCEPT ![k.user] = @ \cup {k.role}]
          /\ UNCHANGED userRoles /\ EndUserCall(c) /\ k.role \in RolesOf(k.user)
      BY <1>2, <1>13 DEF GrantKeycloak, Covered
    <2>2. \A u \in Logins : RolesOf(u)' = RolesOf(u)
      BY <2>1 DEF RolesOf
    <2>3. Rows
      BY <1>2, <1>4, <2>1, <2>2 DEF UsersTypeOK
    <2> QED
      BY <1>7, <2>1, <2>3
  <1>14. CASE Guard(c)
    <2>1. EndUserCall(c) \/ n.at \in {"siblings", "disable"}
      <3>1. CASE EndUserCall(c)
        BY <3>1
      <3>2. CASE ~EndUserCall(c)
        <4> DEFINE at == IF k.op = "revoke" THEN "siblings" ELSE "disable"
        <4>1. userCall' = [userCall EXCEPT ![c] = [k EXCEPT !.tx = TRUE, !.at = at]]
          BY <1>14, <3>2 DEF Guard
        <4>2. [k EXCEPT !.tx = TRUE, !.at = at].at = at
          BY <1>4 DEF UserCallType
        <4> QED
          BY <4>1, <4>2 DEF UsersTypeOK
      <3> QED
        BY <3>1, <3>2
    <2>2. UNCHANGED <<userRoles, realmRoles>>
      BY <1>14 DEF Guard, storeVars
    <2> QED
      BY <1>6, <1>7, <2>1, <2>2 DEF Covered
  <1>15. CASE CountSiblings(c)
    <2>1. UNCHANGED <<userRoles, realmRoles>>
      BY <1>15 DEF CountSiblings, storeVars
    <2>2. CASE Siblings(k.user, k.role, k.unit) = {}
      BY <1>6, <1>8, <1>15, <2>1, <2>2 DEF CountSiblings, UserPoint, Revoking
    <2>3. CASE Siblings(k.user, k.role, k.unit) # {}
      <3>1. n.at = "revokeRow" /\ n.user = k.user /\ n.role = k.role /\ n.unit = k.unit
        BY <1>15, <2>3, GoToLocals DEF CountSiblings, UserPoint, Revoking
      <3>2. \E r \in userRoles' : r[1] = n.user /\ r[2] = n.role /\ r[3] # n.unit /\ r[3] # Anywhere
        BY <2>1, <2>3, <3>1 DEF Siblings
      <3> QED
        BY <1>6, <2>1, <3>1, <3>2 DEF Covered, Siblings
    <2> QED
      BY <2>2, <2>3
  <1>16. CASE RevokeKeycloak(c)
    <2>1. /\ realmRoles' = [realmRoles EXCEPT ![k.user] = @ \ {k.role}]
          /\ UNCHANGED userRoles
          /\ n.at = "revokeRow" /\ n.user = k.user /\ n.role = k.role
      BY <1>16, GoToLocals DEF RevokeKeycloak, UserPoint, Revoking
    <2>2. \A u \in Logins : RolesOf(u)' = RolesOf(u)
      BY <2>1 DEF RolesOf
    <2>3. k.role \notin realmRoles'[k.user] /\ \A u \in Logins : realmRoles'[u] \subseteq realmRoles[u]
      BY <1>4, <2>1 DEF UsersTypeOK
    <2> QED
      BY <1>2, <2>1, <2>2, <2>3 DEF Covered
  <1>17. CASE RevokeRow(c)
    <2> DEFINE gone == {r \in userRoles : r[1] = k.user /\ r[2] = k.role /\ r[3] = k.unit}
    <2>1. /\ k.at = "revokeRow" /\ UNCHANGED realmRoles
          /\ userRoles' = userRoles \/ userRoles' = userRoles \ gone
      BY <1>17 DEF RevokeRow
    <2>2. k.role \notin realmRoles[k.user] \/ Siblings(k.user, k.role, k.unit) # {}
      BY <1>2, <2>1 DEF Covered
    <2>3. ASSUME NEW u \in Logins, NEW x \in realmRoles[u]
          PROVE  x \in RolesOf(u)'
      <3>1. CASE u = k.user /\ x = k.role
        <4>1. PICK r \in userRoles : r[1] = k.user /\ r[2] = k.role /\ r[3] # k.unit
          BY <2>2, <2>3, <3>1 DEF Siblings
        <4>2. r \in userRoles'
          BY <2>1, <4>1
        <4> QED
          BY <3>1, <4>1, <4>2, RolesOfRows
      <3>2. CASE ~(u = k.user /\ x = k.role)
        <4>1. PICK r \in userRoles : r[1] = u /\ r[2] = x
          BY <1>2, <2>3, RolesOfRows
        <4>2. r \in userRoles'
          BY <2>1, <3>2, <4>1
        <4> QED
          BY <4>1, <4>2, RolesOfRows
      <3> QED
        BY <3>1, <3>2
    <2>4. n = NoUserCall
      BY <1>17 DEF RevokeRow, EndTransaction, UsersTypeOK
    <2> QED
      BY <2>1, <2>3, <2>4, Idle DEF Covered
  <1>18. CASE DisableLogin(c)
    BY <1>6, <1>8, <1>18 DEF DisableLogin, UserPoint, Deactivating
  <1>19. CASE DeactivateRow(c)
    <2>1. n = NoUserCall /\ UNCHANGED <<userRoles, realmRoles>>
      BY <1>19 DEF DeactivateRow, EndTransaction, UsersTypeOK
    <2> QED
      BY <1>6, <2>1, Idle DEF Covered
  <1>20. CASE Compare(c)
    <2>1. UNCHANGED <<userRoles, realmRoles>>
      BY <1>20 DEF Compare, storeVars
    <2>2. CASE EndUserCall(c)
      BY <1>6, <1>7, <2>1, <2>2
    <2>3. CASE ~EndUserCall(c)
      <3>1. n.at = "repair" /\ n.user = k.user /\ n.todo = k.todo \ realmRoles[k.user]
        <4> DEFINE r == [k EXCEPT !.at = "repair", !.todo = k.todo \ realmRoles[k.user]]
        <4>1. userCall' = [userCall EXCEPT ![c] = r]
          BY <1>20, <2>3 DEF Compare
        <4>2. r.at = "repair" /\ r.user = k.user /\ r.todo = k.todo \ realmRoles[k.user]
          BY <1>4 DEF UserCallType
        <4> QED
          BY <4>1, <4>2 DEF UsersTypeOK
      <3> QED
        BY <1>6, <2>1, <3>1 DEF Covered
    <2> QED
      BY <2>2, <2>3
  <1>21. CASE Repair(c)
    <2>1. PICK role \in k.todo :
            /\ userRoles' = {r \in userRoles : ~(r[1] = k.user /\ r[2] = role)}
            /\ EndUserCall(c) \/ userCall' = [userCall EXCEPT ![c].todo = @ \ {role}]
      BY <1>21 DEF Repair
    <2>2. k.at = "repair" /\ UNCHANGED realmRoles
      BY <1>21 DEF Repair
    <2>3. role \notin realmRoles[k.user]
      BY <1>2, <2>1, <2>2 DEF Covered
    <2>4. ASSUME NEW u \in Logins, NEW x \in realmRoles[u]
          PROVE  x \in RolesOf(u)'
      <3>1. PICK r \in userRoles : r[1] = u /\ r[2] = x
        BY <1>2, <2>4, RolesOfRows
      <3>2. r \in userRoles'
        BY <2>1, <2>3, <2>4, <3>1
      <3> QED
        BY <3>1, <3>2, RolesOfRows
    <2>5. CASE EndUserCall(c)
      BY <1>7, <2>2, <2>4, <2>5
    <2>6. CASE userCall' = [userCall EXCEPT ![c].todo = @ \ {role}]
      <3>1. n.at = "repair" /\ n.user = k.user /\ n.todo \subseteq k.todo
        BY <1>4, <2>2, <2>6 DEF UsersTypeOK, UserCallType
      <3> QED
        BY <1>2, <2>2, <2>4, <3>1 DEF Covered
    <2> QED
      BY <2>1, <2>5, <2>6
  <1>22. CASE UserCallFails(c)
    BY <1>6, <1>7, <1>8, <1>22 DEF UserCallFails, UserPoint, Granting, storeVars
  <1> QED
    BY <1>9, <1>10, <1>11, <1>12, <1>13, <1>14, <1>15, <1>16, <1>17, <1>18, <1>19, <1>20, <1>21, <1>22
       DEF UserCallStep

LEMMA SequenceNext ==
  ASSUME UsersTypeOK, CallsSound, SequenceInv, [UsersNext]_usersVars
  PROVE  SequenceInv'
  <1>1. CASE \E c \in UserCalls : StartsUserCall(c) \/ UserCallStep(c)
    BY <1>1, StartSequence, StepSequence
  <1>2. CASE (\E u \in Logins : RefreshToken(u)) \/ UNCHANGED usersVars
    <2>1. UNCHANGED <<userRoles, realmRoles, userCall, regime>>
      BY <1>2 DEF RefreshToken, usersVars
    <2> QED
      BY <2>1 DEF SequenceInv, InSequence, Covered, Siblings, RolesOf
  <1> QED
    BY <1>1, <1>2 DEF UsersNext

-----------------------------------------------------------------------------
(* The last administrator                                                  *)

LEMMA ActiveAdminRows ==
  /\ \A u : u \in ActiveAdmins <=> u \in Logins /\ account[u] = "ACTIVE" /\ Admin \in RolesOf(u)
  /\ \A u : u \in ActiveAdmins' <=> u \in Logins /\ account'[u] = "ACTIVE" /\ Admin \in RolesOf(u)'
  BY DEF ActiveAdmins

\* A count of more than one finds somebody else.
LEMMA AnotherOne ==
  ASSUME NEW S, NEW x, ~(Cardinality(S) <= 1 /\ x \in S)
  PROVE  x \notin S \/ S \ {x} # {}
  <1> SUFFICES ASSUME x \in S, S \ {x} = {} PROVE Cardinality(S) <= 1
    OBVIOUS
  <1>1. S = {x}
    OBVIOUS
  <1>2. Cardinality({x}) = 1
    BY FS_Singleton
  <1> QED
    BY <1>1, <1>2

\* What AdminInv says of the locals of one call.
KeepsOne(k) ==
    /\ k.tx /\ ~k.doomed => k.user \notin ActiveAdmins \/ ActiveAdmins \ {k.user} # {}
    /\ k.at \in Deactivating /\ ~k.tx => Admin \notin RolesOf(k.user)

AdminRowsOld == ~regime.promote => \A u \in Logins : Admin \in RolesOf(u) => account[u] # "ABSENT"

LEMMA AdminInvParts ==
  /\ AdminInv <=> (Calm => /\ ActiveAdmins # {}
                           /\ \A c \in UserCalls : KeepsOne(userCall[c])
                           /\ AdminRowsOld)
  /\ AdminInv' <=> (Calm' => /\ ActiveAdmins' # {}
                             /\ \A c \in UserCalls : KeepsOne(userCall[c])'
                             /\ AdminRowsOld')
  BY DEF AdminInv, KeepsOne, AdminRowsOld

\* The administrators stay, or more of them come, and the locals of a call ask
\* for no more than before.
LEMMA KeepsOnKeeping ==
  ASSUME NEW c \in UserCalls, KeepsOne(userCall[c]), ActiveAdmins # {}, ActiveAdmins \subseteq ActiveAdmins',
         LET k == userCall[c] n == userCall'[c] IN
         /\ n.user = k.user
         /\ n.tx /\ ~n.doomed => k.tx /\ ~k.doomed
         /\ n.at \in Deactivating /\ ~n.tx =>
               k.at \in Deactivating /\ ~k.tx /\ (Admin \in RolesOf(k.user)' => Admin \in RolesOf(k.user))
  PROVE  KeepsOne(userCall[c])'
  BY DEF KeepsOne

LEMMA AdminsInit == UsersInit => AdminInv
  <1> SUFFICES ASSUME UsersInit PROVE AdminInv
    OBVIOUS
  <1>1. PICK a \in Logins : a \in Admins
    OBVIOUS
  <1>2. a \in ActiveAdmins
    <2>1. <<a, Admin, Anywhere>> \in userRoles
      BY <1>1 DEF UsersInit
    <2>2. Admin \in RolesOf(a)
      BY <2>1, RolesOfRows
    <2>3. account[a] = "ACTIVE"
      BY <1>1 DEF UsersInit
    <2> QED
      BY <2>2, <2>3, ActiveAdminRows
  <1>3. \A c \in UserCalls : KeepsOne(userCall[c])
    <2>1. \A c \in UserCalls : userCall[c] = NoUserCall
      BY DEF UsersInit
    <2> QED
      BY <2>1, Idle DEF KeepsOne, Deactivating
  <1>4. AdminRowsOld
    <2>1. \A u \in Logins : Admin \in RolesOf(u) => u \in Admins
      BY RolesOfRows DEF UsersInit
    <2> QED
      BY <2>1 DEF AdminRowsOld, UsersInit
  <1> QED
    BY <1>2, <1>3, <1>4, AdminInvParts

LEMMA StartAdmins ==
  ASSUME UsersTypeOK, CallsSound, AdminInv, NEW c \in UserCalls, StartsUserCall(c)
  PROVE  AdminInv'
  <1>1. PICK r : Opened(r) /\ userCall' = [userCall EXCEPT ![c] = r]
    BY CallOpened
  <1>2. /\ userCall'[c] = r
        /\ \A d \in UserCalls : d # c => userCall'[d] = userCall[d]
    BY <1>1, OneCall DEF Opened
  <1>3. UNCHANGED <<account, userRoles, regime>>
    BY CallOpened DEF storeVars
  <1>4. ActiveAdmins' = ActiveAdmins /\ \A u : RolesOf(u)' = RolesOf(u)
    BY <1>3 DEF ActiveAdmins, RolesOf
  <1> SUFFICES ASSUME Calm
               PROVE  ActiveAdmins' # {} /\ (\A d \in UserCalls : KeepsOne(userCall[d])') /\ AdminRowsOld'
    BY <1>3, AdminInvParts DEF Calm
  <1>5. ActiveAdmins # {} /\ (\A d \in UserCalls : KeepsOne(userCall[d])) /\ AdminRowsOld
    BY AdminInvParts
  <1>6. KeepsOne(userCall[c])'
    BY <1>1, <1>2, <1>4 DEF Opened, KeepsOne, Deactivating
  <1>7. \A d \in UserCalls : d # c => KeepsOne(userCall[d])'
    BY <1>2, <1>4, <1>5 DEF KeepsOne
  <1> QED
    BY <1>3, <1>4, <1>5, <1>6, <1>7 DEF AdminRowsOld

\* A step takes no administrator and appoints none while another call deactivates.
LEMMA KeepingStep ==
  ASSUME UsersTypeOK, CallsSound, AdminInv, Calm, NEW c \in UserCalls, UserCallStep(c),
         ActiveAdmins \subseteq ActiveAdmins',
         Ends(c) \/ userCall[c].at # "guard",
         \/ \A u \in Logins : Admin \in RolesOf(u)' => Admin \in RolesOf(u)
         \/ userCall[c].at \in Granting /\ \A d \in UserCalls \ {c} : userCall[d].at = "idle"
  PROVE  ActiveAdmins' # {} /\ \A d \in UserCalls : KeepsOne(userCall[d])'
  <1>1. ActiveAdmins # {} /\ \A d \in UserCalls : KeepsOne(userCall[d])
    BY AdminInvParts
  <1>2. ASSUME NEW d \in UserCalls, d # c PROVE KeepsOne(userCall[d])'
    <2>1. LET k == userCall[d] n == userCall'[d] IN
          /\ n.user = k.user /\ n.at = k.at /\ n.tx = k.tx
          /\ n.tx /\ ~n.doomed => k.tx /\ ~k.doomed
      BY <1>2, Steps DEF Ends, GoesOn, UsersTypeOK
    <2>2. userCall[d].at \in Deactivating => userCall[d].user \in Logins /\ userCall[d].at # "idle"
      BY DEF CallsSound, UserCallSound, Deactivating
    <2> QED
      BY <1>1, <1>2, <2>1, <2>2, KeepsOnKeeping
  <1>3. KeepsOne(userCall[c])'
    <2>1. CASE Ends(c)
      BY <2>1, Idle DEF Ends, KeepsOne, Deactivating
    <2>2. CASE ~Ends(c)
      <3>1. PICK r : GoesOn(c, r) /\ Follows(userCall[c], r)
        BY <2>2, Steps
      <3>2. userCall'[c] = r
        BY <3>1 DEF GoesOn, UsersTypeOK
      <3>3. /\ r.tx = userCall[c].tx /\ r.doomed = userCall[c].doomed /\ r.user = userCall[c].user
            /\ r.at \in Deactivating => userCall[c].at \in Deactivating
        BY <2>2, <3>1 DEF GoesOn, Follows, Granting, Revoking, Deactivating
      <3>4. userCall[c].at \in Deactivating => userCall[c].user \in Logins /\ userCall[c].at \notin Granting
        BY DEF CallsSound, UserCallSound, Deactivating, Granting
      <3> QED
        BY <1>1, <3>2, <3>3, <3>4, KeepsOnKeeping
    <2> QED
      BY <2>1, <2>2
  <1> QED
    BY <1>1, <1>2, <1>3

\* A call ends by taking the user from the administrators, or by taking nobody:
\* one whose transaction holds dooms the others by it.
LEMMA TakingStep ==
  ASSUME UsersTypeOK, CallsSound, AdminInv, Calm, NEW c \in UserCalls, UserCallStep(c), Ends(c),
         ActiveAdmins \ {userCall[c].user} \subseteq ActiveAdmins',
         \A u \in Logins : Admin \in RolesOf(u)' => Admin \in RolesOf(u),
         \/ ActiveAdmins \subseteq ActiveAdmins'
         \/ /\ userCall[c].tx /\ ~userCall[c].doomed
            /\ \A d \in UserCalls \ {c} : userCall[d].tx => userCall'[d].doomed
  PROVE  ActiveAdmins' # {} /\ \A d \in UserCalls : KeepsOne(userCall[d])'
  <1>1. CASE ActiveAdmins \subseteq ActiveAdmins'
    BY <1>1, KeepingStep
  <1>2. CASE ~(ActiveAdmins \subseteq ActiveAdmins')
    <2>1. ActiveAdmins # {} /\ \A d \in UserCalls : KeepsOne(userCall[d])
      BY AdminInvParts
    <2>2. ActiveAdmins' # {}
      BY <1>2, <2>1 DEF KeepsOne
    <2>3. ASSUME NEW d \in UserCalls PROVE KeepsOne(userCall[d])'
      <3>1. CASE d = c
        BY <3>1, Idle DEF Ends, KeepsOne, Deactivating
      <3>2. CASE d # c
        <4>1. /\ userCall'[d].user = userCall[d].user /\ userCall'[d].at = userCall[d].at
              /\ userCall'[d].tx = userCall[d].tx /\ (userCall[d].tx => userCall'[d].doomed)
          BY <1>2, <3>2 DEF Ends
        <4>2. userCall[d].at \in Deactivating => userCall[d].user \in Logins
          BY DEF CallsSound, UserCallSound, Deactivating
        <4> QED
          BY <2>1, <4>1, <4>2 DEF KeepsOne
      <3> QED
        BY <3>1, <3>2
    <2> QED
      BY <2>2, <2>3
  <1> QED
    BY <1>1, <1>2

LEMMA StepAdmins ==
  ASSUME UsersTypeOK, CallsSound, SequenceInv, AdminInv, NEW c \in UserCalls, UserCallStep(c)
  PROVE  AdminInv'
  <1> DEFINE k == userCall[c]
             Kept == ActiveAdmins' # {} /\ \A d \in UserCalls : KeepsOne(userCall[d])'
             Fewer == \A u \in Logins : Admin \in RolesOf(u)' => Admin \in RolesOf(u)
  <1>1. userCall[c].at # "idle" /\ UNCHANGED regime
    BY Steps
  <1> SUFFICES ASSUME Calm PROVE Kept /\ AdminRowsOld'
    BY <1>1, AdminInvParts DEF Calm
  <1>2. ActiveAdmins # {} /\ (\A d \in UserCalls : KeepsOne(userCall[d])) /\ AdminRowsOld
    BY AdminInvParts
  <1>3. /\ k \in UserCallType /\ k.user \in Logins
        /\ k.at \in Revoking /\ ~k.tx => k.role # Admin
        /\ k.at \in Granting /\ ~regime.promote => k.role # Admin
        /\ k.at # "repair"
    BY <1>1 DEF UsersTypeOK, CallsSound, UserCallSound, Calm
  <1>4. regime.promote => \A d \in UserCalls \ {c} : userCall[d].at = "idle"
    BY <1>1 DEF Calm, SequenceInv, InSequence
  <1>5. ASSUME UNCHANGED <<account, userRoles>>
        PROVE  ActiveAdmins' = ActiveAdmins /\ Fewer /\ AdminRowsOld'
    BY <1>1, <1>2, <1>5 DEF ActiveAdmins, RolesOf, AdminRowsOld
  <1>6. CASE CreateLogin(c) \/ Compensate(c) \/ GrantKeycloak(c) \/ CountSiblings(c) \/ RevokeKeycloak(c)
             \/ DisableLogin(c) \/ Compare(c)
    <2>1. UNCHANGED <<account, userRoles>> /\ k.at # "guard"
      BY <1>6 DEF CreateLogin, Compensate, GrantKeycloak, CountSiblings, RevokeKeycloak, DisableLogin, Compare,
                  storeVars
    <2> QED
      BY <1>5, <2>1, KeepingStep
  <1>7. CASE UserCallFails(c)
    <2>1. UNCHANGED <<account, userRoles>> /\ (Ends(c) \/ k.at # "guard")
      BY <1>7, EndsOne DEF UserCallFails, storeVars
    <2> QED
      BY <1>5, <2>1, KeepingStep
  <1>8. CASE CreateAccount(c)
    <2>1. k.at = "createAccount" /\ UNCHANGED userRoles
          /\ (account' = [account EXCEPT ![k.user] = "ACTIVE"] \/ UNCHANGED account)
      BY <1>8 DEF CreateAccount
    <2>2. \A u \in Logins : RolesOf(u)' = RolesOf(u)
      BY <2>1 DEF RolesOf
    <2>3. \A u \in Logins : account'[u] = account[u] \/ account'[u] = "ACTIVE"
      BY <2>1 DEF UsersTypeOK
    <2>4. ActiveAdmins \subseteq ActiveAdmins'
      BY <2>2, <2>3, ActiveAdminRows
    <2>5. AdminRowsOld'
      BY <1>1, <1>2, <2>2, <2>3 DEF AdminRowsOld
    <2> QED
      BY <2>1, <2>2, <2>4, <2>5, KeepingStep
  <1>9. CASE GrantRow(c)
    <2>1. k.at = "grantRow" /\ UNCHANGED account /\ userRoles' = userRoles \cup {<<k.user, k.role, k.unit>>}
      BY <1>9 DEF GrantRow
    <2>2. \A u \in Logins : RolesOf(u) \subseteq RolesOf(u)'
      BY <2>1, RolesOfRows
    <2>3. ActiveAdmins \subseteq ActiveAdmins'
      BY <2>1, <2>2, ActiveAdminRows
    <2>4. k.role # Admin => Fewer
      BY <2>1, RolesOfRows
    <2>5. k.role # Admin \/ (k.at \in Granting /\ regime.promote)
      BY <1>3, <2>1 DEF Granting
    <2>6. Kept
      BY <1>4, <2>1, <2>3, <2>4, <2>5, KeepingStep
    <2>7. AdminRowsOld'
      BY <1>1, <1>2, <2>1, <2>4, <2>5 DEF AdminRowsOld
    <2> QED
      BY <2>6, <2>7
  <1>10. CASE Guard(c)
    <2>1. UNCHANGED <<account, userRoles>> /\ k.at = "guard"
      BY <1>10 DEF Guard, storeVars
    <2>2. CASE EndUserCall(c)
      BY <1>5, <2>1, <2>2, EndsOne, KeepingStep
    <2>3. CASE ~EndUserCall(c)
      <3> DEFINE at == IF k.op = "revoke" THEN "siblings" ELSE "disable"
                 r == [k EXCEPT !.tx = TRUE, !.at = at]
      <3>1. /\ userCall' = [userCall EXCEPT ![c] = r]
            /\ ~(Cardinality(ActiveAdmins) <= 1 /\ k.user \in ActiveAdmins)
        BY <1>10, <2>3 DEF Guard
      <3>2. r.user = k.user /\ r.tx
        BY <1>3 DEF UserCallType
      <3> HIDE DEF r
      <3>3. userCall'[c] = r /\ \A d \in UserCalls \ {c} : userCall'[d] = userCall[d]
        BY <3>1 DEF UsersTypeOK
      <3>4. k.user \notin ActiveAdmins \/ ActiveAdmins \ {k.user} # {}
        BY <3>1, AnotherOne
      <3>5. ActiveAdmins' = ActiveAdmins /\ \A u : RolesOf(u)' = RolesOf(u)
        BY <2>1 DEF ActiveAdmins, RolesOf
      <3>6. ASSUME NEW d \in UserCalls PROVE KeepsOne(userCall[d])'
        <4>1. CASE d = c
          BY <3>2, <3>3, <3>4, <3>5, <4>1 DEF KeepsOne
        <4>2. CASE d # c
          BY <1>2, <3>3, <3>5, <4>2 DEF KeepsOne
        <4> QED
          BY <4>1, <4>2
      <3> QED
        BY <1>2, <1>5, <2>1, <3>5, <3>6
    <2> QED
      BY <2>2, <2>3
  <1>11. CASE RevokeRow(c)
    <2> DEFINE gone == {r \in userRoles : r[1] = k.user /\ r[2] = k.role /\ r[3] = k.unit}
               changed == ~k.doomed /\ gone # {}
    <2>1. /\ k.at = "revokeRow" /\ UNCHANGED account /\ EndTransaction(c, changed)
          /\ userRoles' = IF k.doomed THEN userRoles ELSE userRoles \ gone
      BY <1>11 DEF RevokeRow
    <2>2. /\ Ends(c)
          /\ \A d \in UserCalls \ {c} :
                userCall'[d].doomed = (userCall[d].doomed \/ (userCall[d].tx /\ k.tx /\ changed))
      <3> HIDE DEF changed
      <3>1. changed \in BOOLEAN
        BY DEF changed
      <3> QED
        BY <2>1, <3>1, EndsAll
    <2>3. userRoles' \subseteq userRoles
      BY <2>1
    <2>4. Fewer
      BY <2>3, RolesOfRows
    <2>5. ASSUME NEW u, Admin \in RolesOf(u), u # k.user \/ ~changed \/ k.role # Admin
          PROVE  Admin \in RolesOf(u)'
      <3>1. PICK r \in userRoles : r[1] = u /\ r[2] = Admin
        BY <2>5, RolesOfRows
      <3>2. r \in userRoles'
        BY <2>1, <2>5, <3>1
      <3> QED
        BY <3>1, <3>2, RolesOfRows
    <2>6. ActiveAdmins \ {k.user} \subseteq ActiveAdmins'
      BY <2>1, <2>5, ActiveAdminRows
    <2>7. ActiveAdmins \subseteq ActiveAdmins' \/ (changed /\ k.role = Admin)
      BY <2>1, <2>5, ActiveAdminRows
    <2>8. k.role = Admin => k.tx
      BY <1>3, <2>1 DEF Revoking
    <2>9. Kept
      BY <2>2, <2>4, <2>6, <2>7, <2>8, TakingStep
    <2> QED
      BY <1>1, <1>2, <2>1, <2>4, <2>9 DEF AdminRowsOld
  <1>12. CASE DeactivateRow(c)
    <2> DEFINE changed == ~k.doomed /\ account[k.user] = "ACTIVE"
    <2>1. /\ k.at = "deactivateRow" /\ UNCHANGED userRoles /\ EndTransaction(c, changed)
          /\ account' = IF k.doomed THEN account ELSE [account EXCEPT ![k.user] = "INACTIVE"]
      BY <1>12 DEF DeactivateRow
    <2>2. /\ Ends(c)
          /\ \A d \in UserCalls \ {c} :
                userCall'[d].doomed = (userCall[d].doomed \/ (userCall[d].tx /\ k.tx /\ changed))
      <3> HIDE DEF changed
      <3>1. changed \in BOOLEAN
        BY DEF changed
      <3> QED
        BY <2>1, <3>1, EndsAll
    <2>3. \A u : RolesOf(u)' = RolesOf(u)
      BY <2>1 DEF RolesOf
    <2>4. \A u \in Logins : account'[u] = account[u] \/ (u = k.user /\ ~k.doomed /\ account'[u] = "INACTIVE")
      BY <2>1 DEF UsersTypeOK
    <2>5. ActiveAdmins \ {k.user} \subseteq ActiveAdmins'
      BY <2>3, <2>4, ActiveAdminRows
    <2>6. ActiveAdmins \subseteq ActiveAdmins' \/ (changed /\ Admin \in RolesOf(k.user))
      BY <2>3, <2>4, ActiveAdminRows
    <2>7. Admin \in RolesOf(k.user) => k.tx
      BY <1>2, <2>1 DEF KeepsOne, Deactivating
    <2>8. Kept
      BY <2>2, <2>3, <2>5, <2>6, <2>7, TakingStep
    <2> QED
      BY <1>1, <1>2, <2>3, <2>4, <2>8 DEF AdminRowsOld
  <1>13. ~Repair(c)
    BY <1>3 DEF Repair
  <1> QED
    BY <1>6, <1>7, <1>8, <1>9, <1>10, <1>11, <1>12, <1>13 DEF UserCallStep

LEMMA AdminsNext ==
  ASSUME UsersTypeOK, CallsSound, SequenceInv, AdminInv, [UsersNext]_usersVars
  PROVE  AdminInv'
  <1>1. CASE \E c \in UserCalls : StartsUserCall(c) \/ UserCallStep(c)
    BY <1>1, StartAdmins, StepAdmins
  <1>2. CASE (\E u \in Logins : RefreshToken(u)) \/ UNCHANGED usersVars
    <2>1. UNCHANGED <<account, userRoles, userCall, regime>>
      BY <1>2 DEF RefreshToken, usersVars
    <2> QED
      BY <2>1 DEF AdminInv, Calm, ActiveAdmins, RolesOf
  <1> QED
    BY <1>1, <1>2 DEF UsersNext

-----------------------------------------------------------------------------
(* The theorems                                                            *)

\* Calls stand for what they have done, calls in sequence cover their writes, and
\* transactions leave an administrator, in every reachable state.
THEOREM UsersInvariant == UsersSpec => [](UsersTypeOK /\ UsersInv)
  <1>1. UsersInit => UsersTypeOK /\ UsersInv
    BY UsersTypesInit, SequenceInit, AdminsInit DEF UsersInv, CallsSound
  <1>2. UsersTypeOK /\ UsersInv /\ [UsersNext]_usersVars => (UsersTypeOK /\ UsersInv)'
    <2> SUFFICES ASSUME UsersTypeOK, CallsSound, SequenceInv, AdminInv, [UsersNext]_usersVars
                 PROVE  UsersTypeOK' /\ CallsSound' /\ SequenceInv' /\ AdminInv'
      BY DEF UsersInv, CallsSound
    <2> QED
      BY UsersTypesNext, SequenceNext, AdminsNext
  <1> QED
    BY <1>1, <1>2, PTL DEF UsersSpec

\* However a call breaks off between Keycloak and the tables, calls one after the
\* other leave no realm role without its row.
THEOREM NoRoleWithoutRow == UsersSpec => []NoPrivilegeLeft
  <1>1. UsersTypeOK /\ UsersInv => NoPrivilegeLeft
    BY DEF UsersInv, SequenceInv, InSequence, NoPrivilegeLeft, KeycloakOnly
  <1> QED
    BY <1>1, UsersInvariant, PTL

\* No race of revocations and deactivations, broken off or not, leaves the tenant
\* without an active administrator.
THEOREM AdminRemains == UsersSpec => []LastAdminStays
  <1>1. UsersTypeOK /\ UsersInv => LastAdminStays
    BY DEF UsersInv, AdminInv, Calm, LastAdminStays
  <1> QED
    BY <1>1, UsersInvariant, PTL
=============================================================================
