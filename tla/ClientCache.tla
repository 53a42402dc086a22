---------------------------- MODULE ClientCache ----------------------------
(***************************************************************************)
(* The per-tenant database clients of a process (packages/db).             *)
(*                                                                         *)
(* TenantPrismaManager: an LRU of connected clients; a request borrows the *)
(* client of its tenant and a client that is evicted while borrowed is     *)
(* disconnected by its last borrower.  An action is what runs between two  *)
(* awaits.  getClient and the lease in withClient are two of them: with    *)
(* cacheGap the callbacks of other requests run in between, without it     *)
(* they do not.                                                            *)
(***************************************************************************)
EXTENDS Naturals, FiniteSets, Sequences, SequencesExt

CONSTANTS
    CacheTenants,   \* tenants that requests are for
    Borrowers,      \* requests
    MaxClients,     \* options.maxClients
    MaxOpened,      \* bound: clients created
    CacheGaps       \* which values of cacheGap are explored

ASSUME CacheAssumption ==
    /\ IsFiniteSet(Borrowers)
    /\ 0 \notin CacheTenants
    /\ MaxClients \in Nat \ {0}
    /\ MaxOpened \in Nat
    /\ CacheGaps \subseteq BOOLEAN

VARIABLES
    lru,        \* <<tenant, client>> entries, least recently used first
    inflight,   \* cold start of a tenant: 0, or the client being connected
    socket,     \* clients created, by number: "opening", "open", "closed"
    leases,     \* active borrows of a client
    deferred,   \* deferredDisconnect
    borrower,   \* locals of the requests
    cacheDown,  \* disconnectAll has run
    cacheGap    \* callbacks run between getClient's answer and the lease

cacheVars == <<lru, inflight, socket, leases, deferred, borrower, cacheDown, cacheGap>>

Clients == 1..MaxOpened
NoBorrow == [at |-> "idle", tenant |-> 0, client |-> 0]

CacheInit ==
    /\ lru = <<>>
    /\ inflight = [t \in CacheTenants |-> 0]
    /\ socket = <<>>
    /\ leases = [k \in Clients |-> 0]
    /\ deferred = {}
    /\ borrower = [b \in Borrowers |-> NoBorrow]
    /\ cacheDown = FALSE
    /\ cacheGap \in CacheGaps

\* A cold start whose promise is resolved and not yet removed from inflight.
Settling(t) == inflight[t] # 0 /\ socket[inflight[t]] # "opening"

\* Nothing comes between a promise and what was awaiting it.
Quiet == cacheGap \/ (/\ \A b \in Borrowers : borrower[b].at # "granted"
                      /\ \A t \in CacheTenants : ~Settling(t))

\* The clients cached for a tenant: none or one.
Entry(t) == {i \in DOMAIN lru : lru[i][1] = t}
Held(t) == {lru[i][2] : i \in Entry(t)}
ClientOf(t) == CHOOSE k \in Held(t) : TRUE
CacheWithout(t) == IF Entry(t) = {} THEN lru ELSE RemoveAt(lru, CHOOSE i \in Entry(t) : TRUE)

\* As DisposeAll, but a client that is in use is disconnected with the others.
DisposeAllAtOnce(gone, sockets) ==
    /\ socket' = [k \in DOMAIN sockets |-> IF k \in gone THEN "closed" ELSE sockets[k]]
    /\ UNCHANGED deferred

\* disposeClient, for the clients that leave the cache: a borrowed one waits.
DisposeAll(gone, sockets) ==
    LET used == {k \in gone : leases[k] > 0} IN
    /\ socket' = [k \in DOMAIN sockets |-> IF k \in gone \ used THEN "closed" ELSE sockets[k]]
    /\ deferred' = deferred \cup used

\* getClient: cached, already being connected, or a cold start.  An entry past
\* its idle TTL is disposed of by the get that finds it.
Hit(b, t) ==
    /\ Entry(t) # {}
    /\ borrower' = [borrower EXCEPT ![b] = [at |-> "granted", tenant |-> t, client |-> ClientOf(t)]]
    /\ lru' = Append(CacheWithout(t), <<t, ClientOf(t)>>)
    /\ UNCHANGED <<inflight, socket, deferred>>

Join(b, t) ==
    /\ Entry(t) = {}
    /\ inflight[t] # 0
    /\ borrower' = [borrower EXCEPT ![b] =
         [at |-> IF Settling(t) THEN "granted" ELSE "waiting", tenant |-> t, client |-> inflight[t]]]
    /\ UNCHANGED <<lru, inflight, socket, deferred>>

OpenCold(b, t) ==
    LET k == Len(socket) + 1 IN
    /\ inflight[t] = 0
    /\ k <= MaxOpened
    /\ DisposeAll(Held(t), Append(socket, "opening"))
    /\ lru' = CacheWithout(t)
    /\ inflight' = [inflight EXCEPT ![t] = k]
    /\ borrower' = [borrower EXCEPT ![b] = [at |-> "waiting", tenant |-> t, client |-> k]]

GetClient(b, t) ==
    /\ Quiet
    /\ borrower[b].at = "idle"
    /\ Hit(b, t) \/ Join(b, t) \/ OpenCold(b, t)
    /\ UNCHANGED <<leases, cacheDown, cacheGap>>

\* $connect succeeded: cache.set, which may evict the oldest entry.
Connected(t) ==
    LET k == inflight[t]
        full == Append(CacheWithout(t), <<t, k>>)
        evicted == IF Len(full) > MaxClients THEN {Head(full)[2]} ELSE {}
    IN
    /\ Quiet
    /\ k # 0 /\ socket[k] = "opening"
    /\ lru' = IF evicted = {} THEN full ELSE Tail(full)
    /\ DisposeAll(evicted \cup Held(t), [socket EXCEPT ![k] = "open"])
    /\ borrower' = [b \in Borrowers |-> IF borrower[b].at = "waiting" /\ borrower[b].client = k
                                        THEN [borrower[b] EXCEPT !.at = "granted"] ELSE borrower[b]]
    /\ UNCHANGED <<inflight, leases, cacheDown, cacheGap>>

\* The connection, or the lookup of its URL, failed: every waiting call fails.
ConnectFails(t) ==
    LET k == inflight[t] IN
    /\ Quiet
    /\ k # 0 /\ socket[k] = "opening"
    /\ socket' = [socket EXCEPT ![k] = "closed"]
    /\ inflight' = [inflight EXCEPT ![t] = 0]
    /\ borrower' = [b \in Borrowers |-> IF borrower[b].client = k THEN NoBorrow ELSE borrower[b]]
    /\ UNCHANGED <<lru, leases, deferred, cacheDown, cacheGap>>

\* finally: inflight.delete
Settle(t) ==
    /\ Settling(t)
    /\ inflight' = [inflight EXCEPT ![t] = 0]
    /\ UNCHANGED <<lru, socket, leases, deferred, borrower, cacheDown, cacheGap>>

\* withClient after its await
Lease(b) ==
    /\ borrower[b].at = "granted"
    /\ leases' = [leases EXCEPT ![borrower[b].client] = @ + 1]
    /\ borrower' = [borrower EXCEPT ![b].at = "using"]
    /\ UNCHANGED <<lru, inflight, socket, deferred, cacheDown, cacheGap>>

\* The last borrower is done: the disconnect that was put off.
LastRelease(k) ==
    /\ deferred' = deferred \ {k}
    /\ socket' = IF k \in deferred THEN [socket EXCEPT ![k] = "closed"] ELSE socket

Release(b) ==
    LET k == borrower[b].client IN
    /\ Quiet
    /\ borrower[b].at = "using"
    /\ leases' = [leases EXCEPT ![k] = @ - 1]
    /\ IF leases[k] <= 1 THEN LastRelease(k) ELSE UNCHANGED <<socket, deferred>>
    /\ borrower' = [borrower EXCEPT ![b] = NoBorrow]
    /\ UNCHANGED <<lru, inflight, cacheDown, cacheGap>>

\* evict, when a tenant is suspended
EvictTenant(t) ==
    /\ Quiet
    /\ Entry(t) # {}
    /\ DisposeAll(Held(t), socket)
    /\ lru' = CacheWithout(t)
    /\ UNCHANGED <<inflight, leases, borrower, cacheDown, cacheGap>>

\* disconnectAll: clear disposes of every entry, then each client that was
\* cached is disconnected, in use or not.
DisconnectAll ==
    LET cached == {lru[i][2] : i \in DOMAIN lru} IN
    /\ Quiet
    /\ ~cacheDown
    /\ cacheDown' = TRUE
    /\ lru' = <<>>
    /\ deferred' = deferred \cup {k \in cached : leases[k] > 0}
    /\ socket' = [k \in DOMAIN socket |-> IF k \in cached THEN "closed" ELSE socket[k]]
    /\ UNCHANGED <<inflight, leases, borrower, cacheGap>>

CacheNext ==
    \/ \E b \in Borrowers : (\E t \in CacheTenants : GetClient(b, t)) \/ Lease(b) \/ Release(b)
    \/ \E t \in CacheTenants : Connected(t) \/ ConnectFails(t) \/ Settle(t) \/ EvictTenant(t)
    \/ DisconnectAll

CacheSpec == CacheInit /\ [][CacheNext]_cacheVars

-----------------------------------------------------------------------------
(* Correctness *)

Leasing(k) == {b \in Borrowers : borrower[b].at = "using" /\ borrower[b].client = k}

CacheTypeOK ==
    /\ lru \in Seq(CacheTenants \X Clients) /\ Len(lru) <= MaxClients
    /\ \A i, j \in DOMAIN lru : lru[i][1] = lru[j][1] => i = j
    /\ socket \in Seq({"opening", "open", "closed"}) /\ Len(socket) <= MaxOpened
    /\ inflight \in [CacheTenants -> 0..Len(socket)]
    /\ borrower \in [Borrowers -> [at : {"idle", "waiting", "granted", "using"},
                                   tenant : CacheTenants \cup {0}, client : 0..MaxOpened]]
    /\ deferred \subseteq 1..Len(socket)
    /\ leases \in [Clients -> Nat]
    /\ \A k \in Clients : leases[k] = Cardinality(Leasing(k))
    /\ cacheDown \in BOOLEAN /\ cacheGap \in BOOLEAN

(* "Guarantees the client is not disconnected (by LRU eviction or idle     *)
(* TTL) while fn runs": until shutdown, and unless another request's       *)
(* callback ran between getClient and the lease, the client of a request   *)
(* in progress is connected (withClient, disposeClient).                   *)
BorrowedStaysOpen ==
    ~cacheGap /\ ~cacheDown =>
        \A b \in Borrowers : borrower[b].at = "using" => socket[borrower[b].client] = "open"

(* No connection pool is forgotten: a client that is connected is cached,  *)
(* or somebody holds it or is about to (the LRU bounds the pools of a      *)
(* process only if every client that leaves it is disconnected in the      *)
(* end).                                                                   *)
NoPoolLeaked ==
    \A k \in DOMAIN socket : socket[k] = "open" =>
        \/ \E i \in DOMAIN lru : lru[i][2] = k
        \/ \E b \in Borrowers : borrower[b].at \in {"granted", "using"} /\ borrower[b].client = k

(* What the cache promises its callers and its process (withClient,        *)
(* disposeClient, the limit of the LRU).                                   *)
ClientsKept == BorrowedStaysOpen /\ NoPoolLeaked

Cached(k) == \E i \in DOMAIN lru : lru[i][2] = k

\* A client is cached once and connected; one that was put off is cached no more
\* and is closed by its last borrower; nobody holds a client not yet connected.
SocketsAccounted ==
    /\ \A i, j \in DOMAIN lru : lru[i][2] = lru[j][2] => i = j
    /\ \A k \in Clients : Cached(k) => k <= Len(socket) /\ socket[k] = "open"
    /\ \A k \in deferred : socket[k] # "opening" /\ ~Cached(k)
    /\ \A k \in 1..Len(socket) : socket[k] = "open" => Cached(k) \/ (k \in deferred /\ leases[k] > 0)
    /\ \A b \in Borrowers : borrower[b].at \in {"granted", "using"} =>
        borrower[b].client \in 1..Len(socket) /\ socket[borrower[b].client] # "opening"

\* Without a gap, a client is still in the cache when it is leased, and a leased
\* client is put off, never closed, until shutdown.
LeasesHonoured ==
    ~cacheGap =>
        \A b \in Borrowers :
            /\ borrower[b].at = "granted" => Cached(borrower[b].client)
            /\ borrower[b].at = "using" /\ ~cacheDown => socket[borrower[b].client] = "open"

\* Why ClientsKept holds.
CacheInv == SocketsAccounted /\ LeasesHonoured
=============================================================================
