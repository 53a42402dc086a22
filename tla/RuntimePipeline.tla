-------------------------- MODULE RuntimePipeline --------------------------
(***************************************************************************)
(* The second provisioning pipeline, in apps/tenant-runtime/src (tenants,  *)
(* outbox, provisioning).  It is an older copy of the control plane's: the *)
(* relay emits an event and then marks it published, a retry is a          *)
(* setTimeout of the process, role and database are named by the first     *)
(* eight digits of the tenant id and created without looking, and what     *)
(* Keycloak answers is not read.                                           *)
(*                                                                         *)
(* One process handles several messages at a time (no prefetch is set),    *)
(* and its cron ticks may overlap.  There is one job per tenant.           *)
(***************************************************************************)
EXTENDS Naturals, FiniteSets, Sequences, Functions

CONSTANTS
    Signups,      \* tenants that sign up
    ShortId,      \* the first eight digits of each one's id
    Handlers,     \* messages in work at a time
    Ticks,        \* runs of publishPending at a time
    RtLimits      \* bounds: who signs up, which handlers and ticks there are, faults

ASSUME RuntimeAssumption ==
    /\ DOMAIN ShortId = Signups
    /\ IsFiniteSet(Handlers)
    /\ RtLimits \subseteq [signups : SUBSET Signups, handlers : SUBSET Handlers, ticks : SUBSET Ticks, faults : Nat]

VARIABLES
    rtTenant,     \* tenant row
    rtJob,        \* provisioning_job row
    rtEvents,     \* outbox_event rows, oldest first
    rtPublished,  \* those with publishedAt
    rtQueue,      \* messages waiting, per tenant
    rtTimer,      \* pending setTimeouts, per tenant
    rtRole,       \* Postgres roles by short id: {} or the password
    rtDb,         \* databases by short id: {} or the content
    rtRealm,      \* what exists in the tenant's Keycloak realm
    rtWork,       \* locals of the messages in work
    rtTick,       \* events a publishPending still has to publish, and the one it has emitted
    rtFaults,     \* faults so far
    rtLimit       \* the bounds of this behaviour

rtRows == <<rtTenant, rtJob>>
rtOutbox == <<rtEvents, rtPublished, rtTick>>
rtBuilt == <<rtRole, rtDb, rtRealm>>
rtVars == <<rtRows, rtOutbox, rtQueue, rtTimer, rtBuilt, rtWork, rtFaults, rtLimit>>

RtIdle == [at |-> "idle", tenant |-> "none", step |-> "none", attempts |-> 0]
Quiescent == [batch |-> {}, emitted |-> {}]

RtInit ==
    /\ rtTenant = [t \in Signups |-> [status |-> "ABSENT", url |-> {}, realm |-> FALSE]]
    /\ rtJob = [t \in Signups |-> [step |-> "CREATE_DB", attempts |-> 0]]
    /\ rtEvents = <<>>
    /\ rtPublished = {}
    /\ rtQueue = [t \in Signups |-> 0]
    /\ rtTimer = [t \in Signups |-> 0]
    /\ rtRole = [s \in {ShortId[t] : t \in Signups} |-> {}]
    /\ rtDb = [s \in {ShortId[t] : t \in Signups} |-> {}]
    /\ rtRealm = [t \in Signups |-> {}]
    /\ rtWork = [h \in Handlers |-> RtIdle]
    /\ rtTick = [c \in Ticks |-> Quiescent]
    /\ rtFaults = 0
    /\ rtLimit \in RtLimits

RtFault == rtFaults < rtLimit.faults /\ rtFaults' = rtFaults + 1

Send(t) == rtQueue' = [rtQueue EXCEPT ![t] = @ + 1]

\* signup: tenant, job and event in one transaction.
RtSignup(t) ==
    /\ t \in rtLimit.signups
    /\ rtTenant[t].status = "ABSENT"
    /\ rtTenant' = [rtTenant EXCEPT ![t].status = "PENDING"]
    /\ rtEvents' = Append(rtEvents, t)
    /\ UNCHANGED <<rtJob, rtPublished, rtTick, rtQueue, rtTimer, rtBuilt, rtWork, rtFaults>>

-----------------------------------------------------------------------------
(* OutboxRelayService.publishPending *)

PendingEvents == Range(rtEvents) \ rtPublished

\* The loop takes the events in the order of their rows.
Before(t, u) == \E i, j \in DOMAIN rtEvents : i < j /\ rtEvents[i] = t /\ rtEvents[j] = u

Oldest(batch) == {t \in batch : \A u \in batch : ~Before(u, t)}

\* take: 50
FirstPending == {t \in PendingEvents : Cardinality({u \in PendingEvents : Before(u, t)}) < 50}

FindPending(c) ==
    /\ c \in rtLimit.ticks
    /\ rtTick[c].batch = {}
    /\ PendingEvents # {}
    /\ rtTick' = [rtTick EXCEPT ![c] = [batch |-> FirstPending, emitted |-> {}]]
    /\ UNCHANGED <<rtRows, rtEvents, rtPublished, rtQueue, rtTimer, rtBuilt, rtWork, rtFaults>>

NextEvent(c, t) == rtTick' = [rtTick EXCEPT ![c] = [batch |-> @.batch \ {t}, emitted |-> {}]]

EmitEvent(c) ==
    /\ rtTick[c].emitted = {}
    /\ \E t \in Oldest(rtTick[c].batch) :
         /\ Send(t)
         /\ rtTick' = [rtTick EXCEPT ![c].emitted = {t}]
    /\ UNCHANGED <<rtRows, rtEvents, rtPublished, rtTimer, rtBuilt, rtWork, rtFaults>>

MarkPublished(c) ==
    /\ \E t \in rtTick[c].emitted : rtPublished' = rtPublished \cup {t} /\ NextEvent(c, t)
    /\ UNCHANGED <<rtRows, rtEvents, rtQueue, rtTimer, rtBuilt, rtWork, rtFaults>>

\* As PublishFails, but the event counts as published.
PublishFailsMarks(c) ==
    /\ RtFault
    /\ \E t \in Oldest(rtTick[c].batch) : rtPublished' = rtPublished \cup {t} /\ NextEvent(c, t)
    /\ UNCHANGED <<rtRows, rtEvents, rtQueue, rtTimer, rtBuilt, rtWork>>

\* The emit or the update is refused: logged, and the event stays pending.
PublishFails(c) ==
    /\ RtFault
    /\ \E t \in Oldest(rtTick[c].batch) : NextEvent(c, t)
    /\ UNCHANGED <<rtRows, rtEvents, rtPublished, rtQueue, rtTimer, rtBuilt, rtWork>>

-----------------------------------------------------------------------------
(* ProvisioningConsumer.handle, ProvisioningService.process *)

\* stepMap: the first call of the step's handler; FAILED has none.
RtHandler ==
    [CREATE_DB |-> "user", RUN_MIGRATIONS |-> "migrate", SEED |-> "root",
     KEYCLOAK_SETUP |-> "realm", DONE |-> "activate", FAILED |-> "ack"]

RtNextStep ==
    [CREATE_DB |-> "RUN_MIGRATIONS", RUN_MIGRATIONS |-> "SEED", SEED |-> "KEYCLOAK_SETUP",
     KEYCLOAK_SETUP |-> "DONE", DONE |-> "DONE"]

TenantOf(h) == rtWork[h].tenant
RoleName(h) == ShortId[TenantOf(h)]
Password(h) == <<TenantOf(h), h, rtWork[h].attempts>>
GoOn(h, at) == rtWork' = [rtWork EXCEPT ![h].at = at]

Receive(h, t) ==
    /\ h \in rtLimit.handlers
    /\ rtWork[h].at = "idle"
    /\ rtQueue[t] > 0
    /\ rtQueue' = [rtQueue EXCEPT ![t] = @ - 1]
    /\ rtWork' = [rtWork EXCEPT ![h] = [at |-> RtHandler[rtJob[t].step], tenant |-> t,
                                        step |-> rtJob[t].step, attempts |-> rtJob[t].attempts]]
    /\ UNCHANGED <<rtRows, rtOutbox, rtTimer, rtBuilt, rtFaults>>

\* CreateDbStep: CREATE USER and CREATE DATABASE fail on a name that is taken.
CreateUser(h) ==
    /\ rtWork[h].at = "user"
    /\ IF rtRole[RoleName(h)] = {}
       THEN rtRole' = [rtRole EXCEPT ![RoleName(h)] = {Password(h)}] /\ GoOn(h, "database")
       ELSE GoOn(h, "catch") /\ UNCHANGED rtRole
    /\ UNCHANGED <<rtRows, rtOutbox, rtQueue, rtTimer, rtDb, rtRealm, rtFaults>>

CreateDatabase(h) ==
    /\ rtWork[h].at = "database"
    /\ IF rtDb[RoleName(h)] = {}
       THEN /\ rtDb' = [rtDb EXCEPT ![RoleName(h)] = {[owner |-> TenantOf(h), migrated |-> FALSE, roots |-> 0]}]
            /\ GoOn(h, "url")
       ELSE GoOn(h, "catch") /\ UNCHANGED rtDb
    /\ UNCHANGED <<rtRows, rtOutbox, rtQueue, rtTimer, rtRole, rtRealm, rtFaults>>

StoreUrl(h) ==
    /\ rtWork[h].at = "url"
    /\ rtTenant' = [rtTenant EXCEPT ![TenantOf(h)].url = {Password(h)}]
    /\ GoOn(h, "advance")
    /\ UNCHANGED <<rtJob, rtOutbox, rtQueue, rtTimer, rtBuilt, rtFaults>>

\* The stored url opens the tenant's database.
Opens(t) == rtTenant[t].url # {} /\ rtTenant[t].url = rtRole[ShortId[t]] /\ rtDb[ShortId[t]] # {}

\* RunMigrationsStep
RunMigrations(h) ==
    /\ rtWork[h].at = "migrate"
    /\ IF Opens(TenantOf(h))
       THEN rtDb' = [rtDb EXCEPT ![RoleName(h)] = {[d EXCEPT !.migrated = TRUE] : d \in @}] /\ GoOn(h, "advance")
       ELSE GoOn(h, "catch") /\ UNCHANGED rtDb
    /\ UNCHANGED <<rtRows, rtOutbox, rtQueue, rtTimer, rtRole, rtRealm, rtFaults>>

\* As RtRefused, but the seed's finally block returns.
RtRefusedUnlessSeed(h) ==
    /\ rtWork[h].at \notin {"idle", "ack", "hung"}
    /\ RtFault
    /\ GoOn(h, IF rtWork[h].at = "root" THEN "advance" ELSE IF rtWork[h].at = "catch" THEN "hung" ELSE "catch")
    /\ UNCHANGED <<rtRows, rtOutbox, rtQueue, rtTimer, rtBuilt>>

\* An awaited call is refused.  In the catch block nothing is left to catch it,
\* and the message stays unacknowledged until the process ends.
RtRefused(h) ==
    /\ rtWork[h].at \notin {"idle", "ack", "hung"}
    /\ RtFault
    /\ GoOn(h, IF rtWork[h].at = "catch" THEN "hung" ELSE "catch")
    /\ UNCHANGED <<rtRows, rtOutbox, rtQueue, rtTimer, rtBuilt>>

\* SeedStep: one more root unit; the model counts to 2.
CreateRootUnit(h) ==
    /\ rtWork[h].at = "root"
    /\ IF Opens(TenantOf(h)) /\ \A d \in rtDb[RoleName(h)] : d.migrated
       THEN rtDb' = [rtDb EXCEPT ![RoleName(h)] = {[d EXCEPT !.roots = IF @ < 2 THEN @ + 1 ELSE @] : d \in @}]
            /\ GoOn(h, "advance")
       ELSE GoOn(h, "catch") /\ UNCHANGED rtDb
    /\ UNCHANGED <<rtRows, rtOutbox, rtQueue, rtTimer, rtRole, rtRealm, rtFaults>>

\* KeycloakSetupStep: realm, client, admin; the answers are not read, so a
\* refused request is as good as one that did its work.  The mail that follows
\* leaves nothing behind.
RtKeycloakCalls == [realm |-> "client", client |-> "admin", admin |-> "metadata"]

CallKeycloak(h) ==
    LET call == rtWork[h].at
        works == call = "realm" \/ "realm" \in rtRealm[TenantOf(h)]
    IN
    /\ call \in DOMAIN RtKeycloakCalls
    /\ \/ works /\ rtRealm' = [rtRealm EXCEPT ![TenantOf(h)] = @ \cup {call}] /\ UNCHANGED rtFaults
       \/ ~works /\ UNCHANGED <<rtRealm, rtFaults>>
       \/ RtFault /\ UNCHANGED rtRealm
    /\ GoOn(h, RtKeycloakCalls[call])
    /\ UNCHANGED <<rtRows, rtOutbox, rtQueue, rtTimer, rtRole, rtDb>>

SaveRealm(h) ==
    /\ rtWork[h].at = "metadata"
    /\ rtTenant' = [rtTenant EXCEPT ![TenantOf(h)].realm = TRUE]
    /\ GoOn(h, "advance")
    /\ UNCHANGED <<rtJob, rtOutbox, rtQueue, rtTimer, rtBuilt, rtFaults>>

\* DoneStep
Activate(h) ==
    /\ rtWork[h].at = "activate"
    /\ rtTenant' = [rtTenant EXCEPT ![TenantOf(h)].status = "ACTIVE"]
    /\ GoOn(h, "advance")
    /\ UNCHANGED <<rtJob, rtOutbox, rtQueue, rtTimer, rtBuilt, rtFaults>>

\* The last update of every handler; whatever the row says by now.
AdvanceJob(h) ==
    /\ rtWork[h].at = "advance"
    /\ rtJob' = [rtJob EXCEPT ![TenantOf(h)].step = RtNextStep[rtWork[h].step]]
    /\ GoOn(h, "after")
    /\ UNCHANGED <<rtTenant, rtOutbox, rtQueue, rtTimer, rtBuilt, rtFaults>>

\* The second findUnique of process: is there a next step?
ReadAfter(h) ==
    /\ rtWork[h].at = "after"
    /\ GoOn(h, IF rtJob[TenantOf(h)].step \in {rtWork[h].step, "FAILED"} THEN "ack" ELSE "emit")
    /\ UNCHANGED <<rtRows, rtOutbox, rtQueue, rtTimer, rtBuilt, rtFaults>>

EmitNextStep(h) ==
    /\ rtWork[h].at = "emit"
    /\ Send(TenantOf(h))
    /\ GoOn(h, "ack")
    /\ UNCHANGED <<rtRows, rtOutbox, rtTimer, rtBuilt, rtFaults>>

\* The catch block: the third failure is final, the others start a timer.
CatchError(h) ==
    LET t == TenantOf(h)
        nextAttempt == rtWork[h].attempts + 1
    IN
    /\ rtWork[h].at = "catch"
    /\ rtJob' = [rtJob EXCEPT ![t].attempts = nextAttempt, ![t].step = IF nextAttempt >= 3 THEN "FAILED" ELSE @]
    /\ rtTimer' = [rtTimer EXCEPT ![t] = IF nextAttempt >= 3 THEN @ ELSE @ + 1]
    /\ GoOn(h, "ack")
    /\ UNCHANGED <<rtTenant, rtOutbox, rtQueue, rtBuilt, rtFaults>>

AckMessage(h) ==
    /\ rtWork[h].at = "ack"
    /\ rtWork' = [rtWork EXCEPT ![h] = RtIdle]
    /\ UNCHANGED <<rtRows, rtOutbox, rtQueue, rtTimer, rtBuilt, rtFaults>>

\* setTimeout; a refused emit is lost.
RetryTimer(t) ==
    /\ rtTimer[t] > 0
    /\ rtTimer' = [rtTimer EXCEPT ![t] = @ - 1]
    /\ \/ Send(t) /\ UNCHANGED rtFaults
       \/ RtFault /\ UNCHANGED rtQueue
    /\ UNCHANGED <<rtRows, rtOutbox, rtBuilt, rtWork>>

\* The process ends: the broker delivers again what was not acknowledged.
RtRestart ==
    /\ RtFault
    /\ rtQueue' = [t \in Signups |-> rtQueue[t] + Cardinality({h \in Handlers : TenantOf(h) = t})]
    /\ rtWork' = [h \in Handlers |-> RtIdle]
    /\ rtTimer' = [t \in Signups |-> 0]
    /\ rtTick' = [c \in Ticks |-> Quiescent]
    /\ UNCHANGED <<rtRows, rtEvents, rtPublished, rtBuilt>>

RtStep ==
    \/ \E t \in Signups : RtSignup(t) \/ RetryTimer(t) \/ \E h \in Handlers : Receive(h, t)
    \/ \E c \in Ticks : FindPending(c) \/ EmitEvent(c) \/ MarkPublished(c) \/ PublishFails(c)
    \/ \E h \in Handlers :
        \/ CreateUser(h) \/ CreateDatabase(h) \/ StoreUrl(h) \/ RunMigrations(h) \/ CreateRootUnit(h)
        \/ CallKeycloak(h) \/ SaveRealm(h) \/ Activate(h) \/ AdvanceJob(h)
        \/ ReadAfter(h) \/ EmitNextStep(h) \/ RtRefused(h) \/ CatchError(h) \/ AckMessage(h)
    \/ RtRestart

RtNext == RtStep /\ UNCHANGED rtLimit

RtSpec == RtInit /\ [][RtNext]_rtVars

-----------------------------------------------------------------------------
(* Properties *)

Names == {ShortId[t] : t \in Signups}
Passwords == Signups \X Handlers \X Nat
Databases == [owner : Signups, migrated : BOOLEAN, roots : 0..2]

RtTypeOK ==
    /\ rtTenant \in [Signups -> [status : {"ABSENT", "PENDING", "ACTIVE"}, url : SUBSET Passwords, realm : BOOLEAN]]
    /\ rtJob \in [Signups -> [step : DOMAIN RtHandler, attempts : Nat]]
    /\ rtQueue \in [Signups -> Nat] /\ rtTimer \in [Signups -> Nat]
    /\ rtRole \in [Names -> SUBSET Passwords] /\ rtDb \in [Names -> SUBSET Databases]
    /\ rtRealm \in [Signups -> SUBSET DOMAIN RtKeycloakCalls]
    /\ \A h \in Handlers :
          \/ rtWork[h] = RtIdle
          \/ rtWork[h] \in [at : {"user", "database", "url", "migrate", "root", "realm", "client", "admin", "metadata",
                                  "activate", "advance", "after", "emit", "catch", "hung", "ack"},
                            tenant : Signups, step : DOMAIN RtHandler, attempts : Nat]
    /\ DOMAIN rtWork = Handlers

(* A stored url always opens a database, and it is the tenant's own: two   *)
(* tenants whose ids begin alike never share one, and no second delivery   *)
(* of a job changes the password behind the url (CreateDbStep).            *)
OwnDatabase ==
    \A t \in Signups : rtTenant[t].url # {} =>
        /\ Opens(t)
        /\ \A d \in rtDb[ShortId[t]] : d.owner = t
        /\ \A u \in Signups \ {t} : ShortId[u] = ShortId[t] => rtTenant[u].url = {}

(* A tenant becomes ACTIVE with a migrated database that has a root unit,  *)
(* whatever was refused, redelivered or run twice on the way (the handlers *)
(* advance job.step only after their work).                                *)
ActiveIsBuilt ==
    \A t \in Signups : rtTenant[t].status = "ACTIVE" =>
        /\ Opens(t)
        /\ \A d \in rtDb[ShortId[t]] : d.migrated /\ d.roots > 0
        /\ rtTenant[t].realm

(* What the five steps leave behind, in the middle and at the end.         *)
TenantsBuilt == OwnDatabase /\ ActiveIsBuilt

(* A restart loses retries, and only them: a job that never failed and is  *)
(* not finished still has its event, a message, or a delivery in work      *)
(* (publishPending emits before it marks, handle acknowledges last).       *)
OnlyRetriesAreLost ==
    \A t \in Signups :
        (rtTenant[t].status = "PENDING" /\ rtJob[t].attempts = 0) =>
            \/ t \notin rtPublished
            \/ rtQueue[t] > 0
            \/ \E h \in Handlers : TenantOf(h) = t

-----------------------------------------------------------------------------
\* Why TenantsBuilt holds: a password of a role tells whose database it opens.
NamesInv ==
    /\ \A s \in Names : /\ rtDb[s] # {} => rtRole[s] # {}
                        /\ \A pw, qw \in rtRole[s] : pw = qw
                        /\ \A d \in rtDb[s], pw \in rtRole[s] : d.owner = pw[1]
    /\ \A t \in Signups : rtTenant[t].url # {} => Opens(t) /\ \A pw \in rtTenant[t].url : pw[1] = t

\* What the steps before a step have left behind.
Reached(t, step) ==
    LET before == CASE step = "RUN_MIGRATIONS" -> 1 [] step = "SEED" -> 2 [] step = "KEYCLOAK_SETUP" -> 3
                    [] step = "DONE" -> 4 [] OTHER -> 0
    IN  /\ before >= 1 => rtTenant[t].url # {}
        /\ before >= 2 => \A d \in rtDb[ShortId[t]] : d.migrated
        /\ before >= 3 => \A d \in rtDb[ShortId[t]] : d.roots > 0
        /\ before >= 4 => rtTenant[t].realm

RowsInv ==
    \A t \in Signups : /\ Reached(t, rtJob[t].step)
                       /\ rtTenant[t].status = "ACTIVE" => Reached(t, "DONE")

\* The step whose handler makes a call.
StepOf ==
    [user |-> "CREATE_DB", database |-> "CREATE_DB", url |-> "CREATE_DB", migrate |-> "RUN_MIGRATIONS",
     root |-> "SEED", realm |-> "KEYCLOAK_SETUP", client |-> "KEYCLOAK_SETUP", admin |-> "KEYCLOAK_SETUP",
     metadata |-> "KEYCLOAK_SETUP", activate |-> "DONE"]

\* A handler h with locals w.  CREATE USER succeeds once for a name: who came
\* past it is the only one that will ever create the database and store the url.
HandlerInv(h, w) ==
    w # RtIdle =>
        /\ w.at \in {"database", "url"} => rtRole[ShortId[w.tenant]] = {<<w.tenant, h, w.attempts>>}
        /\ w.at = "url" => rtDb[ShortId[w.tenant]] # {}
        /\ Reached(w.tenant, w.step)
        /\ w.at \in DOMAIN StepOf => w.step = StepOf[w.at]
        /\ w.at = "advance" => w.step \in DOMAIN RtNextStep /\ Reached(w.tenant, RtNextStep[w.step])

RtInv == NamesInv /\ RowsInv /\ \A h \in Handlers : HandlerInv(h, rtWork[h])

-----------------------------------------------------------------------------
\* Why OnlyRetriesAreLost holds.  The event of t has been sent at least once.
Sent(t) == t \in rtPublished \/ \E c \in Ticks : t \in rtTick[c].emitted

\* A message of t waits, or a handler has not yet passed the point where it
\* decides whether to send the next one; it will if the job has moved on.
Driven(t) ==
    \/ rtQueue[t] > 0
    \/ \E h \in Handlers :
          /\ rtWork[h].at \notin {"idle", "ack"} /\ TenantOf(h) = t
          /\ rtWork[h].at = "after" => rtJob[t].step # rtWork[h].step

EventsInv ==
    /\ rtEvents \in Seq(Signups) /\ rtPublished \subseteq Signups
    /\ rtTick \in [Ticks -> [batch : SUBSET Signups, emitted : SUBSET Signups]]
    /\ \A t \in Range(rtEvents) \cup rtPublished : rtTenant[t].status # "ABSENT"
    /\ \A c \in Ticks : \A t \in rtTick[c].batch \cup rtTick[c].emitted : rtTenant[t].status # "ABSENT"

DrivenInv ==
    /\ \A t \in Signups : /\ rtJob[t].step = "FAILED" => rtJob[t].attempts > 0
                          /\ Sent(t) /\ rtTenant[t].status = "PENDING" /\ rtJob[t].attempts = 0 => Driven(t)
    /\ \A h \in Handlers : rtWork[h].at = "advance" /\ rtWork[h].step = "DONE" => rtTenant[TenantOf(h)].status = "ACTIVE"

RelayInv == EventsInv /\ DrivenInv
=============================================================================
