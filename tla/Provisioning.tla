---------------------------- MODULE Provisioning ----------------------------
(***************************************************************************)
(* The control plane's tenant provisioning pipeline                        *)
(* (apps/control-plane/src: tenants, outbox, provisioning).                *)
(*                                                                         *)
(* signup() writes a tenant, a job and an outbox event in one transaction. *)
(* The outbox relay publishes the event; the consumer runs the handler of  *)
(* the job's current step, the handler advances job.step, and the service  *)
(* publishes one more message for the next step.  A failed handler stamps  *)
(* nextAttemptAt and the retry relay publishes the job again.              *)
(*                                                                         *)
(* Every await of the code is a place where another pod may run, so each   *)
(* handler is one action per awaited call.  A pod holds one delivery here; *)
(* a pod with several (no prefetch is configured) interleaves exactly like *)
(* several pods.  There is one job per tenant, so a job is named by its    *)
(* tenant.                                                                 *)
(***************************************************************************)
EXTENDS Naturals, FiniteSets

CONSTANTS
    Tenants,       \* ids of the tenants that may sign up
    Slugs,         \* slugs (and so realm names) they may ask for
    Pods,          \* control-plane pods: consumer, outbox relay, retry relay
    Passwords,     \* what randomBytes(24) may return
    KcCount,       \* how many Keycloak objects the setup creates (5 in the code)
    BatchLimit,    \* LIMIT of the relays' claim queries (50 in the code)
    FailingSteps,  \* steps whose external calls may be refused
    FaultKinds,    \* which of AllFaults may happen
    MaxFaults,     \* bound on the number of faults in one behaviour
    None           \* SQL NULL, no slug, no password, no tenant

AllFaults == {"emitLost", "emitDup", "connection", "crash", "relayCrash", "dbDown"}

Steps == {"CREATE_DB", "RUN_MIGRATIONS", "SEED", "KEYCLOAK_SETUP", "DONE", "FAILED"}

\* What keycloak-setup creates, in this order: the realm, the realm roles, the
\* web client, the first admin user, the admin's ADMIN_KLIENTA role mapping.
KcObjects == 1..KcCount

ASSUME ConstantsAssumption ==
    /\ None \notin Tenants \cup Slugs \cup Passwords
    /\ KcCount \in Nat \ {0}
    /\ BatchLimit \in Nat \ {0}
    /\ FailingSteps \subseteq Steps
    /\ FaultKinds \subseteq AllFaults
    /\ MaxFaults \in Nat

VARIABLES
    \* control-plane database
    status,       \* tenant.status ("ABSENT" before signup)
    slug,         \* tenant.slug
    dbUrl,        \* the password inside tenant.dbUrl, None while null
    realmMeta,    \* tenant.metadata has realmName
    step,         \* job.step
    attempts,     \* job.attemptCount
    armed,        \* job.nextAttemptAt is not null
    unpublished,  \* tenants whose outbox event has publishedAt null
    \* what the steps build outside the control plane
    rolePw,       \* password of the tenant's Postgres role, None before CREATE ROLE
    dbCreated,    \* the tenant's database exists
    migrated,     \* its schema is deployed
    roots,        \* number of root organizational units in it
    realm,        \* Keycloak objects present in the realm of a slug
    \* broker and processes
    ready,        \* messages waiting in the queue, per job
    outboxLoop,   \* events a pod has claimed and not yet emitted
    retryLoop,    \* jobs a pod has claimed and not yet emitted
    pc,           \* where a pod's delivery is
    msg,          \* the job of that delivery, and its locals:
    rdStep,       \*   the step and
    rdAttempts,   \*   the attemptCount read at the start,
    pw,           \*   the password generated or loaded,
    sawRole,      \*   whether the role was seen,
    kcNext,       \*   the next Keycloak object;
    owns,         \* its message is still this pod's to acknowledge
    faults        \* faults so far

tenantVars   == <<status, slug, dbUrl, realmMeta>>
jobVars      == <<step, attempts, armed>>
builtVars    == <<rolePw, dbCreated, migrated, roots, realm>>
relayVars    == <<unpublished, outboxLoop, retryLoop>>
localVars    == <<msg, rdStep, rdAttempts, pw, sawRole, kcNext, owns>>
deliveryVars == <<pc, localVars>>
vars == <<tenantVars, jobVars, builtVars, relayVars, deliveryVars, ready, faults>>

\* Program points.  The ones in HandlerPoints are inside the try of process().
HandlerPoints == {"persistUrl", "checkRole", "setRole", "checkDb", "createDb",
                  "loadUrl", "migrate", "createRoot", "keycloak", "metadata",
                  "activate", "advance", "after", "emit"}
Points == HandlerPoints \cup {"idle", "read", "catch", "hung", "ack"}

TypeOK ==
    /\ status \in [Tenants -> {"ABSENT", "PENDING", "ACTIVE"}]
    /\ slug \in [Tenants -> Slugs \cup {None}]
    /\ dbUrl \in [Tenants -> Passwords \cup {None}]
    /\ realmMeta \in [Tenants -> BOOLEAN]
    /\ step \in [Tenants -> Steps]
    /\ attempts \in [Tenants -> Nat]
    /\ armed \in [Tenants -> BOOLEAN]
    /\ unpublished \in SUBSET Tenants
    /\ rolePw \in [Tenants -> Passwords \cup {None}]
    /\ dbCreated \in [Tenants -> BOOLEAN]
    /\ migrated \in [Tenants -> BOOLEAN]
    /\ roots \in [Tenants -> Nat]
    /\ realm \in [Slugs -> SUBSET KcObjects]
    /\ ready \in [Tenants -> Nat]
    /\ outboxLoop \in [Pods -> SUBSET Tenants]
    /\ retryLoop \in [Pods -> SUBSET Tenants]
    /\ pc \in [Pods -> Points]
    /\ msg \in [Pods -> Tenants \cup {None}]
    /\ rdStep \in [Pods -> Steps]
    /\ rdAttempts \in [Pods -> Nat]
    /\ pw \in [Pods -> Passwords \cup {None}]
    /\ sawRole \in [Pods -> BOOLEAN]
    /\ kcNext \in [Pods -> KcObjects]
    /\ owns \in [Pods -> BOOLEAN]
    /\ \A p \in Pods : pc[p] # "idle" \/ owns[p] => msg[p] \in Tenants
    /\ faults \in Nat

Init ==
    /\ status = [t \in Tenants |-> "ABSENT"]
    /\ slug = [t \in Tenants |-> None]
    /\ dbUrl = [t \in Tenants |-> None]
    /\ realmMeta = [t \in Tenants |-> FALSE]
    /\ step = [t \in Tenants |-> "CREATE_DB"]
    /\ attempts = [t \in Tenants |-> 0]
    /\ armed = [t \in Tenants |-> FALSE]
    /\ unpublished = {}
    /\ rolePw = [t \in Tenants |-> None]
    /\ dbCreated = [t \in Tenants |-> FALSE]
    /\ migrated = [t \in Tenants |-> FALSE]
    /\ roots = [t \in Tenants |-> 0]
    /\ realm = [s \in Slugs |-> {}]
    /\ ready = [t \in Tenants |-> 0]
    /\ outboxLoop = [p \in Pods |-> {}]
    /\ retryLoop = [p \in Pods |-> {}]
    /\ pc = [p \in Pods |-> "idle"]
    /\ msg = [p \in Pods |-> None]
    /\ rdStep = [p \in Pods |-> "CREATE_DB"]
    /\ rdAttempts = [p \in Pods |-> 0]
    /\ pw = [p \in Pods |-> None]
    /\ sawRole = [p \in Pods |-> FALSE]
    /\ kcNext = [p \in Pods |-> 1]
    /\ owns = [p \in Pods |-> FALSE]
    /\ faults = 0

-----------------------------------------------------------------------------
(* Faults and the broker.                                                  *)

\* A fault of the given kind happens in this step, within the budget.
Fault(kind) ==
    /\ kind \in FaultKinds
    /\ faults < MaxFaults
    /\ faults' = faults + 1

Enqueue(t) == ready' = [ready EXCEPT ![t] = @ + 1]

\* ClientProxy.emit resolves: the message is in the durable queue.
EmitSucceeds(t) == Enqueue(t) /\ UNCHANGED faults

\* It rejects: the message was refused, or the broker took it and the
\* confirmation was lost.
EmitFails(t) ==
    \/ Fault("emitLost") /\ UNCHANGED ready
    \/ Fault("emitDup") /\ Enqueue(t)

-----------------------------------------------------------------------------
(* TenantsService.signup                                                   *)

SlugTaken(s) == \E u \in Tenants : slug[u] = s

\* One transaction; a second tenant with the slug fails on the unique index
\* (409) and writes nothing.
Signup(t, s) ==
    /\ status[t] = "ABSENT"
    /\ ~SlugTaken(s)
    /\ status' = [status EXCEPT ![t] = "PENDING"]
    /\ slug' = [slug EXCEPT ![t] = s]
    /\ unpublished' = unpublished \cup {t}
    /\ UNCHANGED <<dbUrl, realmMeta, jobVars, builtVars, outboxLoop, retryLoop,
                   deliveryVars, ready, faults>>

-----------------------------------------------------------------------------
(* OutboxRelayService.publishPending                                       *)

\* A claim takes every row it finds, up to the LIMIT.
Batch(found, b) ==
    /\ b \subseteq found
    /\ b # {}
    /\ b = found \/ Cardinality(b) = BatchLimit
    /\ Cardinality(b) <= BatchLimit

\* Variant: the rows are read (findMany) and stamped only after the emit.
ClaimOutboxByRead(p) ==
    /\ \E b \in SUBSET unpublished :
        /\ Batch(unpublished, b)
        /\ outboxLoop' = [outboxLoop EXCEPT ![p] = @ \cup b]
    /\ UNCHANGED <<tenantVars, jobVars, builtVars, unpublished, retryLoop, deliveryVars, ready, faults>>

\* UPDATE ... SET published_at = now() ... FOR UPDATE SKIP LOCKED RETURNING
ClaimOutbox(p) ==
    /\ \E b \in SUBSET unpublished :
        /\ Batch(unpublished, b)
        /\ unpublished' = unpublished \ b
        /\ outboxLoop' = [outboxLoop EXCEPT ![p] = @ \cup b]
    /\ UNCHANGED <<tenantVars, jobVars, builtVars, retryLoop, deliveryVars, ready, faults>>

EmitOutbox(p, t) ==
    /\ t \in outboxLoop[p]
    /\ EmitSucceeds(t)
    /\ outboxLoop' = [outboxLoop EXCEPT ![p] = @ \ {t}]
    /\ UNCHANGED <<tenantVars, jobVars, builtVars, unpublished, retryLoop, deliveryVars>>

\* The catch of the loop: publishedAt back to null.
ReleaseOutbox(p, t) ==
    /\ t \in outboxLoop[p]
    /\ EmitFails(t)
    /\ unpublished' = unpublished \cup {t}
    /\ outboxLoop' = [outboxLoop EXCEPT ![p] = @ \ {t}]
    /\ UNCHANGED <<tenantVars, jobVars, builtVars, retryLoop, deliveryVars>>

\* The emit and the release both fail: publishPending rejects, and what the
\* loop had still to emit (others) keeps its publishedAt.
AbortOutbox(p, t) ==
    /\ t \in outboxLoop[p]
    /\ Fault("dbDown")
    /\ \E others \in SUBSET outboxLoop[p] :
        outboxLoop' = [outboxLoop EXCEPT ![p] = @ \ ({t} \cup others)]
    /\ UNCHANGED <<tenantVars, jobVars, builtVars, unpublished, retryLoop, deliveryVars, ready>>

-----------------------------------------------------------------------------
(* RetryRelayService.reEnqueueDue                                          *)

Claimable(t) == armed[t] /\ step[t] \notin {"DONE", "FAILED"}

\* Which armed jobs are due is a matter of time: any of them.
ClaimDue(p) ==
    /\ \E due \in SUBSET {t \in Tenants : Claimable(t)} : \E b \in SUBSET due :
        /\ Batch(due, b)
        /\ armed' = [t \in Tenants |-> armed[t] /\ t \notin b]
        /\ retryLoop' = [retryLoop EXCEPT ![p] = @ \cup b]
    /\ UNCHANGED <<tenantVars, step, attempts, builtVars, unpublished, outboxLoop,
                   deliveryVars, ready, faults>>

EmitDue(p, t) ==
    /\ t \in retryLoop[p]
    /\ EmitSucceeds(t)
    /\ retryLoop' = [retryLoop EXCEPT ![p] = @ \ {t}]
    /\ UNCHANGED <<tenantVars, jobVars, builtVars, unpublished, outboxLoop, deliveryVars>>

\* The catch of the loop: a near-future nextAttemptAt.
Rearm(p, t) ==
    /\ t \in retryLoop[p]
    /\ EmitFails(t)
    /\ armed' = [armed EXCEPT ![t] = TRUE]
    /\ retryLoop' = [retryLoop EXCEPT ![p] = @ \ {t}]
    /\ UNCHANGED <<tenantVars, step, attempts, builtVars, unpublished, outboxLoop, deliveryVars>>

AbortDue(p, t) ==
    /\ t \in retryLoop[p]
    /\ Fault("dbDown")
    /\ \E others \in SUBSET retryLoop[p] :
        retryLoop' = [retryLoop EXCEPT ![p] = @ \ ({t} \cup others)]
    /\ UNCHANGED <<tenantVars, jobVars, builtVars, unpublished, outboxLoop, deliveryVars, ready>>

-----------------------------------------------------------------------------
(* ProvisioningConsumer.handle and ProvisioningService.process             *)

Goto(p, point) == pc' = [pc EXCEPT ![p] = point]

\* The handler's own locals go out of scope, and then the whole delivery.
DropHandlerLocals(p) ==
    /\ pw' = [pw EXCEPT ![p] = None]
    /\ sawRole' = [sawRole EXCEPT ![p] = FALSE]
    /\ kcNext' = [kcNext EXCEPT ![p] = 1]

EndDelivery(p) ==
    /\ Goto(p, "idle")
    /\ msg' = [msg EXCEPT ![p] = None]
    /\ rdStep' = [rdStep EXCEPT ![p] = "CREATE_DB"]
    /\ rdAttempts' = [rdAttempts EXCEPT ![p] = 0]
    /\ owns' = [owns EXCEPT ![p] = FALSE]
    /\ DropHandlerLocals(p)

Deliver(p, t) ==
    /\ pc[p] = "idle"
    /\ ready[t] > 0
    /\ ready' = [ready EXCEPT ![t] = @ - 1]
    /\ Goto(p, "read")
    /\ msg' = [msg EXCEPT ![p] = t]
    /\ owns' = [owns EXCEPT ![p] = TRUE]
    /\ UNCHANGED <<tenantVars, jobVars, builtVars, relayVars, rdStep, rdAttempts, pw, sawRole,
                   kcNext, faults>>

\* stepMap: where the handler of a step begins.
FirstPoint(st) ==
    CASE st = "CREATE_DB" -> "persistUrl"
      [] st \in {"RUN_MIGRATIONS", "SEED"} -> "loadUrl"
      [] st = "KEYCLOAK_SETUP" -> "keycloak"
      [] st = "DONE" -> "activate"
      [] OTHER -> "ack"

ReadJob(p) ==
    /\ pc[p] = "read"
    /\ rdStep' = [rdStep EXCEPT ![p] = step[msg[p]]]
    /\ rdAttempts' = [rdAttempts EXCEPT ![p] = attempts[msg[p]]]
    /\ kcNext' = [kcNext EXCEPT ![p] = 1]
    /\ Goto(p, FirstPoint(step[msg[p]]))
    /\ UNCHANGED <<tenantVars, jobVars, builtVars, relayVars, ready, faults, msg, pw,
                   sawRole, owns>>

(* CreateDbStep.execute *)

PasswordsInUse ==
    {dbUrl[t] : t \in Tenants} \cup {rolePw[t] : t \in Tenants} \cup {pw[p] : p \in Pods}

\* randomBytes(24): never a value in use; which one makes no difference.
FreshPassword == CHOOSE x \in Passwords : x \notin PasswordsInUse

\* A new random password, persisted before any DDL.
PersistUrl(p) ==
    /\ pc[p] = "persistUrl"
    /\ Passwords \ PasswordsInUse # {}
    /\ dbUrl' = [dbUrl EXCEPT ![msg[p]] = FreshPassword]
    /\ pw' = [pw EXCEPT ![p] = FreshPassword]
    /\ Goto(p, "checkRole")
    /\ UNCHANGED <<status, slug, realmMeta, jobVars, builtVars, relayVars, ready, faults,
                   msg, rdStep, rdAttempts, sawRole, kcNext, owns>>

CheckRole(p) ==
    /\ pc[p] = "checkRole"
    /\ sawRole' = [sawRole EXCEPT ![p] = (rolePw[msg[p]] # None)]
    /\ Goto(p, "setRole")
    /\ UNCHANGED <<tenantVars, jobVars, builtVars, relayVars, ready, faults, msg, rdStep,
                   rdAttempts, pw, kcNext, owns>>

\* Variant: an existing role is left as it is.
SetRoleKeeps(p) ==
    /\ pc[p] = "setRole"
    /\ LET t == msg[p] IN
        rolePw' = [rolePw EXCEPT ![t] = IF @ = None THEN pw[p] ELSE @]
    /\ Goto(p, "checkDb")
    /\ UNCHANGED <<tenantVars, jobVars, dbCreated, migrated, roots, realm, relayVars, localVars, ready, faults>>

\* ALTER ROLE if the role was seen, CREATE ROLE if not; CREATE ROLE fails when
\* another delivery created the role in between.
SetRole(p) ==
    /\ pc[p] = "setRole"
    /\ LET t == msg[p] IN
        \/ /\ sawRole[p] \/ rolePw[t] = None
           /\ rolePw' = [rolePw EXCEPT ![t] = pw[p]]
           /\ Goto(p, "checkDb")
        \/ /\ ~sawRole[p] /\ rolePw[t] # None
           /\ Goto(p, "catch")
           /\ UNCHANGED rolePw
    /\ UNCHANGED <<tenantVars, jobVars, dbCreated, migrated, roots, realm, relayVars, localVars, ready, faults>>

CheckDb(p) ==
    /\ pc[p] = "checkDb"
    /\ Goto(p, IF dbCreated[msg[p]] THEN "advance" ELSE "createDb")
    /\ UNCHANGED <<tenantVars, jobVars, builtVars, relayVars, localVars, ready, faults>>

CreateDb(p) ==
    /\ pc[p] = "createDb"
    /\ Goto(p, IF dbCreated[msg[p]] THEN "catch" ELSE "advance")
    /\ dbCreated' = [dbCreated EXCEPT ![msg[p]] = TRUE]
    /\ UNCHANGED <<tenantVars, jobVars, rolePw, migrated, roots, realm, relayVars, localVars, ready, faults>>

(* RunMigrationsStep.execute and SeedStep.execute *)

\* Both read tenant.dbUrl and connect with the password in it.
LoadUrl(p) ==
    /\ pc[p] = "loadUrl"
    /\ pw' = [pw EXCEPT ![p] = dbUrl[msg[p]]]
    /\ Goto(p, IF rdStep[p] = "SEED" THEN "createRoot" ELSE "migrate")
    /\ UNCHANGED <<tenantVars, jobVars, builtVars, relayVars, ready, faults, msg, rdStep,
                   rdAttempts, sawRole, kcNext, owns>>

CanConnect(p) == dbCreated[msg[p]] /\ pw[p] = rolePw[msg[p]]

Migrate(p) ==
    /\ pc[p] = "migrate"
    /\ \/ /\ CanConnect(p)
          /\ migrated' = [migrated EXCEPT ![msg[p]] = TRUE]
          /\ Goto(p, "advance")
       \/ /\ ~CanConnect(p)
          /\ Goto(p, "catch")
          /\ UNCHANGED migrated
    /\ UNCHANGED <<tenantVars, jobVars, rolePw, dbCreated, roots, realm, relayVars, localVars, ready, faults>>

\* organizationalUnit.create: a plain INSERT.
CreateRoot(p) ==
    /\ pc[p] = "createRoot"
    /\ \/ /\ CanConnect(p) /\ migrated[msg[p]]
          /\ roots' = [roots EXCEPT ![msg[p]] = @ + 1]
          /\ Goto(p, "advance")
       \/ /\ ~(CanConnect(p) /\ migrated[msg[p]])
          /\ Goto(p, "catch")
          /\ UNCHANGED roots
    /\ UNCHANGED <<tenantVars, jobVars, rolePw, dbCreated, migrated, realm, relayVars, localVars, ready, faults>>

(* KeycloakSetupStep.execute *)

\* Variant: the loop over the objects runs once too often.
SetupKeycloakOvershoots(p) ==
    /\ pc[p] = "keycloak"
    /\ realm' = [realm EXCEPT ![slug[msg[p]]] = @ \cup {kcNext[p]}]
    /\ \/ /\ kcNext[p] <= KcCount
          /\ kcNext' = [kcNext EXCEPT ![p] = @ + 1]
          /\ UNCHANGED pc
       \/ /\ kcNext[p] > KcCount
          /\ Goto(p, "metadata")
          /\ UNCHANGED kcNext
    /\ UNCHANGED <<tenantVars, jobVars, rolePw, dbCreated, migrated, roots, relayVars,
                   ready, faults, msg, rdStep, rdAttempts, pw, sawRole, owns>>

\* One object per step, 409 Conflict counting as success.
SetupKeycloak(p) ==
    /\ pc[p] = "keycloak"
    /\ realm' = [realm EXCEPT ![slug[msg[p]]] = @ \cup {kcNext[p]}]
    /\ \/ /\ kcNext[p] < KcCount
          /\ kcNext' = [kcNext EXCEPT ![p] = @ + 1]
          /\ UNCHANGED pc
       \/ /\ kcNext[p] = KcCount
          /\ Goto(p, "metadata")
          /\ UNCHANGED kcNext
    /\ UNCHANGED <<tenantVars, jobVars, rolePw, dbCreated, migrated, roots, relayVars,
                   ready, faults, msg, rdStep, rdAttempts, pw, sawRole, owns>>

RecordRealm(p) ==
    /\ pc[p] = "metadata"
    /\ realmMeta' = [realmMeta EXCEPT ![msg[p]] = TRUE]
    /\ Goto(p, "advance")
    /\ UNCHANGED <<status, slug, dbUrl, jobVars, builtVars, relayVars, localVars, ready, faults>>

(* DoneStep.execute *)

Activate(p) ==
    /\ pc[p] = "activate"
    /\ status' = [status EXCEPT ![msg[p]] = "ACTIVE"]
    /\ Goto(p, "advance")
    /\ UNCHANGED <<slug, dbUrl, realmMeta, jobVars, builtVars, relayVars, localVars, ready, faults>>

(* The end of every handler, and the rest of process() *)

\* Variant: the seed step is wired straight to DONE.
NextStepSkips(st) ==
    CASE st = "CREATE_DB" -> "RUN_MIGRATIONS"
      [] st = "RUN_MIGRATIONS" -> "SEED"
      [] OTHER -> "DONE"

NextStep(st) ==
    CASE st = "CREATE_DB" -> "RUN_MIGRATIONS"
      [] st = "RUN_MIGRATIONS" -> "SEED"
      [] st = "SEED" -> "KEYCLOAK_SETUP"
      [] OTHER -> "DONE"

\* provisioningJob.update({ step }): unconditional, whatever the row says now.
Advance(p) ==
    /\ pc[p] = "advance"
    /\ step' = [step EXCEPT ![msg[p]] = NextStep(rdStep[p])]
    /\ Goto(p, "after")
    /\ DropHandlerLocals(p)
    /\ UNCHANGED <<tenantVars, attempts, armed, builtVars, relayVars, ready, faults, msg,
                   rdStep, rdAttempts, owns>>

\* Variant: no message for the transition to DONE.
ReadAfterStopsAtDone(p) ==
    /\ pc[p] = "after"
    /\ Goto(p, IF step[msg[p]] \in {rdStep[p], "DONE", "FAILED"} THEN "ack" ELSE "emit")
    /\ UNCHANGED <<tenantVars, jobVars, builtVars, relayVars, localVars, ready, faults>>

\* The job is read again: anything but the step it had, or FAILED, is emitted.
ReadAfter(p) ==
    /\ pc[p] = "after"
    /\ Goto(p, IF step[msg[p]] \in {rdStep[p], "FAILED"} THEN "ack" ELSE "emit")
    /\ UNCHANGED <<tenantVars, jobVars, builtVars, relayVars, localVars, ready, faults>>

EmitNext(p) ==
    /\ pc[p] = "emit"
    /\ \/ EmitSucceeds(msg[p]) /\ Goto(p, "ack")
       \/ EmitFails(msg[p]) /\ Goto(p, "catch")
    /\ UNCHANGED <<tenantVars, jobVars, builtVars, relayVars, localVars>>

\* Any awaited call of the handler, or the read after it, rejects.
HandlerFails(p) ==
    /\ pc[p] \in HandlerPoints \ {"emit"}
    /\ rdStep[p] \in FailingSteps
    /\ Goto(p, "catch")
    /\ UNCHANGED <<tenantVars, jobVars, builtVars, relayVars, localVars, ready, faults>>

MaxAttempts == 3

\* Variant: the failure is counted and logged, and no next attempt is stored.
CatchForgets(p) ==
    /\ pc[p] = "catch"
    /\ attempts' = [attempts EXCEPT ![msg[p]] = rdAttempts[p] + 1]
    /\ Goto(p, "ack")
    /\ UNCHANGED <<tenantVars, step, armed, builtVars, relayVars, localVars, ready, faults>>

\* Variant: a retry starts the pipeline over.
CatchRestarts(p) ==
    /\ pc[p] = "catch"
    /\ LET t == msg[p] IN
        /\ attempts' = [attempts EXCEPT ![t] = rdAttempts[p] + 1]
        /\ step' = [step EXCEPT ![t] = "CREATE_DB"]
        /\ armed' = [armed EXCEPT ![t] = TRUE]
    /\ Goto(p, "ack")
    /\ UNCHANGED <<tenantVars, builtVars, relayVars, localVars, ready, faults>>

\* The catch: counts from the attemptCount read at the start.
Catch(p) ==
    /\ pc[p] = "catch"
    /\ LET t == msg[p]
           nextAttempt == rdAttempts[p] + 1 IN
        /\ attempts' = [attempts EXCEPT ![t] = nextAttempt]
        /\ \/ /\ nextAttempt >= MaxAttempts
              /\ step' = [step EXCEPT ![t] = "FAILED"]
              /\ UNCHANGED armed
           \/ /\ nextAttempt < MaxAttempts
              /\ armed' = [armed EXCEPT ![t] = TRUE]
              /\ UNCHANGED step
    /\ Goto(p, "ack")
    /\ UNCHANGED <<tenantVars, builtVars, relayVars, localVars, ready, faults>>

\* The first read, or the update in the catch, rejects: both are outside the
\* try, so process() throws and nothing acks.
ProcessThrows(p) ==
    /\ pc[p] \in {"read", "catch"}
    /\ Fault("dbDown")
    /\ Goto(p, "hung")
    /\ UNCHANGED <<tenantVars, jobVars, builtVars, relayVars, localVars, ready>>

Ack(p) ==
    /\ pc[p] = "ack"
    /\ EndDelivery(p)
    /\ UNCHANGED <<tenantVars, jobVars, builtVars, relayVars, ready, faults>>

-----------------------------------------------------------------------------
(* What the broker and the platform do to a pod                            *)

\* The channel closes under a running handler: the broker requeues the
\* unacknowledged message, the handler carries on.
ConnectionLost(p) ==
    /\ owns[p]
    /\ Fault("connection")
    /\ Enqueue(msg[p])
    /\ IF pc[p] = "hung"
         THEN EndDelivery(p)
         ELSE /\ owns' = [owns EXCEPT ![p] = FALSE]
              /\ UNCHANGED <<pc, msg, rdStep, rdAttempts, pw, sawRole, kcNext>>
    /\ UNCHANGED <<tenantVars, jobVars, builtVars, relayVars>>

\* The pod dies.  Its unacknowledged message is requeued; what its relays had
\* claimed and not emitted is remembered by nobody ("relayCrash").
Crash(p) ==
    /\ \/ outboxLoop[p] \cup retryLoop[p] # {} /\ Fault("relayCrash")
       \/ outboxLoop[p] \cup retryLoop[p] = {} /\ pc[p] # "idle" /\ Fault("crash")
    /\ IF owns[p] THEN Enqueue(msg[p]) ELSE UNCHANGED ready
    /\ EndDelivery(p)
    /\ outboxLoop' = [outboxLoop EXCEPT ![p] = {}]
    /\ retryLoop' = [retryLoop EXCEPT ![p] = {}]
    /\ UNCHANGED <<tenantVars, jobVars, builtVars, unpublished>>

-----------------------------------------------------------------------------

Relay(p) ==
    \/ ClaimOutbox(p)
    \/ ClaimDue(p)
    \/ \E t \in Tenants : \/ EmitOutbox(p, t)
                          \/ ReleaseOutbox(p, t)
                          \/ AbortOutbox(p, t)
                          \/ EmitDue(p, t)
                          \/ Rearm(p, t)
                          \/ AbortDue(p, t)

Handle(p) ==
    \/ ReadJob(p)
    \/ PersistUrl(p)
    \/ CheckRole(p)
    \/ SetRole(p)
    \/ CheckDb(p)
    \/ CreateDb(p)
    \/ LoadUrl(p)
    \/ Migrate(p)
    \/ CreateRoot(p)
    \/ SetupKeycloak(p)
    \/ RecordRealm(p)
    \/ Activate(p)
    \/ Advance(p)
    \/ ReadAfter(p)
    \/ EmitNext(p)
    \/ HandlerFails(p)
    \/ Catch(p)
    \/ ProcessThrows(p)
    \/ Ack(p)

Next ==
    \/ \E t \in Tenants, s \in Slugs : Signup(t, s)
    \/ \E p \in Pods : \/ Relay(p)
                       \/ \E t \in Tenants : Deliver(p, t)
                       \/ Handle(p)
                       \/ ConnectionLost(p)
                       \/ Crash(p)

Spec == Init /\ [][Next]_vars

\* The crons tick, the broker delivers and a running handler's awaits settle.
\* Nobody has to sign up, and no fault has to happen.
Fairness ==
    /\ \A p \in Pods : WF_vars(Relay(p)) /\ WF_vars(Handle(p))
    /\ \A t \in Tenants : WF_vars(\E p \in Pods : Deliver(p, t))

FairSpec == Spec /\ Fairness

-----------------------------------------------------------------------------
(* Properties                                                              *)

\* What the pipeline has built for tenant t when its job may be at step st.
Built(t, st) ==
    /\ st \in {"RUN_MIGRATIONS", "SEED", "KEYCLOAK_SETUP", "DONE"}
         => dbUrl[t] # None /\ rolePw[t] # None /\ dbCreated[t]
    /\ st \in {"SEED", "KEYCLOAK_SETUP", "DONE"} => migrated[t]
    /\ st \in {"KEYCLOAK_SETUP", "DONE"} => roots[t] > 0
    /\ st = "DONE" => realmMeta[t] /\ realm[slug[t]] = KcObjects

\* An ACTIVE tenant (DoneStep) has its role, database, schema, root unit and
\* complete realm, whatever was duplicated, lost, retried or overwritten on
\* the way: no interleaving of stale handlers activates a half-built tenant.
ActiveIsBuilt == \A t \in Tenants : status[t] = "ACTIVE" => Built(t, "DONE")

\* The pipeline knows nothing of a tenant that has not signed up.
UnknownBeforeSignup ==
    \A t \in Tenants : slug[t] = None \/ status[t] = "ABSENT" =>
        /\ slug[t] = None
        /\ status[t] = "ABSENT"
        /\ step[t] = "CREATE_DB"
        /\ t \notin unpublished
        /\ ~armed[t]
        /\ ready[t] = 0
        /\ \A p \in Pods : t \notin outboxLoop[p] \cup retryLoop[p] /\ msg[p] # t

\* The handler of which step a program point belongs to.
StepOfPoint(point) ==
    CASE point \in {"persistUrl", "checkRole", "setRole", "checkDb", "createDb"} -> {"CREATE_DB"}
      [] point = "loadUrl" -> {"RUN_MIGRATIONS", "SEED"}
      [] point = "migrate" -> {"RUN_MIGRATIONS"}
      [] point = "createRoot" -> {"SEED"}
      [] point \in {"keycloak", "metadata"} -> {"KEYCLOAK_SETUP"}
      [] point = "activate" -> {"DONE"}
      [] OTHER -> Steps

\* What a delivery knows to exist when it is at its program point.
DeliveryEarned(p) ==
    LET t == msg[p] IN
    /\ rdStep[p] \in StepOfPoint(pc[p])
    /\ pc[p] \notin {"read", "hung"} => Built(t, rdStep[p])
    /\ pc[p] \in {"checkRole", "setRole", "checkDb", "createDb"} => dbUrl[t] # None
    /\ pc[p] \in {"checkRole", "setRole"} => pw[p] # None
    /\ pc[p] \in {"checkDb", "createDb"} => rolePw[t] # None
    /\ pc[p] = "keycloak" => 1..(kcNext[p] - 1) \subseteq realm[slug[t]]
    /\ pc[p] = "metadata" => realm[slug[t]] = KcObjects
    /\ pc[p] = "advance" => Built(t, NextStep(rdStep[p]))

\* Why ActiveIsBuilt holds although handlers overwrite job.step blindly: a step
\* is only ever written by a handler that built everything the step stands for,
\* and nothing that was built is ever removed.
PipelineInv ==
    /\ UnknownBeforeSignup
    /\ \A t \in Tenants : Built(t, step[t])
    /\ \A p \in Pods : pc[p] # "idle" => DeliveryEarned(p)
    /\ ActiveIsBuilt

\* A delivery that has not yet handed its job on.
Working(p, t) == msg[p] = t /\ pc[p] \notin {"idle", "ack"}

\* Something that will run the job's next step: an event to publish, a claimed
\* event or retry, a message, a delivery or its redelivery, a next attempt the
\* retry relay will look at.
Driven(t) ==
    \/ t \in unpublished
    \/ \E p \in Pods : t \in outboxLoop[p] \cup retryLoop[p]
    \/ ready[t] > 0
    \/ \E p \in Pods : Working(p, t)
    \/ Claimable(t)

\* A job that is neither DONE nor FAILED is never forgotten (the outbox event
\* and the message of each step are handed over without a gap).
JobDriven ==
    \A t \in Tenants : status[t] # "ABSENT" /\ step[t] \notin {"DONE", "FAILED"} => Driven(t)

One(b) == IF b THEN 1 ELSE 0

Drivers(t) ==
    One(t \in unpublished) + One(armed[t]) + ready[t]
        + Cardinality({p \in Pods : t \in outboxLoop[p]})
        + Cardinality({p \in Pods : t \in retryLoop[p]})
        + Cardinality({p \in Pods : Working(p, t)})

\* With several pods running both relays and the consumer, and no duplicate
\* from the broker, a job is in one hand at a time: the SKIP LOCKED claims and
\* the retry stamp never put a second message or handler of a job in flight.
OneDriver == \A t \in Tenants : Drivers(t) <= 1

\* Past CREATE_DB the password stored in tenant.dbUrl is the role's password,
\* although every attempt of create-db generates a new one.
UrlMatchesRole ==
    \A t \in Tenants :
        step[t] \in {"RUN_MIGRATIONS", "SEED", "KEYCLOAK_SETUP", "DONE"} => dbUrl[t] = rolePw[t]

\* Job t is in the hand h of pod p ("event", "due" and "queue" are nobody's).
InHand(t, h, p) ==
    /\ t \in unpublished => h = "event"
    /\ armed[t] => h = "due"
    /\ ready[t] > 0 => h = "queue"
    /\ ready[t] <= 1
    /\ \A q \in Pods : /\ t \in outboxLoop[q] => h = "outbox" /\ q = p
                       /\ t \in retryLoop[q] => h = "retry" /\ q = p
                       /\ Working(q, t) => h = "work" /\ q = p

OneHand(t) ==
    \E h \in {"event", "due", "queue", "outbox", "retry", "work"}, p \in Pods \cup {None} :
        InHand(t, h, p)

\* The handler of pod p sees the step and the password it has itself written:
\* nobody else writes the job it works on.
HandlerAlone(p) ==
    /\ pc[p] \in HandlerPoints \ {"after", "emit"} =>
        step[msg[p]] = rdStep[p] /\ rdStep[p] # "FAILED"
    /\ pc[p] \in {"checkRole", "setRole"} => dbUrl[msg[p]] = pw[p]
    /\ pc[p] \in {"checkDb", "createDb", "advance"} => dbUrl[msg[p]] = rolePw[msg[p]]

\* Why OneDriver, UrlMatchesRole and StepsOnlyAdvance hold where nothing is
\* delivered twice.
HandInv ==
    /\ \A t \in Tenants : OneHand(t)
    /\ \A p \in Pods : HandlerAlone(p)
    /\ UrlMatchesRole

\* Job t waits, in a row, a claim or the queue, to be run again.
Waiting(t) ==
    \/ t \in unpublished
    \/ \E p \in Pods : t \in outboxLoop[p] \cup retryLoop[p]
    \/ ready[t] > 0
    \/ armed[t]

\* Job t will be run again or its handler will still hand it on: at "after" the
\* handler does so only while the job has moved from the step it read.
Carried(t) ==
    \/ Waiting(t)
    \/ \E p \in Pods : Working(p, t) /\ (pc[p] = "after" => step[t] # rdStep[p])

\* Why JobDriven holds.  Where a channel is never lost, a pod that works owns
\* its message, so that its death gives the message back.
CarryInv ==
    /\ \A t \in Tenants :
        status[t] # "ABSENT" /\ step[t] \notin {"DONE", "FAILED"} => Carried(t)
    /\ "connection" \notin FaultKinds => \A p \in Pods : pc[p] # "idle" => owns[p]

StepRank == [CREATE_DB |-> 1, RUN_MIGRATIONS |-> 2, SEED |-> 3, KEYCLOAK_SETUP |-> 4,
             DONE |-> 5, FAILED |-> 6]

\* No handler, retry or relay moves a job back to an earlier step.
StepsOnlyAdvance ==
    [][\A t \in Tenants : StepRank[step'[t]] >= StepRank[step[t]]]_step

\* Every signup ends: the tenant becomes ACTIVE or its job FAILED.
Settles ==
    \A t \in Tenants : status[t] = "PENDING" ~> (status[t] = "ACTIVE" \/ step[t] = "FAILED")

\* create-db.step.ts:40 "so a regenerated password can never drift from the
\* stored url": no ACTIVE tenant, at rest, has a url its role refuses.
NoPasswordDrift ==
    \A t \in Tenants :
        status[t] = "ACTIVE" /\ (\A p \in Pods : pc[p] = "idle") => dbUrl[t] = rolePw[t]
=============================================================================
