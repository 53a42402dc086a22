------------------------ MODULE ProvisioningProofs ------------------------
(***************************************************************************)
(* Proofs about Provisioning, for any number of tenants, slugs, pods and   *)
(* faults: the types, that an ACTIVE tenant is completely built, that a    *)
(* job is in one hand at a time, and that no job is forgotten.             *)
(***************************************************************************)
EXTENDS Provisioning, FiniteSetTheorems, TLAPS

(***************************************************************************)
(* Every variable keeps its type, and a delivery always names a tenant     *)
(* while it is not idle.                                                   *)
(***************************************************************************)
LEMMA InitType == Init => TypeOK
  BY ConstantsAssumption DEF Init, TypeOK, Steps, Points, KcObjects

\* The signup transaction writes values of the columns' types.
LEMMA SignupType ==
  ASSUME TypeOK, NEW t \in Tenants, NEW s \in Slugs, Signup(t, s)
  PROVE  TypeOK'
  BY DEF TypeOK, Signup, jobVars, builtVars, deliveryVars, localVars

\* Both relays move tenants between the rows and their own loops.
LEMMA RelayType ==
  ASSUME TypeOK, NEW p \in Pods, Relay(p)
  PROVE  TypeOK'
  <1> USE DEF TypeOK, tenantVars, jobVars, builtVars, deliveryVars, localVars
  <1>1. CASE ClaimOutbox(p)
    BY <1>1 DEF ClaimOutbox
  <1>2. CASE ClaimDue(p)
    BY <1>2 DEF ClaimDue
  <1>3. ASSUME NEW t \in Tenants, EmitOutbox(p, t) PROVE TypeOK'
    BY <1>3 DEF EmitOutbox, EmitSucceeds, Enqueue
  <1>4. ASSUME NEW t \in Tenants, ReleaseOutbox(p, t) PROVE TypeOK'
    BY <1>4 DEF ReleaseOutbox, EmitFails, Enqueue, Fault
  <1>5. ASSUME NEW t \in Tenants, AbortOutbox(p, t) PROVE TypeOK'
    BY <1>5 DEF AbortOutbox, Fault
  <1>6. ASSUME NEW t \in Tenants, EmitDue(p, t) PROVE TypeOK'
    BY <1>6 DEF EmitDue, EmitSucceeds, Enqueue
  <1>7. ASSUME NEW t \in Tenants, Rearm(p, t) PROVE TypeOK'
    BY <1>7 DEF Rearm, EmitFails, Enqueue, Fault
  <1>8. ASSUME NEW t \in Tenants, AbortDue(p, t) PROVE TypeOK'
    BY <1>8 DEF AbortDue, Fault
  <1> QED
    BY <1>1, <1>2, <1>3, <1>4, <1>5, <1>6, <1>7, <1>8 DEF Relay

\* A delivery that ends leaves well-typed locals behind.
LEMMA EndDeliveryType ==
  ASSUME TypeOK, NEW p \in Pods, EndDelivery(p)
  PROVE  /\ pc' \in [Pods -> Points]
         /\ msg' \in [Pods -> Tenants \cup {None}]
         /\ rdStep' \in [Pods -> Steps]
         /\ rdAttempts' \in [Pods -> Nat]
         /\ pw' \in [Pods -> Passwords \cup {None}]
         /\ sawRole' \in [Pods -> BOOLEAN]
         /\ kcNext' \in [Pods -> KcObjects]
         /\ owns' \in [Pods -> BOOLEAN]
         /\ \A q \in Pods : pc'[q] # "idle" \/ owns'[q] => msg'[q] \in Tenants
  BY ConstantsAssumption DEF TypeOK, EndDelivery, Goto, DropHandlerLocals, Points, Steps, KcObjects

\* Requeueing a message the pod owns counts it for its job.
LEMMA RequeueType ==
  ASSUME TypeOK, NEW p \in Pods, owns[p], Enqueue(msg[p])
  PROVE  ready' \in [Tenants -> Nat]
  BY DEF TypeOK, Enqueue

\* A crash empties the pod.
LEMMA CrashType ==
  ASSUME TypeOK, NEW p \in Pods, Crash(p)
  PROVE  TypeOK'
  <1>1. ready' \in [Tenants -> Nat]
    BY RequeueType DEF TypeOK, Crash
  <1>2. /\ faults' \in Nat
        /\ outboxLoop' \in [Pods -> SUBSET Tenants]
        /\ retryLoop' \in [Pods -> SUBSET Tenants]
    BY DEF TypeOK, Crash, Fault
  <1>3. EndDelivery(p) /\ UNCHANGED <<tenantVars, jobVars, builtVars, unpublished>>
    BY DEF Crash
  <1> QED
    BY <1>1, <1>2, <1>3, EndDeliveryType DEF TypeOK, tenantVars, jobVars, builtVars

\* A lost channel requeues the message and keeps the handler.
LEMMA ConnectionLostType ==
  ASSUME TypeOK, NEW p \in Pods, ConnectionLost(p)
  PROVE  TypeOK'
  <1>1. ready' \in [Tenants -> Nat] /\ faults' \in Nat
    BY RequeueType DEF TypeOK, ConnectionLost, Fault
  <1>2. UNCHANGED <<tenantVars, jobVars, builtVars, relayVars>>
    BY DEF ConnectionLost
  <1>3. CASE EndDelivery(p)
    BY <1>1, <1>2, <1>3, EndDeliveryType
       DEF TypeOK, tenantVars, jobVars, builtVars, relayVars
  <1>4. CASE /\ owns' = [owns EXCEPT ![p] = FALSE]
             /\ UNCHANGED <<pc, msg, rdStep, rdAttempts, pw, sawRole, kcNext>>
    BY <1>1, <1>2, <1>4 DEF TypeOK, tenantVars, jobVars, builtVars, relayVars
  <1> QED
    BY <1>3, <1>4 DEF ConnectionLost

\* The Keycloak setup stays within its list of objects.
LEMMA SetupKeycloakType ==
  ASSUME TypeOK, NEW p \in Pods, SetupKeycloak(p)
  PROVE  TypeOK'
  <1>1. realm' \in [Slugs -> SUBSET KcObjects]
    <2>1. realm \in [Slugs -> SUBSET KcObjects] /\ kcNext[p] \in KcObjects
      BY DEF TypeOK
    <2>2. realm' = [realm EXCEPT ![slug[msg[p]]] = @ \cup {kcNext[p]}]
      BY DEF SetupKeycloak
    <2>3. \A s \in Slugs : realm[s] \cup {kcNext[p]} \subseteq KcObjects
      BY <2>1
    <2> QED
      BY <2>1, <2>2, <2>3
  <1>2. kcNext' \in [Pods -> KcObjects]
    <2>1. kcNext \in [Pods -> KcObjects]
      BY DEF TypeOK
    <2>2. CASE kcNext[p] < KcCount
      <3>1. kcNext[p] + 1 \in KcObjects
        BY <2>1, <2>2, ConstantsAssumption DEF KcObjects
      <3> QED
        BY <2>1, <2>2, <3>1 DEF SetupKeycloak
    <2>3. CASE ~(kcNext[p] < KcCount)
      BY <2>1, <2>3 DEF SetupKeycloak
    <2> QED
      BY <2>2, <2>3
  <1>3. pc' \in [Pods -> Points] /\ \A q \in Pods : pc'[q] # "idle" => pc[q] # "idle"
    BY DEF TypeOK, SetupKeycloak, Goto, Points, HandlerPoints
  <1> QED
    BY <1>1, <1>2, <1>3 DEF TypeOK, SetupKeycloak, tenantVars, jobVars, relayVars

\* The catch writes a number of attempts and a step.
LEMMA CatchType ==
  ASSUME TypeOK, NEW p \in Pods, Catch(p)
  PROVE  TypeOK'
  <1>1. attempts' \in [Tenants -> Nat]
    BY DEF TypeOK, Catch
  <1>2. step' \in [Tenants -> Steps] /\ armed' \in [Tenants -> BOOLEAN]
    BY DEF TypeOK, Catch, Steps
  <1>3. pc' \in [Pods -> Points] /\ \A q \in Pods : pc'[q] # "idle" => pc[q] # "idle"
    BY DEF TypeOK, Catch, Goto, Points
  <1> QED
    BY <1>1, <1>2, <1>3 DEF TypeOK, Catch, tenantVars, builtVars, relayVars, localVars

\* The first read copies the job's columns.
LEMMA ReadJobType ==
  ASSUME TypeOK, NEW p \in Pods, ReadJob(p)
  PROVE  TypeOK'
  <1>1. pc' \in [Pods -> Points] /\ \A q \in Pods : pc'[q] # "idle" => pc[q] # "idle"
    BY DEF TypeOK, ReadJob, Goto, Points, HandlerPoints, FirstPoint
  <1>2. /\ rdStep' \in [Pods -> Steps]
        /\ rdAttempts' \in [Pods -> Nat]
        /\ kcNext' \in [Pods -> KcObjects]
    BY ConstantsAssumption DEF TypeOK, ReadJob, KcObjects
  <1> QED
    BY <1>1, <1>2 DEF TypeOK, ReadJob, tenantVars, jobVars, builtVars, relayVars, localVars

\* CREATE or ALTER ROLE sets the password the handler holds.
LEMMA SetRoleType ==
  ASSUME TypeOK, NEW p \in Pods, SetRole(p)
  PROVE  TypeOK'
  <1>1. pc' \in [Pods -> Points] /\ \A q \in Pods : pc'[q] # "idle" => pc[q] # "idle"
    BY DEF TypeOK, SetRole, Goto, Points, HandlerPoints
  <1>2. rolePw' \in [Tenants -> Passwords \cup {None}]
    BY ConstantsAssumption DEF TypeOK, SetRole
  <1> QED
    BY <1>1, <1>2 DEF TypeOK, SetRole, tenantVars, jobVars, builtVars, relayVars, localVars

\* The migration sets its flag or fails.
LEMMA MigrateType ==
  ASSUME TypeOK, NEW p \in Pods, Migrate(p)
  PROVE  TypeOK'
  <1>1. pc' \in [Pods -> Points] /\ \A q \in Pods : pc'[q] # "idle" => pc[q] # "idle"
    BY DEF TypeOK, Migrate, Goto, Points, HandlerPoints
  <1>2. migrated' \in [Tenants -> BOOLEAN]
    BY ConstantsAssumption DEF TypeOK, Migrate
  <1> QED
    BY <1>1, <1>2 DEF TypeOK, Migrate, tenantVars, jobVars, builtVars, relayVars, localVars

\* The seed counts one more root unit or fails.
LEMMA CreateRootType ==
  ASSUME TypeOK, NEW p \in Pods, CreateRoot(p)
  PROVE  TypeOK'
  <1>1. pc' \in [Pods -> Points] /\ \A q \in Pods : pc'[q] # "idle" => pc[q] # "idle"
    BY DEF TypeOK, CreateRoot, Goto, Points, HandlerPoints
  <1>2. roots' \in [Tenants -> Nat]
    BY ConstantsAssumption DEF TypeOK, CreateRoot
  <1> QED
    BY <1>1, <1>2 DEF TypeOK, CreateRoot, tenantVars, jobVars, builtVars, relayVars, localVars

\* The emit enqueues the delivery's own job.
LEMMA EmitNextType ==
  ASSUME TypeOK, NEW p \in Pods, EmitNext(p)
  PROVE  TypeOK'
  <1>1. pc' \in [Pods -> Points] /\ \A q \in Pods : pc'[q] # "idle" => pc[q] # "idle"
    BY DEF TypeOK, EmitNext, Goto, Points, HandlerPoints
  <1>2. ready' \in [Tenants -> Nat] /\ faults' \in Nat
    <2>1. msg[p] \in Tenants /\ ready \in [Tenants -> Nat] /\ faults \in Nat
      BY DEF TypeOK, EmitNext
    <2>2. CASE EmitSucceeds(msg[p])
      BY <2>1, <2>2 DEF EmitSucceeds, Enqueue
    <2>3. CASE EmitFails(msg[p])
      BY <2>1, <2>3 DEF EmitFails, Enqueue, Fault
    <2> QED
      BY <2>2, <2>3 DEF EmitNext
  <1> QED
    BY <1>1, <1>2 DEF TypeOK, EmitNext, tenantVars, jobVars, builtVars, relayVars, localVars

\* Every program point of a delivery keeps the types.
LEMMA HandleType ==
  ASSUME TypeOK, NEW p \in Pods, Handle(p)
  PROVE  TypeOK'
  <1> USE ConstantsAssumption
      DEF TypeOK, Goto, Points, HandlerPoints, tenantVars, jobVars, builtVars, relayVars, localVars
  <1>1. CASE ReadJob(p)
    BY <1>1, ReadJobType
  <1>2. CASE PersistUrl(p)
    BY <1>2 DEF PersistUrl, FreshPassword
  <1>3. CASE CheckRole(p)
    BY <1>3 DEF CheckRole
  <1>4. CASE SetRole(p)
    BY <1>4, SetRoleType
  <1>5. CASE CheckDb(p)
    BY <1>5 DEF CheckDb
  <1>6. CASE CreateDb(p)
    BY <1>6 DEF CreateDb
  <1>7. CASE LoadUrl(p)
    BY <1>7 DEF LoadUrl
  <1>8. CASE Migrate(p)
    BY <1>8, MigrateType
  <1>9. CASE CreateRoot(p)
    BY <1>9, CreateRootType
  <1>10. CASE SetupKeycloak(p)
    BY <1>10, SetupKeycloakType
  <1>11. CASE RecordRealm(p)
    BY <1>11 DEF RecordRealm
  <1>12. CASE Activate(p)
    BY <1>12 DEF Activate
  <1>13. CASE Advance(p)
    BY <1>13 DEF Advance, DropHandlerLocals, NextStep, KcObjects, Steps
  <1>14. CASE ReadAfter(p)
    BY <1>14 DEF ReadAfter
  <1>15. CASE EmitNext(p)
    BY <1>15, EmitNextType
  <1>16. CASE HandlerFails(p)
    BY <1>16 DEF HandlerFails
  <1>17. CASE Catch(p)
    BY <1>17, CatchType
  <1>18. CASE ProcessThrows(p)
    BY <1>18 DEF ProcessThrows, Fault
  <1>19. CASE Ack(p)
    BY <1>19 DEF Ack, EndDelivery, DropHandlerLocals, KcObjects, Steps
  <1> QED
    BY <1>1, <1>2, <1>3, <1>4, <1>5, <1>6, <1>7, <1>8, <1>9, <1>10,
       <1>11, <1>12, <1>13, <1>14, <1>15, <1>16, <1>17, <1>18, <1>19 DEF Handle

\* The consumer gets a message that is in the queue.
LEMMA DeliverType ==
  ASSUME TypeOK, NEW p \in Pods, NEW t \in Tenants, Deliver(p, t)
  PROVE  TypeOK'
  BY DEF TypeOK, Deliver, Goto, Points, tenantVars, jobVars, builtVars, relayVars

\* Every step keeps the types.
LEMMA NextType == TypeOK /\ [Next]_vars => TypeOK'
  <1> SUFFICES ASSUME TypeOK, [Next]_vars PROVE TypeOK'
    OBVIOUS
  <1>1. CASE UNCHANGED vars
    BY <1>1 DEF TypeOK, vars, tenantVars, jobVars, builtVars, relayVars, deliveryVars, localVars
  <1>2. CASE Next
    BY <1>2, SignupType, RelayType, HandleType, DeliverType, ConnectionLostType, CrashType DEF Next
  <1> QED
    BY <1>1, <1>2

\* Type correctness: every field of every row, queue and delivery keeps its
\* type under every interleaving and fault.
THEOREM TypeCorrect == Spec => []TypeOK
  BY InitType, NextType, PTL DEF Spec

(***************************************************************************)
(* The pipeline invariant.  job.step is overwritten by whichever handler   *)
(* ends last, so no argument about the order of steps is available; what   *)
(* holds is that whoever writes a step has built what the step stands for, *)
(* and that nothing built is ever removed (Grows).                         *)
(***************************************************************************)
\* Nothing that was built is taken away, and nobody changes slug.
Grows ==
    /\ slug' = slug
    /\ \A t \in Tenants :
        /\ dbUrl[t] # None => dbUrl'[t] # None
        /\ rolePw[t] # None => rolePw'[t] # None
        /\ dbCreated[t] => dbCreated'[t]
        /\ migrated[t] => migrated'[t]
        /\ roots[t] > 0 => roots'[t] > 0
        /\ realmMeta[t] => realmMeta'[t]
    /\ \A s \in Slugs : realm[s] \subseteq realm'[s]

\* The delivery of q is where it was.
SameDelivery(q) ==
    /\ pc'[q] = pc[q] /\ msg'[q] = msg[q] /\ rdStep'[q] = rdStep[q]
    /\ pw'[q] = pw[q] /\ kcNext'[q] = kcNext[q]

\* A delivery is about a tenant that has signed up.
LEMMA KnownSlug ==
  ASSUME TypeOK, UnknownBeforeSignup, NEW p \in Pods, pc[p] # "idle" \/ owns[p]
  PROVE  msg[p] \in Tenants /\ slug[msg[p]] \in Slugs
  BY DEF TypeOK, UnknownBeforeSignup

\* What is built stays built when nothing is removed.
LEMMA BuiltPersists ==
  ASSUME TypeOK, TypeOK', Grows, NEW t \in Tenants, slug[t] \in Slugs, NEW st \in Steps, Built(t, st)
  PROVE  Built(t, st)'
  <1>1. realm[slug[t]] = KcObjects => realm'[slug'[t]] = KcObjects
    <2>1. PICK s \in Slugs : s = slug[t] /\ s = slug'[t]
      BY DEF Grows
    <2>2. realm[s] \subseteq realm'[s] /\ realm'[s] \subseteq KcObjects
      BY DEF TypeOK, Grows
    <2>3. realm[s] = KcObjects => realm'[s] = KcObjects
      BY <2>2
    <2> QED
      BY <2>1, <2>3
  <1> QED
    BY <1>1 DEF Built, Grows

\* What a delivery relies on stays while others move.
LEMMA EarnedPersists ==
  ASSUME TypeOK, TypeOK', UnknownBeforeSignup, Grows,
         NEW q \in Pods, pc[q] # "idle", SameDelivery(q), DeliveryEarned(q)
  PROVE  DeliveryEarned(q)'
  <1>1. PICK t \in Tenants : t = msg[q] /\ slug[t] \in Slugs
    BY KnownSlug
  <1>2. PICK st \in Steps : st = rdStep[q]
    BY DEF TypeOK
  <1>3. msg'[q] = t /\ rdStep'[q] = st
    BY <1>1, <1>2 DEF SameDelivery
  <1>4. pc[q] \notin {"read", "hung"} => Built(t, st)'
    BY <1>1, <1>2, BuiltPersists DEF DeliveryEarned
  <1>5. pc[q] = "advance" => Built(t, NextStep(st))'
    <2>1. NextStep(st) \in Steps
      BY DEF NextStep, Steps
    <2> QED
      BY <1>1, <1>2, <2>1, BuiltPersists DEF DeliveryEarned
  <1>6. realm[slug[t]] \subseteq realm'[slug'[t]] /\ realm'[slug'[t]] \subseteq KcObjects
    BY <1>1 DEF Grows, TypeOK
  <1>7. /\ rdStep'[q] \in StepOfPoint(pc'[q])
        /\ pc'[q] \notin {"read", "hung"} => Built(msg[q], rdStep[q])'
        /\ pc'[q] = "advance" => Built(msg[q], NextStep(rdStep[q]))'
    BY <1>1, <1>2, <1>3, <1>4, <1>5 DEF SameDelivery, DeliveryEarned
  <1> QED
    BY <1>1, <1>3, <1>6, <1>7 DEF SameDelivery, DeliveryEarned, Grows

\* What a step of pod p has to show.
LEMMA Assemble ==
  ASSUME TypeOK, TypeOK', PipelineInv, Grows, UnknownBeforeSignup', NEW p \in Pods,
         \A q \in Pods \ {p} : SameDelivery(q),
         pc'[p] # "idle" => DeliveryEarned(p)',
         \A t \in Tenants : step'[t] = step[t] \/ Built(t, step[t])',
         \A t \in Tenants : status'[t] = status[t] \/ Built(t, "DONE")'
  PROVE  PipelineInv'
  <1>1. \A q \in Pods : pc'[q] # "idle" => DeliveryEarned(q)'
    <2>1. ASSUME NEW q \in Pods \ {p}, pc'[q] # "idle" PROVE DeliveryEarned(q)'
      <3>1. pc[q] # "idle" /\ DeliveryEarned(q) /\ UnknownBeforeSignup /\ SameDelivery(q)
        BY <2>1 DEF PipelineInv, SameDelivery
      <3> QED
        BY <3>1, EarnedPersists
    <2> QED
      BY <2>1
  <1>2. ASSUME NEW t \in Tenants, slug[t] \in Slugs PROVE Built(t, step[t])'
    <2>1. PICK st \in Steps : st = step[t]
      BY DEF TypeOK
    <2>2. CASE step'[t] = st
      BY <1>2, <2>1, <2>2, BuiltPersists DEF PipelineInv
    <2> QED
      BY <2>1, <2>2
  <1>3. ASSUME NEW t \in Tenants, slug[t] = None PROVE Built(t, step[t])'
    BY <1>3 DEF UnknownBeforeSignup, Grows, Built
  <1>4. ASSUME NEW t \in Tenants, status'[t] = "ACTIVE" PROVE Built(t, "DONE")'
    <2>1. CASE status[t] = "ACTIVE"
      <3>1. slug[t] \in Slugs
        BY <2>1 DEF PipelineInv, UnknownBeforeSignup, TypeOK
      <3> QED
        BY <2>1, <3>1, BuiltPersists DEF PipelineInv, ActiveIsBuilt, Steps
    <2> QED
      BY <1>4, <2>1
  <1>5. \A t \in Tenants : slug[t] \in Slugs \/ slug[t] = None
    BY DEF TypeOK
  <1> QED
    BY <1>1, <1>2, <1>3, <1>4, <1>5 DEF PipelineInv, ActiveIsBuilt

\* A step that touches the rows and messages of one known tenant only.
LEMMA UnknownPersists ==
  ASSUME TypeOK, TypeOK', UnknownBeforeSignup, slug' = slug,
         NEW u \in Tenants, slug[u] # None, status'[u] \in {status[u], "ACTIVE"},
         \A t \in Tenants \ {u} :
            /\ status'[t] = status[t] /\ step'[t] = step[t]
            /\ armed'[t] = armed[t] /\ ready'[t] = ready[t],
         unpublished' \subseteq unpublished \cup {u},
         \A q \in Pods : /\ outboxLoop'[q] \subseteq outboxLoop[q] \cup {u}
                         /\ retryLoop'[q] \subseteq retryLoop[q] \cup {u}
                         /\ msg'[q] \in {msg[q], u, None}
  PROVE  UnknownBeforeSignup'
  BY ConstantsAssumption DEF UnknownBeforeSignup

\* A step that leaves the built things alone removes nothing.
LEMMA SameBuilt ==
  ASSUME TypeOK, UNCHANGED <<slug, dbUrl, realmMeta, builtVars>>
  PROVE  Grows
  BY DEF Grows, builtVars

\* The url is stored before any DDL.
LEMMA PersistUrlInv ==
  ASSUME TypeOK, TypeOK', PipelineInv, NEW p \in Pods, PersistUrl(p)
  PROVE  PipelineInv'
  <1>1. PICK u \in Tenants : u = msg[p] /\ slug[u] \in Slugs /\ slug[u] # None
    BY KnownSlug, ConstantsAssumption DEF PersistUrl, PipelineInv
  <1>2. FreshPassword \in Passwords
    BY DEF PersistUrl, FreshPassword
  <1>3. Grows
    BY <1>2, ConstantsAssumption DEF PersistUrl, Grows, builtVars, TypeOK
  <1>4. UnknownBeforeSignup'
    BY <1>1, UnknownPersists DEF PersistUrl, PipelineInv, jobVars, relayVars
  <1>5. \A q \in Pods \ {p} : SameDelivery(q)
    BY DEF PersistUrl, Goto, SameDelivery, TypeOK
  <1>6. DeliveryEarned(p)'
    <2>1. rdStep'[p] = "CREATE_DB" /\ pc'[p] = "checkRole" /\ pw'[p] # None /\ dbUrl'[msg'[p]] # None
      <3>1. rdStep[p] = "CREATE_DB"
        BY DEF PersistUrl, PipelineInv, DeliveryEarned, StepOfPoint
      <3> QED
        BY <1>1, <1>2, <3>1, ConstantsAssumption DEF PersistUrl, Goto, TypeOK
    <2> QED
      BY <2>1 DEF DeliveryEarned, StepOfPoint, Built, NextStep
  <1> QED
    BY <1>3, <1>4, <1>5, <1>6, Assemble DEF PersistUrl, jobVars

\* A handler that stays in its step keeps what the step stands for.
LEMMA StaysBuilt ==
  ASSUME TypeOK, TypeOK', PipelineInv, Grows, NEW p \in Pods, pc[p] \notin {"idle", "read", "hung"},
         msg'[p] = msg[p], rdStep'[p] = rdStep[p]
  PROVE  Built(msg[p], rdStep[p])'
  <1>1. PICK t \in Tenants : t = msg[p] /\ slug[t] \in Slugs
    BY KnownSlug DEF PipelineInv
  <1>2. PICK st \in Steps : st = rdStep[p]
    BY DEF TypeOK
  <1>3. Built(t, st)'
    BY <1>1, <1>2, BuiltPersists DEF PipelineInv, DeliveryEarned
  <1> QED
    BY <1>1, <1>2, <1>3

\* Looking for the role changes nothing that is built.
LEMMA CheckRoleInv ==
  ASSUME TypeOK, TypeOK', PipelineInv, NEW p \in Pods, CheckRole(p)
  PROVE  PipelineInv'
  <1>1. PICK u \in Tenants : u = msg[p] /\ slug[u] \in Slugs /\ slug[u] # None
    BY KnownSlug, ConstantsAssumption DEF CheckRole, PipelineInv
  <1>2. Grows
    BY SameBuilt DEF CheckRole, tenantVars
  <1>3. UnknownBeforeSignup'
    BY <1>1, UnknownPersists DEF CheckRole, PipelineInv, tenantVars, jobVars, relayVars
  <1>4. \A q \in Pods \ {p} : SameDelivery(q)
    BY DEF CheckRole, SameDelivery, TypeOK, Goto
  <1>5. pc'[p] # "idle" => DeliveryEarned(p)'
    BY <1>2, StaysBuilt DEF CheckRole, Goto, TypeOK, PipelineInv, DeliveryEarned, StepOfPoint,
       tenantVars, builtVars
  <1>6. /\ \A t \in Tenants : step'[t] = step[t] \/ Built(t, step[t])'
        /\ \A t \in Tenants : status'[t] = status[t] \/ Built(t, "DONE")'
    BY DEF CheckRole, tenantVars, jobVars
  <1> QED
    BY <1>2, <1>3, <1>4, <1>5, <1>6, Assemble

\* The role exists from here on.
LEMMA SetRoleInv ==
  ASSUME TypeOK, TypeOK', PipelineInv, NEW p \in Pods, SetRole(p)
  PROVE  PipelineInv'
  <1>1. PICK u \in Tenants : u = msg[p] /\ slug[u] \in Slugs /\ slug[u] # None
    BY KnownSlug, ConstantsAssumption DEF SetRole, PipelineInv
  <1>2. Grows
    BY ConstantsAssumption, <1>1 DEF SetRole, Grows, tenantVars, TypeOK, PipelineInv, DeliveryEarned
  <1>3. UnknownBeforeSignup'
    BY <1>1, UnknownPersists DEF SetRole, PipelineInv, tenantVars, jobVars, relayVars, localVars
  <1>4. \A q \in Pods \ {p} : SameDelivery(q)
    BY DEF SetRole, SameDelivery, TypeOK, Goto, localVars
  <1>5. pc'[p] # "idle" => DeliveryEarned(p)'
    <2>1. Built(msg[p], rdStep[p])' /\ rdStep'[p] = rdStep[p] /\ msg'[p] = u
      BY <1>1, <1>2, StaysBuilt DEF SetRole, localVars
    <2>2. rdStep[p] = "CREATE_DB" /\ dbUrl[u] # None /\ pw[p] # None
      BY <1>1 DEF SetRole, PipelineInv, DeliveryEarned, StepOfPoint
    <2>3. dbUrl'[u] # None
      BY <2>2 DEF SetRole, tenantVars
    <2>4. CASE pc'[p] = "catch"
      BY <2>1, <2>2, <2>4 DEF DeliveryEarned, StepOfPoint, Steps
    <2>5. CASE pc'[p] = "checkDb" /\ rolePw'[u] # None
      BY <2>1, <2>2, <2>3, <2>5 DEF DeliveryEarned, StepOfPoint, Steps
    <2>6. pc'[p] = "catch" \/ (pc'[p] = "checkDb" /\ rolePw'[u] # None)
      BY <1>1, <2>2 DEF SetRole, Goto, TypeOK
    <2> QED
      BY <2>4, <2>5, <2>6
  <1>6. /\ \A t \in Tenants : step'[t] = step[t] \/ Built(t, step[t])'
        /\ \A t \in Tenants : status'[t] = status[t] \/ Built(t, "DONE")'
    BY DEF SetRole, tenantVars, jobVars
  <1> QED
    BY <1>2, <1>3, <1>4, <1>5, <1>6, Assemble

\* Looking for the database: it exists, or is created next.
LEMMA CheckDbInv ==
  ASSUME TypeOK, TypeOK', PipelineInv, NEW p \in Pods, CheckDb(p)
  PROVE  PipelineInv'
  <1>1. PICK u \in Tenants : u = msg[p] /\ slug[u] \in Slugs /\ slug[u] # None
    BY KnownSlug, ConstantsAssumption DEF CheckDb, PipelineInv
  <1>2. Grows
    BY SameBuilt DEF CheckDb, tenantVars
  <1>3. UnknownBeforeSignup'
    BY <1>1, UnknownPersists DEF CheckDb, PipelineInv, tenantVars, jobVars, relayVars, localVars
  <1>4. \A q \in Pods \ {p} : SameDelivery(q)
    BY DEF CheckDb, SameDelivery, TypeOK, Goto, localVars
  <1>5. pc'[p] # "idle" => DeliveryEarned(p)'
    <2>1. rdStep'[p] = "CREATE_DB" /\ msg'[p] = u /\ dbUrl'[u] # None /\ rolePw'[u] # None
      BY <1>1 DEF CheckDb, PipelineInv, DeliveryEarned, StepOfPoint, tenantVars, builtVars, localVars
    <2>2. pc'[p] = "createDb" \/ (pc'[p] = "advance" /\ dbCreated'[u])
      <3>1. pc \in [Pods -> Points] /\ dbCreated' = dbCreated
        BY DEF CheckDb, builtVars, TypeOK
      <3>2. pc' = [pc EXCEPT ![p] = IF dbCreated[u] THEN "advance" ELSE "createDb"]
        BY <1>1 DEF CheckDb, Goto
      <3> QED
        BY <3>1, <3>2
    <2> QED
      BY <2>1, <2>2 DEF DeliveryEarned, StepOfPoint, Built, NextStep, Steps
  <1>6. /\ \A t \in Tenants : step'[t] = step[t] \/ Built(t, step[t])'
        /\ \A t \in Tenants : status'[t] = status[t] \/ Built(t, "DONE")'
    BY DEF CheckDb, tenantVars, jobVars
  <1> QED
    BY <1>2, <1>3, <1>4, <1>5, <1>6, Assemble

\* With the database, everything CREATE_DB stands for is built.
LEMMA CreateDbInv ==
  ASSUME TypeOK, TypeOK', PipelineInv, NEW p \in Pods, CreateDb(p)
  PROVE  PipelineInv'
  <1>1. PICK u \in Tenants : u = msg[p] /\ slug[u] \in Slugs /\ slug[u] # None
    BY KnownSlug, ConstantsAssumption DEF CreateDb, PipelineInv
  <1>2. Grows
    BY DEF CreateDb, Grows, tenantVars, TypeOK
  <1>3. UnknownBeforeSignup'
    BY <1>1, UnknownPersists DEF CreateDb, PipelineInv, tenantVars, jobVars, relayVars, localVars
  <1>4. \A q \in Pods \ {p} : SameDelivery(q)
    BY DEF CreateDb, SameDelivery, TypeOK, Goto, localVars
  <1>5. pc'[p] # "idle" => DeliveryEarned(p)'
    <2>1. rdStep'[p] = "CREATE_DB" /\ msg'[p] = u /\ dbUrl'[u] # None /\ rolePw'[u] # None
      BY <1>1 DEF CreateDb, PipelineInv, DeliveryEarned, StepOfPoint, tenantVars, localVars
    <2>2. pc'[p] \in {"catch", "advance"} /\ dbCreated'[u]
      BY <1>1 DEF CreateDb, Goto, TypeOK
    <2> QED
      BY <2>1, <2>2 DEF DeliveryEarned, StepOfPoint, Built, NextStep, Steps
  <1>6. /\ \A t \in Tenants : step'[t] = step[t] \/ Built(t, step[t])'
        /\ \A t \in Tenants : status'[t] = status[t] \/ Built(t, "DONE")'
    BY DEF CreateDb, tenantVars, jobVars
  <1> QED
    BY <1>2, <1>3, <1>4, <1>5, <1>6, Assemble

\* Loading the url changes nothing that is built.
LEMMA LoadUrlInv ==
  ASSUME TypeOK, TypeOK', PipelineInv, NEW p \in Pods, LoadUrl(p)
  PROVE  PipelineInv'
  <1>1. PICK u \in Tenants : u = msg[p] /\ slug[u] \in Slugs /\ slug[u] # None
    BY KnownSlug, ConstantsAssumption DEF LoadUrl, PipelineInv
  <1>2. Grows
    BY SameBuilt DEF LoadUrl, tenantVars
  <1>3. UnknownBeforeSignup'
    BY <1>1, UnknownPersists DEF LoadUrl, PipelineInv, tenantVars, jobVars, relayVars
  <1>4. \A q \in Pods \ {p} : SameDelivery(q)
    BY DEF LoadUrl, SameDelivery, TypeOK, Goto
  <1>5. pc'[p] # "idle" => DeliveryEarned(p)'
    <2>1. Built(msg[p], rdStep[p])'
      BY <1>2, StaysBuilt DEF LoadUrl
    <2>2. rdStep'[p] \in StepOfPoint(pc'[p]) /\ pc'[p] \in {"createRoot", "migrate"}
      BY DEF LoadUrl, Goto, TypeOK, PipelineInv, DeliveryEarned, StepOfPoint
    <2> QED
      BY <2>1, <2>2 DEF DeliveryEarned
  <1>6. /\ \A t \in Tenants : step'[t] = step[t] \/ Built(t, step[t])'
        /\ \A t \in Tenants : status'[t] = status[t] \/ Built(t, "DONE")'
    BY DEF LoadUrl, tenantVars, jobVars
  <1> QED
    BY <1>2, <1>3, <1>4, <1>5, <1>6, Assemble

\* The schema is deployed, or the handler fails.
LEMMA MigrateInv ==
  ASSUME TypeOK, TypeOK', PipelineInv, NEW p \in Pods, Migrate(p)
  PROVE  PipelineInv'
  <1>1. PICK u \in Tenants : u = msg[p] /\ slug[u] \in Slugs /\ slug[u] # None
    BY KnownSlug, ConstantsAssumption DEF Migrate, PipelineInv
  <1>2. Grows
    <2>1. roots \in [Tenants -> Nat] /\ migrated \in [Tenants -> BOOLEAN]
      BY DEF TypeOK
    <2> QED
      BY <1>1, <2>1 DEF Migrate, Grows, tenantVars
  <1>3. UnknownBeforeSignup'
    BY <1>1, UnknownPersists DEF Migrate, PipelineInv, tenantVars, jobVars, relayVars, localVars
  <1>4. \A q \in Pods \ {p} : SameDelivery(q)
    BY DEF Migrate, SameDelivery, TypeOK, Goto, localVars
  <1>5. pc'[p] # "idle" => DeliveryEarned(p)'
    <2>1. Built(msg[p], rdStep[p])'
      BY <1>2, StaysBuilt DEF Migrate, localVars
    <2>2. rdStep'[p] = "RUN_MIGRATIONS" /\ msg'[p] = u
      BY <1>1 DEF Migrate, PipelineInv, DeliveryEarned, StepOfPoint, localVars
    <2>3. pc'[p] = "catch" \/ (pc'[p] = "advance" /\ migrated'[u])
      <3>1. pc \in [Pods -> Points] /\ migrated \in [Tenants -> BOOLEAN]
        BY DEF TypeOK
      <3>2. \/ Goto(p, "catch")
            \/ Goto(p, "advance") /\ migrated' = [migrated EXCEPT ![u] = TRUE]
        BY <1>1 DEF Migrate
      <3>3. CASE Goto(p, "catch")
        BY <3>1, <3>3 DEF Goto
      <3>4. CASE Goto(p, "advance") /\ migrated' = [migrated EXCEPT ![u] = TRUE]
        BY <3>1, <3>4 DEF Goto
      <3> QED
        BY <3>2, <3>3, <3>4
    <2> QED
      BY <2>1, <2>2, <2>3 DEF DeliveryEarned, StepOfPoint, Built, NextStep, Steps
  <1>6. /\ \A t \in Tenants : step'[t] = step[t] \/ Built(t, step[t])'
        /\ \A t \in Tenants : status'[t] = status[t] \/ Built(t, "DONE")'
    BY DEF Migrate, tenantVars, jobVars
  <1> QED
    BY <1>2, <1>3, <1>4, <1>5, <1>6, Assemble

\* The root unit exists, or the handler fails.
LEMMA CreateRootInv ==
  ASSUME TypeOK, TypeOK', PipelineInv, NEW p \in Pods, CreateRoot(p)
  PROVE  PipelineInv'
  <1>1. PICK u \in Tenants : u = msg[p] /\ slug[u] \in Slugs /\ slug[u] # None
    BY KnownSlug, ConstantsAssumption DEF CreateRoot, PipelineInv
  <1>2. Grows
    <2>1. roots \in [Tenants -> Nat] /\ migrated \in [Tenants -> BOOLEAN]
      BY DEF TypeOK
    <2> QED
      BY <1>1, <2>1 DEF CreateRoot, Grows, tenantVars
  <1>3. UnknownBeforeSignup'
    BY <1>1, UnknownPersists DEF CreateRoot, PipelineInv, tenantVars, jobVars, relayVars, localVars
  <1>4. \A q \in Pods \ {p} : SameDelivery(q)
    BY DEF CreateRoot, SameDelivery, TypeOK, Goto, localVars
  <1>5. pc'[p] # "idle" => DeliveryEarned(p)'
    <2>1. Built(msg[p], rdStep[p])'
      BY <1>2, StaysBuilt DEF CreateRoot, localVars
    <2>2. rdStep'[p] = "SEED" /\ msg'[p] = u
      BY <1>1 DEF CreateRoot, PipelineInv, DeliveryEarned, StepOfPoint, localVars
    <2>3. pc'[p] = "catch" \/ (pc'[p] = "advance" /\ roots'[u] > 0)
      <3>1. pc \in [Pods -> Points] /\ roots \in [Tenants -> Nat]
        BY DEF TypeOK
      <3>2. \/ Goto(p, "catch")
            \/ Goto(p, "advance") /\ roots' = [roots EXCEPT ![u] = @ + 1]
        BY <1>1 DEF CreateRoot
      <3>3. CASE Goto(p, "catch")
        BY <3>1, <3>3 DEF Goto
      <3>4. CASE Goto(p, "advance") /\ roots' = [roots EXCEPT ![u] = @ + 1]
        BY <3>1, <3>4 DEF Goto
      <3> QED
        BY <3>2, <3>3, <3>4
    <2> QED
      BY <2>1, <2>2, <2>3 DEF DeliveryEarned, StepOfPoint, Built, NextStep, Steps
  <1>6. /\ \A t \in Tenants : step'[t] = step[t] \/ Built(t, step[t])'
        /\ \A t \in Tenants : status'[t] = status[t] \/ Built(t, "DONE")'
    BY DEF CreateRoot, tenantVars, jobVars
  <1> QED
    BY <1>2, <1>3, <1>4, <1>5, <1>6, Assemble

\* The realm is recorded once it is complete.
LEMMA RecordRealmInv ==
  ASSUME TypeOK, TypeOK', PipelineInv, NEW p \in Pods, RecordRealm(p)
  PROVE  PipelineInv'
  <1>1. PICK u \in Tenants : u = msg[p] /\ slug[u] \in Slugs /\ slug[u] # None
    BY KnownSlug, ConstantsAssumption DEF RecordRealm, PipelineInv
  <1>2. Grows
    BY DEF RecordRealm, Grows, builtVars, TypeOK
  <1>3. UnknownBeforeSignup'
    BY <1>1, UnknownPersists DEF RecordRealm, PipelineInv, jobVars, relayVars, localVars
  <1>4. \A q \in Pods \ {p} : SameDelivery(q)
    BY DEF RecordRealm, SameDelivery, TypeOK, Goto, localVars
  <1>5. pc'[p] # "idle" => DeliveryEarned(p)'
    <2>1. Built(msg[p], rdStep[p])'
      BY <1>2, StaysBuilt DEF RecordRealm, localVars
    <2>2. rdStep'[p] = "KEYCLOAK_SETUP" /\ msg'[p] = u /\ realm'[slug'[u]] = KcObjects
      BY <1>1 DEF RecordRealm, PipelineInv, DeliveryEarned, StepOfPoint, localVars, builtVars
    <2>3. pc'[p] = "advance" /\ realmMeta'[u]
      BY <1>1 DEF RecordRealm, Goto, TypeOK
    <2> QED
      BY <2>1, <2>2, <2>3 DEF DeliveryEarned, StepOfPoint, Built, NextStep, Steps
  <1>6. /\ \A t \in Tenants : step'[t] = step[t] \/ Built(t, step[t])'
        /\ \A t \in Tenants : status'[t] = status[t] \/ Built(t, "DONE")'
    BY DEF RecordRealm, tenantVars, jobVars
  <1> QED
    BY <1>2, <1>3, <1>4, <1>5, <1>6, Assemble

\* The tenant becomes ACTIVE with everything built.
LEMMA ActivateInv ==
  ASSUME TypeOK, TypeOK', PipelineInv, NEW p \in Pods, Activate(p)
  PROVE  PipelineInv'
  <1>1. PICK u \in Tenants : u = msg[p] /\ slug[u] \in Slugs /\ slug[u] # None
    BY KnownSlug, ConstantsAssumption DEF Activate, PipelineInv
  <1>2. Grows
    BY SameBuilt DEF Activate
  <1>3. UnknownBeforeSignup'
    BY <1>1, UnknownPersists DEF Activate, PipelineInv, jobVars, relayVars, localVars
  <1>4. \A q \in Pods \ {p} : SameDelivery(q)
    BY DEF Activate, SameDelivery, TypeOK, Goto, localVars
  <1>5. pc'[p] # "idle" => DeliveryEarned(p)'
    <2>1. Built(msg[p], rdStep[p])'
      BY <1>2, StaysBuilt DEF Activate, localVars
    <2>2. rdStep'[p] = "DONE" /\ msg'[p] = u /\ pc'[p] = "advance"
      BY <1>1 DEF Activate, Goto, TypeOK, PipelineInv, DeliveryEarned, StepOfPoint, localVars
    <2> QED
      BY <2>1, <2>2 DEF DeliveryEarned, StepOfPoint, NextStep, Steps
  <1>6. /\ \A t \in Tenants : step'[t] = step[t] \/ Built(t, step[t])'
        /\ \A t \in Tenants : status'[t] = status[t] \/ Built(t, "DONE")'
    <2>1. Built(msg[p], rdStep[p])' /\ rdStep'[p] = "DONE" /\ msg'[p] = u
      BY <1>1, <1>2, StaysBuilt DEF Activate, PipelineInv, DeliveryEarned, StepOfPoint, localVars
    <2>2. Built(u, "DONE")'
      BY <2>1
    <2> QED
      BY <1>1, <2>2 DEF Activate, TypeOK, jobVars
  <1> QED
    BY <1>2, <1>3, <1>4, <1>5, <1>6, Assemble

\* The step that is written has been earned by this handler, however stale it is.
LEMMA AdvanceInv ==
  ASSUME TypeOK, TypeOK', PipelineInv, NEW p \in Pods, Advance(p)
  PROVE  PipelineInv'
  <1>1. PICK u \in Tenants : u = msg[p] /\ slug[u] \in Slugs /\ slug[u] # None
    BY KnownSlug, ConstantsAssumption DEF Advance, PipelineInv
  <1>2. Grows
    BY SameBuilt DEF Advance, tenantVars
  <1>3. UnknownBeforeSignup'
    BY <1>1, UnknownPersists DEF Advance, PipelineInv, tenantVars, relayVars
  <1>4. \A q \in Pods \ {p} : SameDelivery(q)
    BY DEF Advance, SameDelivery, TypeOK, Goto, DropHandlerLocals
  <1>5. pc'[p] # "idle" => DeliveryEarned(p)'
    <2>1. Built(msg[p], rdStep[p])'
      BY <1>2, StaysBuilt DEF Advance
    <2>2. pc'[p] = "after"
      BY DEF Advance, Goto, TypeOK
    <2> QED
      BY <2>1, <2>2 DEF DeliveryEarned, StepOfPoint, TypeOK
  <1>6. /\ \A t \in Tenants : step'[t] = step[t] \/ Built(t, step[t])'
        /\ \A t \in Tenants : status'[t] = status[t] \/ Built(t, "DONE")'
    <2>1. PICK st \in Steps : st = NextStep(rdStep[p]) /\ Built(u, st)
      BY <1>1 DEF Advance, PipelineInv, DeliveryEarned, NextStep, Steps
    <2>2. Built(u, st)'
      BY <1>1, <1>2, <2>1, BuiltPersists
    <2>3. step' = [step EXCEPT ![u] = st]
      BY <1>1, <2>1 DEF Advance
    <2>4. Built(u, step[u])'
      BY <2>2, <2>3 DEF TypeOK
    <2> QED
      BY <2>3, <2>4 DEF Advance, TypeOK, tenantVars
  <1> QED
    BY <1>2, <1>3, <1>4, <1>5, <1>6, Assemble

\* Reading the job again changes nothing that is built.
LEMMA ReadAfterInv ==
  ASSUME TypeOK, TypeOK', PipelineInv, NEW p \in Pods, ReadAfter(p)
  PROVE  PipelineInv'
  <1>1. PICK u \in Tenants : u = msg[p] /\ slug[u] \in Slugs /\ slug[u] # None
    BY KnownSlug, ConstantsAssumption DEF ReadAfter, PipelineInv
  <1>2. Grows
    BY SameBuilt DEF ReadAfter, tenantVars
  <1>3. UnknownBeforeSignup'
    BY <1>1, UnknownPersists DEF ReadAfter, PipelineInv, tenantVars, jobVars, relayVars, localVars, TypeOK
  <1>4. \A q \in Pods \ {p} : SameDelivery(q)
    BY DEF ReadAfter, SameDelivery, TypeOK, Goto, localVars
  <1>5. pc'[p] # "idle" => DeliveryEarned(p)'
    <2>1. Built(msg[p], rdStep[p])'
      BY <1>2, StaysBuilt DEF ReadAfter, localVars
    <2>2. pc'[p] \in {"ack", "emit"}
      BY DEF ReadAfter, Goto, TypeOK
    <2> QED
      BY <2>1, <2>2 DEF DeliveryEarned, StepOfPoint, TypeOK
  <1>6. /\ \A t \in Tenants : step'[t] = step[t] \/ Built(t, step[t])'
        /\ \A t \in Tenants : status'[t] = status[t] \/ Built(t, "DONE")'
    BY DEF ReadAfter, tenantVars, jobVars
  <1> QED
    BY <1>2, <1>3, <1>4, <1>5, <1>6, Assemble

\* The next message is for a tenant that has signed up.
LEMMA EmitNextInv ==
  ASSUME TypeOK, TypeOK', PipelineInv, NEW p \in Pods, EmitNext(p)
  PROVE  PipelineInv'
  <1>1. PICK u \in Tenants : u = msg[p] /\ slug[u] \in Slugs /\ slug[u] # None
    BY KnownSlug, ConstantsAssumption DEF EmitNext, PipelineInv
  <1>2. Grows
    BY SameBuilt DEF EmitNext, tenantVars
  <1>3. UnknownBeforeSignup'
    BY <1>1, UnknownPersists DEF EmitNext, PipelineInv, tenantVars, jobVars, relayVars, localVars, TypeOK, EmitSucceeds, EmitFails, Enqueue, Fault
  <1>4. \A q \in Pods \ {p} : SameDelivery(q)
    BY DEF EmitNext, SameDelivery, TypeOK, Goto, localVars
  <1>5. pc'[p] # "idle" => DeliveryEarned(p)'
    <2>1. Built(msg[p], rdStep[p])'
      BY <1>2, StaysBuilt DEF EmitNext, localVars
    <2>2. pc'[p] \in {"ack", "catch"}
      BY DEF EmitNext, Goto, TypeOK
    <2> QED
      BY <2>1, <2>2 DEF DeliveryEarned, StepOfPoint, TypeOK
  <1>6. /\ \A t \in Tenants : step'[t] = step[t] \/ Built(t, step[t])'
        /\ \A t \in Tenants : status'[t] = status[t] \/ Built(t, "DONE")'
    BY DEF EmitNext, tenantVars, jobVars
  <1> QED
    BY <1>2, <1>3, <1>4, <1>5, <1>6, Assemble

\* A failing handler removes nothing.
LEMMA HandlerFailsInv ==
  ASSUME TypeOK, TypeOK', PipelineInv, NEW p \in Pods, HandlerFails(p)
  PROVE  PipelineInv'
  <1>1. PICK u \in Tenants : u = msg[p] /\ slug[u] \in Slugs /\ slug[u] # None
    BY KnownSlug, ConstantsAssumption DEF HandlerFails, PipelineInv, HandlerPoints
  <1>2. Grows
    BY SameBuilt DEF HandlerFails, tenantVars
  <1>3. UnknownBeforeSignup'
    BY <1>1, UnknownPersists DEF HandlerFails, PipelineInv, tenantVars, jobVars, relayVars, localVars, TypeOK
  <1>4. \A q \in Pods \ {p} : SameDelivery(q)
    BY DEF HandlerFails, SameDelivery, TypeOK, Goto, localVars
  <1>5. pc'[p] # "idle" => DeliveryEarned(p)'
    <2>1. Built(msg[p], rdStep[p])'
      BY <1>2, StaysBuilt DEF HandlerFails, localVars, HandlerPoints
    <2>2. pc'[p] \in {"catch"}
      BY DEF HandlerFails, Goto, TypeOK
    <2> QED
      BY <2>1, <2>2 DEF DeliveryEarned, StepOfPoint, TypeOK
  <1>6. /\ \A t \in Tenants : step'[t] = step[t] \/ Built(t, step[t])'
        /\ \A t \in Tenants : status'[t] = status[t] \/ Built(t, "DONE")'
    BY DEF HandlerFails, tenantVars, jobVars
  <1> QED
    BY <1>2, <1>3, <1>4, <1>5, <1>6, Assemble

\* A process() that throws removes nothing.
LEMMA ProcessThrowsInv ==
  ASSUME TypeOK, TypeOK', PipelineInv, NEW p \in Pods, ProcessThrows(p)
  PROVE  PipelineInv'
  <1>1. PICK u \in Tenants : u = msg[p] /\ slug[u] \in Slugs /\ slug[u] # None
    BY KnownSlug, ConstantsAssumption DEF ProcessThrows, PipelineInv
  <1>2. Grows
    BY SameBuilt DEF ProcessThrows, tenantVars
  <1>3. UnknownBeforeSignup'
    BY <1>1, UnknownPersists DEF ProcessThrows, PipelineInv, tenantVars, jobVars, relayVars, localVars, TypeOK, Fault
  <1>4. \A q \in Pods \ {p} : SameDelivery(q)
    BY DEF ProcessThrows, SameDelivery, TypeOK, Goto, localVars
  <1>5. pc'[p] # "idle" => DeliveryEarned(p)'
    <2>1. pc'[p] \in {"hung"}
      BY DEF ProcessThrows, Goto, TypeOK
    <2> QED
      BY <2>1 DEF DeliveryEarned, StepOfPoint, TypeOK
  <1>6. /\ \A t \in Tenants : step'[t] = step[t] \/ Built(t, step[t])'
        /\ \A t \in Tenants : status'[t] = status[t] \/ Built(t, "DONE")'
    BY DEF ProcessThrows, tenantVars, jobVars
  <1> QED
    BY <1>2, <1>3, <1>4, <1>5, <1>6, Assemble

\* The catch leaves the step alone or writes FAILED, which promises nothing.
LEMMA CatchInv ==
  ASSUME TypeOK, TypeOK', PipelineInv, NEW p \in Pods, Catch(p)
  PROVE  PipelineInv'
  <1>1. PICK u \in Tenants : u = msg[p] /\ slug[u] \in Slugs /\ slug[u] # None
    BY KnownSlug, ConstantsAssumption DEF Catch, PipelineInv
  <1>2. Grows
    BY SameBuilt DEF Catch, tenantVars
  <1>3. UnknownBeforeSignup'
    BY <1>1, UnknownPersists DEF Catch, PipelineInv, tenantVars, relayVars, localVars, TypeOK
  <1>4. \A q \in Pods \ {p} : SameDelivery(q)
    BY DEF Catch, SameDelivery, TypeOK, Goto, localVars
  <1>5. pc'[p] # "idle" => DeliveryEarned(p)'
    <2>1. Built(msg[p], rdStep[p])'
      BY <1>2, StaysBuilt DEF Catch, localVars
    <2>2. pc'[p] = "ack"
      BY DEF Catch, Goto, TypeOK
    <2> QED
      BY <2>1, <2>2 DEF DeliveryEarned, StepOfPoint, TypeOK
  <1>6. /\ \A t \in Tenants : step'[t] = step[t] \/ Built(t, step[t])'
        /\ \A t \in Tenants : status'[t] = status[t] \/ Built(t, "DONE")'
    <2>1. \A t \in Tenants : step'[t] = step[t] \/ step'[t] = "FAILED"
      BY DEF Catch, TypeOK
    <2>2. \A t \in Tenants : step'[t] = "FAILED" => Built(t, step[t])'
      BY DEF Built
    <2> QED
      BY <2>1, <2>2 DEF Catch, tenantVars
  <1> QED
    BY <1>2, <1>3, <1>4, <1>5, <1>6, Assemble

\* Acknowledging ends the delivery.
LEMMA AckInv ==
  ASSUME TypeOK, TypeOK', PipelineInv, NEW p \in Pods, Ack(p)
  PROVE  PipelineInv'
  <1>1. PICK u \in Tenants : u = msg[p] /\ slug[u] \in Slugs /\ slug[u] # None
    BY KnownSlug, ConstantsAssumption DEF Ack, PipelineInv
  <1>2. Grows
    BY SameBuilt DEF Ack, tenantVars
  <1>3. UnknownBeforeSignup'
    BY <1>1, UnknownPersists DEF Ack, PipelineInv, tenantVars, jobVars, relayVars, EndDelivery, TypeOK
  <1>4. \A q \in Pods \ {p} : SameDelivery(q)
    BY DEF Ack, SameDelivery, TypeOK, EndDelivery, Goto, DropHandlerLocals
  <1>5. pc'[p] # "idle" => DeliveryEarned(p)'
    BY DEF Ack, EndDelivery, Goto, TypeOK
  <1>6. /\ \A t \in Tenants : step'[t] = step[t] \/ Built(t, step[t])'
        /\ \A t \in Tenants : status'[t] = status[t] \/ Built(t, "DONE")'
    BY DEF Ack, tenantVars, jobVars
  <1> QED
    BY <1>2, <1>3, <1>4, <1>5, <1>6, Assemble

\* The objects before the next one are in the realm.
LEMMA SetupKeycloakInv ==
  ASSUME TypeOK, TypeOK', PipelineInv, NEW p \in Pods, SetupKeycloak(p)
  PROVE  PipelineInv'
  <1>1. PICK u \in Tenants : u = msg[p] /\ slug[u] \in Slugs /\ slug[u] # None
    BY KnownSlug, ConstantsAssumption DEF SetupKeycloak, PipelineInv
  <1>2. Grows
    <2>1. realm' = [realm EXCEPT ![slug[u]] = @ \cup {kcNext[p]}]
      BY <1>1 DEF SetupKeycloak
    <2>2. realm \in [Slugs -> SUBSET KcObjects]
      BY DEF TypeOK
    <2>3. \A s \in Slugs : realm[s] \subseteq realm'[s]
      BY <1>1, <2>1, <2>2
    <2> QED
      BY <2>3 DEF SetupKeycloak, Grows, tenantVars
  <1>3. UnknownBeforeSignup'
    BY <1>1, UnknownPersists DEF SetupKeycloak, PipelineInv, tenantVars, jobVars, relayVars
  <1>4. \A q \in Pods \ {p} : SameDelivery(q)
    BY DEF SetupKeycloak, SameDelivery, TypeOK, Goto
  <1>5. pc'[p] # "idle" => DeliveryEarned(p)'
    <2>1. Built(msg[p], rdStep[p])'
      BY <1>2, StaysBuilt DEF SetupKeycloak
    <2>2. rdStep'[p] = "KEYCLOAK_SETUP" /\ msg'[p] = u /\ slug'[u] = slug[u]
      BY <1>1 DEF SetupKeycloak, PipelineInv, DeliveryEarned, StepOfPoint, tenantVars
    <2>3. /\ kcNext[p] \in KcObjects
          /\ 1..(kcNext[p] - 1) \subseteq realm[slug[u]]
          /\ realm'[slug[u]] = realm[slug[u]] \cup {kcNext[p]}
          /\ realm'[slug[u]] \subseteq KcObjects
      BY <1>1 DEF SetupKeycloak, TypeOK, PipelineInv, DeliveryEarned
    <2>4. 1..kcNext[p] \subseteq realm'[slug[u]]
      <3>1. 1..kcNext[p] = 1..(kcNext[p] - 1) \cup {kcNext[p]}
        BY <2>3, ConstantsAssumption DEF KcObjects
      <3> QED
        BY <2>3, <3>1
    <2>5. CASE kcNext[p] < KcCount
      <3>1. pc'[p] = "keycloak" /\ kcNext'[p] = kcNext[p] + 1
        <4>1. kcNext[p] # KcCount
          BY <2>3, <2>5, ConstantsAssumption DEF KcObjects
        <4> QED
          BY <4>1 DEF SetupKeycloak, TypeOK
      <3>2. 1..(kcNext'[p] - 1) \subseteq realm'[slug[u]]
        BY <2>3, <2>4, <3>1 DEF KcObjects
      <3> QED
        BY <2>1, <2>2, <3>1, <3>2 DEF DeliveryEarned, StepOfPoint
    <2>6. CASE kcNext[p] = KcCount
      <3>1. pc'[p] = "metadata"
        BY <2>6, ConstantsAssumption DEF SetupKeycloak, Goto, TypeOK
      <3>2. realm'[slug[u]] = KcObjects
        BY <2>3, <2>4, <2>6 DEF KcObjects
      <3> QED
        BY <2>1, <2>2, <3>1, <3>2 DEF DeliveryEarned, StepOfPoint
    <2> QED
      BY <2>5, <2>6 DEF SetupKeycloak
  <1>6. /\ \A t \in Tenants : step'[t] = step[t] \/ Built(t, step[t])'
        /\ \A t \in Tenants : status'[t] = status[t] \/ Built(t, "DONE")'
    BY DEF SetupKeycloak, tenantVars, jobVars
  <1> QED
    BY <1>2, <1>3, <1>4, <1>5, <1>6, Assemble

\* The step read from the row has been earned by its writer.
LEMMA ReadJobInv ==
  ASSUME TypeOK, TypeOK', PipelineInv, NEW p \in Pods, ReadJob(p)
  PROVE  PipelineInv'
  <1>1. PICK u \in Tenants : u = msg[p] /\ slug[u] \in Slugs /\ slug[u] # None
    BY KnownSlug, ConstantsAssumption DEF ReadJob, PipelineInv
  <1>2. Grows
    BY SameBuilt DEF ReadJob, tenantVars
  <1>3. UnknownBeforeSignup'
    BY <1>1, UnknownPersists DEF ReadJob, PipelineInv, tenantVars, jobVars, relayVars
  <1>4. \A q \in Pods \ {p} : SameDelivery(q)
    BY DEF ReadJob, SameDelivery, TypeOK, Goto
  <1>5. pc'[p] # "idle" => DeliveryEarned(p)'
    <2>1. PICK st \in Steps : st = step[u]
      BY DEF TypeOK
    <2>2. rdStep'[p] = st /\ msg'[p] = u /\ pc'[p] = FirstPoint(st)
      BY <1>1, <2>1 DEF ReadJob, Goto, TypeOK
    <2>3. Built(u, st)'
      BY <1>1, <1>2, <2>1, BuiltPersists DEF PipelineInv
    <2>4. Built(msg[p], rdStep[p])'
      BY <2>2, <2>3
    <2>5. st \in StepOfPoint(FirstPoint(st)) /\ FirstPoint(st) \in {"persistUrl", "loadUrl", "keycloak", "activate", "ack"}
      BY DEF FirstPoint, StepOfPoint, Steps
    <2>6. kcNext'[p] = 1
      BY DEF ReadJob, TypeOK
    <2>7. 1..(kcNext'[p] - 1) = {}
      BY <2>6
    <2> QED
      BY <2>2, <2>4, <2>5, <2>7 DEF DeliveryEarned
  <1>6. /\ \A t \in Tenants : step'[t] = step[t] \/ Built(t, step[t])'
        /\ \A t \in Tenants : status'[t] = status[t] \/ Built(t, "DONE")'
    BY DEF ReadJob, tenantVars, jobVars
  <1> QED
    BY <1>2, <1>3, <1>4, <1>5, <1>6, Assemble

\* A new delivery relies on nothing yet.
LEMMA DeliverInv ==
  ASSUME TypeOK, TypeOK', PipelineInv, NEW p \in Pods, NEW t \in Tenants, Deliver(p, t)
  PROVE  PipelineInv'
  <1>1. Grows
    BY SameBuilt DEF Deliver, tenantVars
  <1>2. slug[t] # None
    BY DEF Deliver, PipelineInv, UnknownBeforeSignup, TypeOK
  <1>3. UnknownBeforeSignup'
    BY <1>2, UnknownPersists DEF Deliver, PipelineInv, tenantVars, jobVars, relayVars, TypeOK
  <1>4. \A q \in Pods \ {p} : SameDelivery(q)
    BY DEF Deliver, SameDelivery, TypeOK, Goto
  <1>5. DeliveryEarned(p)'
    <2>1. pc'[p] = "read" /\ rdStep'[p] \in Steps
      BY DEF Deliver, Goto, TypeOK
    <2> QED
      BY <2>1 DEF DeliveryEarned, StepOfPoint
  <1> QED
    BY <1>1, <1>3, <1>4, <1>5, Assemble DEF Deliver, tenantVars, jobVars

\* A delivery that ends, by ack, crash or lost channel, removes nothing.
LEMMA EndDeliveryInv ==
  ASSUME TypeOK, TypeOK', PipelineInv, NEW p \in Pods, EndDelivery(p),
         UNCHANGED <<tenantVars, jobVars, builtVars, unpublished>>,
         \A q \in Pods : outboxLoop'[q] \subseteq outboxLoop[q] /\ retryLoop'[q] \subseteq retryLoop[q],
         ready' = ready \/ (owns[p] /\ Enqueue(msg[p]))
  PROVE  PipelineInv'
  <1>1. Grows
    BY SameBuilt DEF tenantVars
  <1>2. \A q \in Pods : msg'[q] \in {msg[q], None}
    BY DEF EndDelivery, TypeOK
  <1>3. UnknownBeforeSignup'
    <2>1. CASE ready' = ready
      BY <1>2, <2>1, ConstantsAssumption DEF PipelineInv, UnknownBeforeSignup, tenantVars, jobVars
    <2>2. CASE owns[p] /\ Enqueue(msg[p])
      <3>1. PICK u \in Tenants : u = msg[p] /\ slug[u] \in Slugs /\ slug[u] # None
        BY <2>2, KnownSlug, ConstantsAssumption DEF PipelineInv
      <3> QED
        BY <1>2, <2>2, <3>1, UnknownPersists DEF PipelineInv, Enqueue, tenantVars, jobVars, TypeOK
    <2> QED
      BY <2>1, <2>2
  <1>4. \A q \in Pods \ {p} : SameDelivery(q)
    BY DEF EndDelivery, DropHandlerLocals, SameDelivery, TypeOK, Goto
  <1>5. pc'[p] = "idle"
    BY DEF EndDelivery, Goto, TypeOK
  <1> QED
    BY <1>1, <1>3, <1>4, <1>5, Assemble DEF tenantVars, jobVars

\* A crash removes nothing that is built.
LEMMA CrashInv ==
  ASSUME TypeOK, TypeOK', PipelineInv, NEW p \in Pods, Crash(p)
  PROVE  PipelineInv'
  <1>1. \A q \in Pods : outboxLoop'[q] \subseteq outboxLoop[q] /\ retryLoop'[q] \subseteq retryLoop[q]
    BY DEF Crash, TypeOK
  <1> QED
    BY <1>1, EndDeliveryInv DEF Crash

\* A lost channel leaves the handler with what it has earned.
LEMMA ConnectionLostInv ==
  ASSUME TypeOK, TypeOK', PipelineInv, NEW p \in Pods, ConnectionLost(p)
  PROVE  PipelineInv'
  <1>1. CASE EndDelivery(p)
    BY <1>1, EndDeliveryInv DEF ConnectionLost, relayVars
  <1>2. CASE UNCHANGED <<pc, msg, rdStep, rdAttempts, pw, sawRole, kcNext>>
    <2>1. PICK u \in Tenants : u = msg[p] /\ slug[u] \in Slugs /\ slug[u] # None
      BY KnownSlug, ConstantsAssumption DEF ConnectionLost, PipelineInv
    <2>2. Grows
      BY SameBuilt DEF ConnectionLost, tenantVars
    <2>3. UnknownBeforeSignup'
      BY <1>2, <2>1, UnknownPersists
         DEF ConnectionLost, Enqueue, PipelineInv, tenantVars, jobVars, relayVars, TypeOK
    <2>4. \A q \in Pods : SameDelivery(q)
      BY <1>2 DEF SameDelivery
    <2>5. pc'[p] # "idle" => DeliveryEarned(p)'
      BY <2>2, <2>4, EarnedPersists DEF PipelineInv, SameDelivery
    <2> QED
      BY <2>2, <2>3, <2>4, <2>5, Assemble DEF ConnectionLost, tenantVars, jobVars
  <1> QED
    BY <1>1, <1>2 DEF ConnectionLost

\* The relays touch neither steps nor built things.
LEMMA RelayInv ==
  ASSUME TypeOK, TypeOK', PipelineInv, NEW p \in Pods, Relay(p)
  PROVE  PipelineInv'
  <1>1. /\ UNCHANGED <<tenantVars, step, builtVars, deliveryVars>>
        /\ UnknownBeforeSignup'
    <2> USE DEF PipelineInv, UnknownBeforeSignup, TypeOK, tenantVars, jobVars, builtVars, deliveryVars, localVars
    <2>1. CASE ClaimOutbox(p)
      BY <2>1 DEF ClaimOutbox
    <2>2. CASE ClaimDue(p)
      BY <2>2 DEF ClaimDue, Claimable
    <2>3. ASSUME NEW t \in Tenants, EmitOutbox(p, t)
          PROVE  UNCHANGED <<tenantVars, step, builtVars, deliveryVars>> /\ UnknownBeforeSignup'
      BY <2>3 DEF EmitOutbox, EmitSucceeds, Enqueue
    <2>4. ASSUME NEW t \in Tenants, ReleaseOutbox(p, t)
          PROVE  UNCHANGED <<tenantVars, step, builtVars, deliveryVars>> /\ UnknownBeforeSignup'
      BY <2>4 DEF ReleaseOutbox, EmitFails, Enqueue, Fault
    <2>5. ASSUME NEW t \in Tenants, AbortOutbox(p, t)
          PROVE  UNCHANGED <<tenantVars, step, builtVars, deliveryVars>> /\ UnknownBeforeSignup'
      BY <2>5 DEF AbortOutbox
    <2>6. ASSUME NEW t \in Tenants, EmitDue(p, t)
          PROVE  UNCHANGED <<tenantVars, step, builtVars, deliveryVars>> /\ UnknownBeforeSignup'
      BY <2>6 DEF EmitDue, EmitSucceeds, Enqueue
    <2>7. ASSUME NEW t \in Tenants, Rearm(p, t)
          PROVE  UNCHANGED <<tenantVars, step, builtVars, deliveryVars>> /\ UnknownBeforeSignup'
      BY <2>7 DEF Rearm, EmitFails, Enqueue, Fault
    <2>8. ASSUME NEW t \in Tenants, AbortDue(p, t)
          PROVE  UNCHANGED <<tenantVars, step, builtVars, deliveryVars>> /\ UnknownBeforeSignup'
      BY <2>8 DEF AbortDue
    <2> QED
      BY <2>1, <2>2, <2>3, <2>4, <2>5, <2>6, <2>7, <2>8 DEF Relay
  <1>2. Grows
    BY <1>1, SameBuilt DEF tenantVars
  <1>3. \A q \in Pods : SameDelivery(q)
    BY <1>1 DEF SameDelivery, deliveryVars, localVars
  <1>4. pc'[p] # "idle" => DeliveryEarned(p)'
    BY <1>2, <1>3, EarnedPersists DEF PipelineInv, SameDelivery
  <1> QED
    BY <1>1, <1>2, <1>3, <1>4, Assemble DEF tenantVars

\* A new tenant starts at CREATE_DB, which promises nothing.
LEMMA SignupInv ==
  ASSUME TypeOK, TypeOK', PipelineInv, NEW u \in Tenants, NEW s \in Slugs, Signup(u, s)
  PROVE  PipelineInv'
  <1>1. slug[u] = None /\ step[u] = "CREATE_DB" /\ status'[u] = "PENDING" /\ slug'[u] = s
    BY DEF Signup, PipelineInv, UnknownBeforeSignup, TypeOK
  <1>2. \A t \in Tenants \ {u} : slug'[t] = slug[t] /\ status'[t] = status[t]
    BY DEF Signup, TypeOK
  <1>3. UNCHANGED <<dbUrl, realmMeta, jobVars, builtVars, outboxLoop, retryLoop, deliveryVars, ready>>
    BY DEF Signup
  <1>4. \A p \in Pods : msg[p] # u
    BY <1>1 DEF PipelineInv, UnknownBeforeSignup
  <1>5. UnknownBeforeSignup'
    BY <1>1, <1>2, <1>3, ConstantsAssumption
       DEF Signup, PipelineInv, UnknownBeforeSignup, jobVars, deliveryVars, localVars
  <1>6. ASSUME NEW t \in Tenants \ {u}, NEW st, Built(t, st) PROVE Built(t, st)'
    BY <1>2, <1>3, <1>6 DEF Built, builtVars
  <1>7. \A t \in Tenants : Built(t, step[t])'
    <2>1. ASSUME NEW t \in Tenants \ {u} PROVE Built(t, step[t])'
      BY <1>2, <1>3 DEF Built, builtVars, jobVars, PipelineInv
    <2>2. Built(u, step[u])'
      BY <1>1, <1>3 DEF Built, jobVars
    <2> QED
      BY <2>1, <2>2
  <1>8. ASSUME NEW p \in Pods, pc'[p] # "idle" PROVE DeliveryEarned(p)'
    <2>1. PICK t \in Tenants \ {u} : t = msg[p]
      BY <1>3, <1>4, <1>8 DEF TypeOK, deliveryVars
    <2>2. slug'[t] = slug[t]
      BY <1>2
    <2>3. DeliveryEarned(p)
      BY <1>3, <1>8 DEF PipelineInv, deliveryVars
    <2> QED
      BY <1>3, <2>1, <2>2, <2>3 DEF DeliveryEarned, Built, deliveryVars, localVars, builtVars
  <1>9. ActiveIsBuilt'
    BY <1>1, <1>2, <1>6 DEF ActiveIsBuilt, PipelineInv
  <1> QED
    BY <1>5, <1>7, <1>8, <1>9 DEF PipelineInv

\* Every program point of a delivery keeps the invariant.
LEMMA HandleInv ==
  ASSUME TypeOK, TypeOK', PipelineInv, NEW p \in Pods, Handle(p)
  PROVE  PipelineInv'
  BY ReadJobInv, PersistUrlInv, CheckRoleInv, SetRoleInv, CheckDbInv, CreateDbInv, LoadUrlInv,
     MigrateInv, CreateRootInv, SetupKeycloakInv, RecordRealmInv, ActivateInv, AdvanceInv,
     ReadAfterInv, EmitNextInv, HandlerFailsInv, CatchInv, ProcessThrowsInv, AckInv
     DEF Handle

\* Stuttering keeps the invariant.
LEMMA StutterInv ==
  ASSUME PipelineInv, UNCHANGED vars
  PROVE  PipelineInv'
  BY DEF PipelineInv, UnknownBeforeSignup, DeliveryEarned, ActiveIsBuilt, Built,
     vars, tenantVars, jobVars, builtVars, relayVars, deliveryVars, localVars

\* The invariant holds before the first signup.
LEMMA InitInv == Init => PipelineInv
  BY ConstantsAssumption
     DEF Init, PipelineInv, UnknownBeforeSignup, ActiveIsBuilt, Built

\* The pipeline invariant holds in every reachable state: a step of a job, and
\* a program point of a delivery, always stand for what has really been built.
THEOREM PipelineCorrect == Spec => []PipelineInv
  <1>1. TypeOK /\ TypeOK' /\ PipelineInv /\ [Next]_vars => PipelineInv'
    <2> SUFFICES ASSUME TypeOK, TypeOK', PipelineInv, [Next]_vars PROVE PipelineInv'
      OBVIOUS
    <2>1. CASE UNCHANGED vars
      BY <2>1, StutterInv
    <2>2. ASSUME NEW t \in Tenants, NEW s \in Slugs, Signup(t, s) PROVE PipelineInv'
      BY <2>2, SignupInv
    <2>3. ASSUME NEW p \in Pods, Relay(p) PROVE PipelineInv'
      BY <2>3, RelayInv
    <2>4. ASSUME NEW p \in Pods, NEW t \in Tenants, Deliver(p, t) PROVE PipelineInv'
      BY <2>4, DeliverInv
    <2>5. ASSUME NEW p \in Pods, Handle(p) PROVE PipelineInv'
      BY <2>5, HandleInv
    <2>6. ASSUME NEW p \in Pods, ConnectionLost(p) PROVE PipelineInv'
      BY <2>6, ConnectionLostInv
    <2>7. ASSUME NEW p \in Pods, Crash(p) PROVE PipelineInv'
      BY <2>7, CrashInv
    <2> QED
      BY <2>1, <2>2, <2>3, <2>4, <2>5, <2>6, <2>7 DEF Next
  <1> QED
    BY InitInv, <1>1, TypeCorrect, PTL DEF Spec

\* However many pods run the relays and the consumer, and whatever crashes,
\* redeliveries and lost confirmations happen: a tenant that DoneStep made
\* ACTIVE has its role, database, schema, root unit and complete realm.
THEOREM ActiveTenantsAreBuilt == Spec => []ActiveIsBuilt
  <1>1. PipelineInv => ActiveIsBuilt
    BY DEF PipelineInv
  <1> QED
    BY <1>1, PipelineCorrect, PTL

(***************************************************************************)
(* One hand at a time.  Where the broker duplicates nothing and no pod     *)
(* dies, a job passes from hand to hand: event, claim, message, handler,   *)
(* next message or next attempt.  Emits may still be refused and the       *)
(* database may still go away, which only ever loses a hand.               *)
(***************************************************************************)
NothingTwice == FaultKinds \subseteq {"emitLost", "dbDown"}

\* After the step, job t is in no hand it was not in before.
NoNewHand(t) ==
    /\ t \in unpublished' => t \in unpublished
    /\ armed'[t] => armed[t]
    /\ ready'[t] = ready[t]
    /\ \A q \in Pods : /\ t \in outboxLoop'[q] => t \in outboxLoop[q]
                       /\ t \in retryLoop'[q] => t \in retryLoop[q]
                       /\ Working(q, t)' => Working(q, t)

\* A job that gets no new hand stays in one.
LEMMA HandStays ==
  ASSUME NEW t \in Tenants, OneHand(t), NoNewHand(t)
  PROVE  OneHand(t)'
  <1>1. PICK h \in {"event", "due", "queue", "outbox", "retry", "work"}, p \in Pods \cup {None} :
            InHand(t, h, p)
    BY DEF OneHand
  <1>2. InHand(t, h, p)'
    BY <1>1 DEF InHand, NoNewHand
  <1> QED
    BY <1>2 DEF OneHand

\* Two handlers of one job are one handler.
LEMMA Alone ==
  ASSUME NEW t \in Tenants, OneHand(t), NEW p \in Pods, NEW q \in Pods,
         Working(p, t), Working(q, t)
  PROVE  p = q
  BY DEF OneHand, InHand

\* What pod q knows of its own job stays while pod p works on another.
LEMMA OthersAlone ==
  ASSUME TypeOK, HandInv, NEW p \in Pods, pc[p] \notin {"idle", "ack"},
         \A t \in Tenants \ {msg[p]} :
            step'[t] = step[t] /\ dbUrl'[t] = dbUrl[t] /\ rolePw'[t] = rolePw[t],
         NEW q \in Pods \ {p}, SameDelivery(q)
  PROVE  HandlerAlone(q)'
  <1>1. CASE pc[q] \in HandlerPoints
    <2>1. msg[q] \in Tenants /\ msg[p] \in Tenants
      BY <1>1 DEF TypeOK, HandlerPoints
    <2>2. OneHand(msg[q]) /\ HandlerAlone(q)
      BY <2>1 DEF HandInv
    <2>3. msg[q] # msg[p]
      BY <1>1, <2>1, <2>2, Alone DEF Working, HandlerPoints
    <2> QED
      BY <2>1, <2>2, <2>3 DEF HandlerAlone, SameDelivery
  <1>2. CASE pc[q] \notin HandlerPoints
    BY <1>2 DEF HandlerAlone, SameDelivery, HandlerPoints
  <1> QED
    BY <1>1, <1>2

\* The rows a handler relies on, all unchanged.
LEMMA SameRows ==
  ASSUME HandInv, UNCHANGED <<step, dbUrl, rolePw>>
  PROVE  /\ UrlMatchesRole'
         /\ \A q \in Pods : SameDelivery(q) => HandlerAlone(q)'
  BY DEF HandInv, UrlMatchesRole, HandlerAlone, SameDelivery

\* signup() puts a new job in the hand of its event.
LEMMA SignupHand ==
  ASSUME TypeOK, UnknownBeforeSignup, HandInv, NEW u \in Tenants, NEW s \in Slugs, Signup(u, s)
  PROVE  HandInv'
  <1>1. UNCHANGED <<step, dbUrl, rolePw>> /\ \A q \in Pods : SameDelivery(q)
    BY DEF Signup, jobVars, builtVars, deliveryVars, localVars, SameDelivery
  <1>2. ASSUME NEW t \in Tenants PROVE OneHand(t)'
    <2>1. CASE t = u
      <3>1. InHand(u, "event", None)'
        BY DEF Signup, UnknownBeforeSignup, InHand, Working, TypeOK,
               jobVars, deliveryVars, localVars
      <3> QED
        BY <2>1, <3>1 DEF OneHand
    <2>2. CASE t # u
      BY <2>2, HandStays DEF HandInv, NoNewHand, Signup, Working, jobVars, deliveryVars, localVars
    <2> QED
      BY <2>1, <2>2
  <1> QED
    BY <1>1, <1>2, SameRows DEF HandInv

\* The relays pass jobs on: from the row to their loop, from there to the queue
\* or back to the row.
LEMMA RelayHand ==
  ASSUME NothingTwice, TypeOK, HandInv, NEW p \in Pods, Relay(p)
  PROVE  HandInv'
  <1>1. UNCHANGED <<step, dbUrl, rolePw, pc, msg>> /\ \A q \in Pods : SameDelivery(q)
    BY DEF Relay, ClaimOutbox, ClaimDue, EmitOutbox, ReleaseOutbox, AbortOutbox, EmitDue, Rearm,
           AbortDue, tenantVars, jobVars, builtVars, deliveryVars, localVars, SameDelivery
  <1>2. \A q \in Pods, t \in Tenants : Working(q, t)' <=> Working(q, t)
    BY <1>1 DEF Working
  <1>3. ASSUME NEW t \in Tenants PROVE OneHand(t)'
    <2> USE <1>2 DEF TypeOK, tenantVars, jobVars, builtVars, deliveryVars
    <2>0. PICK h \in {"event", "due", "queue", "outbox", "retry", "work"}, q \in Pods \cup {None} :
              InHand(t, h, q)
      BY DEF HandInv, OneHand
    <2>1. CASE ClaimOutbox(p)
      <3>1. CASE t \in unpublished \ unpublished'
        <4>1. InHand(t, "outbox", p)'
          BY <2>0, <2>1, <3>1 DEF ClaimOutbox, InHand
        <4> QED
          BY <4>1 DEF OneHand
      <3>2. CASE ~(t \in unpublished \ unpublished')
        <4>1. InHand(t, h, q)'
          BY <2>0, <2>1, <3>2 DEF ClaimOutbox, InHand
        <4> QED
          BY <4>1 DEF OneHand
      <3> QED
        BY <3>1, <3>2
    <2>2. CASE ClaimDue(p)
      <3>0. PICK b \in SUBSET Tenants :
              /\ armed' = [u \in Tenants |-> armed[u] /\ u \notin b]
              /\ retryLoop' = [retryLoop EXCEPT ![p] = @ \cup b]
              /\ \A u \in b : armed[u]
              /\ UNCHANGED <<unpublished, ready, outboxLoop>>
        BY <2>2 DEF ClaimDue, Batch, Claimable
      <3>1. CASE armed[t] /\ ~armed'[t]
        <4>1. InHand(t, "retry", p)'
          BY <2>0, <3>0, <3>1 DEF InHand
        <4> QED
          BY <4>1 DEF OneHand
      <3>2. CASE ~(armed[t] /\ ~armed'[t])
        <4>1. InHand(t, h, q)'
          BY <2>0, <3>0, <3>2 DEF InHand
        <4> QED
          BY <4>1 DEF OneHand
      <3> QED
        BY <3>1, <3>2
    <2>3. ASSUME NEW u \in Tenants, EmitOutbox(p, u) PROVE OneHand(t)'
      <3>1. CASE t = u
        <4>1. InHand(t, "queue", None)'
          BY <2>0, <2>3, <3>1 DEF EmitOutbox, EmitSucceeds, Enqueue, InHand
        <4> QED
          BY <4>1 DEF OneHand
      <3>2. CASE t # u
        <4>1. InHand(t, h, q)'
          BY <2>0, <2>3, <3>2 DEF EmitOutbox, EmitSucceeds, Enqueue, InHand
        <4> QED
          BY <4>1 DEF OneHand
      <3> QED
        BY <3>1, <3>2
    <2>7. ASSUME NEW u \in Tenants, EmitDue(p, u) PROVE OneHand(t)'
      <3>1. CASE t = u
        <4>1. InHand(t, "queue", None)'
          BY <2>0, <2>7, <3>1 DEF EmitDue, EmitSucceeds, Enqueue, InHand
        <4> QED
          BY <4>1 DEF OneHand
      <3>2. CASE t # u
        <4>1. InHand(t, h, q)'
          BY <2>0, <2>7, <3>2 DEF EmitDue, EmitSucceeds, Enqueue, InHand
        <4> QED
          BY <4>1 DEF OneHand
      <3> QED
        BY <3>1, <3>2
    <2>4. ASSUME NEW u \in Tenants, ReleaseOutbox(p, u) PROVE OneHand(t)'
      <3>0. UNCHANGED ready
        BY <2>4 DEF ReleaseOutbox, EmitFails, Fault, NothingTwice
      <3>1. CASE t = u
        <4>1. InHand(t, "event", None)'
          BY <2>0, <2>4, <3>0, <3>1 DEF ReleaseOutbox, InHand
        <4> QED
          BY <4>1 DEF OneHand
      <3>2. CASE t # u
        <4>1. InHand(t, h, q)'
          BY <2>0, <2>4, <3>0, <3>2 DEF ReleaseOutbox, InHand
        <4> QED
          BY <4>1 DEF OneHand
      <3> QED
        BY <3>1, <3>2
    <2>5. ASSUME NEW u \in Tenants, Rearm(p, u) PROVE OneHand(t)'
      <3>0. UNCHANGED ready
        BY <2>5 DEF Rearm, EmitFails, Fault, NothingTwice
      <3>1. CASE t = u
        <4>1. InHand(t, "due", None)'
          BY <2>0, <2>5, <3>0, <3>1 DEF Rearm, InHand
        <4> QED
          BY <4>1 DEF OneHand
      <3>2. CASE t # u
        <4>1. InHand(t, h, q)'
          BY <2>0, <2>5, <3>0, <3>2 DEF Rearm, InHand
        <4> QED
          BY <4>1 DEF OneHand
      <3> QED
        BY <3>1, <3>2
    <2>6. ASSUME NEW u \in Tenants, AbortOutbox(p, u) PROVE OneHand(t)'
      <3>1. /\ UNCHANGED <<unpublished, armed, ready, retryLoop>>
            /\ \A r \in Pods : outboxLoop'[r] \subseteq outboxLoop[r]
        BY <2>6 DEF AbortOutbox
      <3>2. InHand(t, h, q)'
        BY <2>0, <3>1 DEF InHand
      <3> QED
        BY <3>2 DEF OneHand
    <2>8. ASSUME NEW u \in Tenants, AbortDue(p, u) PROVE OneHand(t)'
      <3>1. /\ UNCHANGED <<unpublished, armed, ready, outboxLoop>>
            /\ \A r \in Pods : retryLoop'[r] \subseteq retryLoop[r]
        BY <2>8 DEF AbortDue
      <3>2. InHand(t, h, q)'
        BY <2>0, <3>1 DEF InHand
      <3> QED
        BY <3>2 DEF OneHand
    <2> QED
      BY <2>1, <2>2, <2>3, <2>4, <2>5, <2>6, <2>7, <2>8 DEF Relay
  <1> QED
    BY <1>1, <1>3, SameRows DEF HandInv

\* The consumer takes the one message of a job.
LEMMA DeliverHand ==
  ASSUME TypeOK, HandInv, NEW p \in Pods, NEW u \in Tenants, Deliver(p, u)
  PROVE  HandInv'
  <1>1. /\ UNCHANGED <<step, dbUrl, rolePw, unpublished, armed, outboxLoop, retryLoop>>
        /\ \A q \in Pods \ {p} : SameDelivery(q)
        /\ pc'[p] = "read" /\ msg'[p] = u /\ pc[p] = "idle"
        /\ ready[u] > 0 /\ ready' = [ready EXCEPT ![u] = @ - 1]
    BY DEF Deliver, Goto, TypeOK, tenantVars, jobVars, builtVars, relayVars, SameDelivery
  <1>2. HandlerAlone(p)'
    BY <1>1 DEF HandlerAlone, HandlerPoints
  <1>3. ASSUME NEW t \in Tenants PROVE OneHand(t)'
    <2>0. PICK h \in {"event", "due", "queue", "outbox", "retry", "work"}, q \in Pods \cup {None} :
              InHand(t, h, q)
      BY DEF HandInv, OneHand
    <2>1. CASE t = u
      <3>1. InHand(t, "work", p)'
        BY <1>1, <2>0, <2>1 DEF InHand, TypeOK, Working, SameDelivery
      <3> QED
        BY <3>1 DEF OneHand
    <2>2. CASE t # u
      <3>1. InHand(t, h, q)'
        BY <1>1, <2>0, <2>2 DEF InHand, TypeOK, Working, SameDelivery
      <3> QED
        BY <3>1 DEF OneHand
    <2> QED
      BY <2>1, <2>2
  <1>4. \A q \in Pods : HandlerAlone(q)'
    BY <1>1, <1>2, SameRows
  <1> QED
    BY <1>1, <1>3, <1>4, SameRows DEF HandInv

\* A point of a handler that hands nothing on.
LEMMA InsideHand ==
  ASSUME HandInv, NEW p \in Pods, pc[p] \notin {"idle", "ack"},
         UNCHANGED <<unpublished, armed, ready, outboxLoop, retryLoop>>,
         msg'[p] = msg[p],
         \A q \in Pods \ {p} : pc'[q] = pc[q] /\ msg'[q] = msg[q]
  PROVE  \A t \in Tenants : OneHand(t)'
  <1>1. ASSUME NEW t \in Tenants PROVE NoNewHand(t)
    BY DEF NoNewHand, Working
  <1> QED
    BY <1>1, HandStays DEF HandInv

\* What a step of a working handler has to show.
LEMMA AssembleHand ==
  ASSUME TypeOK, HandInv, NEW p \in Pods, pc[p] \notin {"idle", "ack"},
         \A q \in Pods \ {p} : SameDelivery(q),
         \A t \in Tenants \ {msg[p]} :
            step'[t] = step[t] /\ dbUrl'[t] = dbUrl[t] /\ rolePw'[t] = rolePw[t],
         \A t \in Tenants : OneHand(t)',
         HandlerAlone(p)',
         LET t == msg[p] IN
            step'[t] \in {"RUN_MIGRATIONS", "SEED", "KEYCLOAK_SETUP", "DONE"} =>
                dbUrl'[t] = rolePw'[t]
  PROVE  HandInv'
  <1>1. \A q \in Pods : HandlerAlone(q)'
    BY OthersAlone
  <1>2. UrlMatchesRole'
    BY DEF HandInv, UrlMatchesRole
  <1> QED
    BY <1>1, <1>2 DEF HandInv

\* Points that change no row of a job a handler relies on.
QuietPoint(p) ==
    ReadJob(p) \/ CheckRole(p) \/ CheckDb(p) \/ CreateDb(p) \/ LoadUrl(p) \/ Migrate(p)
        \/ CreateRoot(p) \/ SetupKeycloak(p) \/ RecordRealm(p) \/ Activate(p) \/ ReadAfter(p)
        \/ HandlerFails(p) \/ ProcessThrows(p)

\* They keep the rows, and what the pod knows of them.
LEMMA QuietHand ==
  ASSUME TypeOK, PipelineInv, HandInv, NEW p \in Pods, QuietPoint(p)
  PROVE  HandInv'
  <1> USE DEF Goto, tenantVars, jobVars, builtVars, relayVars, localVars
  <1>1. /\ pc[p] \notin {"idle", "ack"} /\ msg[p] \in Tenants
        /\ rdStep[p] \in StepOfPoint(pc[p])
    <2>1. pc[p] \notin {"idle", "ack"}
      BY DEF QuietPoint, ReadJob, CheckRole, CheckDb, CreateDb, LoadUrl, Migrate, CreateRoot,
             SetupKeycloak, RecordRealm, Activate, ReadAfter, HandlerFails, ProcessThrows, HandlerPoints
    <2> QED
      BY <2>1 DEF PipelineInv, DeliveryEarned, TypeOK
  <1>2. UNCHANGED <<step, dbUrl, rolePw, unpublished, armed, ready, outboxLoop, retryLoop, msg>>
    BY DEF QuietPoint, ReadJob, CheckRole, CheckDb, CreateDb, LoadUrl, Migrate, CreateRoot,
           SetupKeycloak, RecordRealm, Activate, ReadAfter, HandlerFails, ProcessThrows
  <1>3. \A q \in Pods \ {p} : SameDelivery(q)
    BY DEF QuietPoint, ReadJob, CheckRole, CheckDb, CreateDb, LoadUrl, Migrate, CreateRoot,
           SetupKeycloak, RecordRealm, Activate, ReadAfter, HandlerFails, ProcessThrows,
           TypeOK, SameDelivery
  <1>4. \A t \in Tenants : OneHand(t)'
    BY <1>1, <1>2, <1>3, InsideHand DEF SameDelivery
  <1>5. HandlerAlone(p)'
    <2> USE <1>1, <1>2 DEF TypeOK, HandlerAlone, HandlerPoints, StepOfPoint
    <2>0. HandlerAlone(p) /\ UrlMatchesRole
      BY DEF HandInv
    <2>1. CASE ReadJob(p)
      BY <2>1 DEF ReadJob, FirstPoint, Steps
    <2>2. CASE CheckRole(p)
      BY <2>0, <2>2 DEF CheckRole
    <2>3. CASE CheckDb(p)
      BY <2>0, <2>3 DEF CheckDb
    <2>4. CASE CreateDb(p)
      BY <2>0, <2>4 DEF CreateDb
    <2>5. CASE LoadUrl(p)
      BY <2>0, <2>5 DEF LoadUrl
    <2>6. CASE Migrate(p)
      BY <2>0, <2>6 DEF Migrate, UrlMatchesRole
    <2>7. CASE CreateRoot(p)
      BY <2>0, <2>7 DEF CreateRoot, UrlMatchesRole
    <2>8. CASE SetupKeycloak(p)
      BY <2>0, <2>8 DEF SetupKeycloak
    <2>9. CASE RecordRealm(p)
      BY <2>0, <2>9 DEF RecordRealm, UrlMatchesRole
    <2>10. CASE Activate(p)
      BY <2>0, <2>10 DEF Activate, UrlMatchesRole
    <2>11. CASE ReadAfter(p)
      BY <2>11 DEF ReadAfter
    <2>12. CASE HandlerFails(p)
      BY <2>12 DEF HandlerFails
    <2>13. CASE ProcessThrows(p)
      BY <2>13 DEF ProcessThrows
    <2> QED
      BY <2>1, <2>2, <2>3, <2>4, <2>5, <2>6, <2>7, <2>8, <2>9, <2>10, <2>11, <2>12, <2>13
         DEF QuietPoint
  <1> QED
    BY <1>1, <1>2, <1>3, <1>4, <1>5, AssembleHand DEF HandInv, UrlMatchesRole

\* create-db stores a new password while the job is still at CREATE_DB.
LEMMA PersistUrlHand ==
  ASSUME TypeOK, PipelineInv, HandInv, NEW p \in Pods, PersistUrl(p)
  PROVE  HandInv'
  <1> USE DEF PersistUrl, Goto, jobVars, builtVars, relayVars
  <1>1. pc[p] = "persistUrl" /\ msg[p] \in Tenants /\ rdStep[p] = "CREATE_DB"
    BY DEF PipelineInv, DeliveryEarned, TypeOK, StepOfPoint
  <1>2. step[msg[p]] = "CREATE_DB"
    BY <1>1 DEF HandInv, HandlerAlone, HandlerPoints
  <1>3. \A q \in Pods \ {p} : SameDelivery(q)
    BY DEF TypeOK, SameDelivery
  <1>4. \A t \in Tenants : OneHand(t)'
    BY <1>1, <1>3, InsideHand DEF SameDelivery
  <1>5. HandlerAlone(p)'
    BY <1>1, <1>2 DEF TypeOK, HandlerAlone, HandlerPoints
  <1> QED
    BY <1>1, <1>2, <1>3, <1>4, <1>5, AssembleHand DEF TypeOK

\* CREATE or ALTER ROLE sets the password that is in the row.
LEMMA SetRoleHand ==
  ASSUME TypeOK, PipelineInv, HandInv, NEW p \in Pods, SetRole(p)
  PROVE  HandInv'
  <1> USE DEF SetRole, Goto, tenantVars, jobVars, relayVars, localVars
  <1>1. pc[p] = "setRole" /\ msg[p] \in Tenants /\ rdStep[p] = "CREATE_DB"
    BY DEF PipelineInv, DeliveryEarned, TypeOK, StepOfPoint
  <1>2. step[msg[p]] = "CREATE_DB" /\ dbUrl[msg[p]] = pw[p]
    BY <1>1 DEF HandInv, HandlerAlone, HandlerPoints
  <1>3. \A q \in Pods \ {p} : SameDelivery(q)
    BY DEF TypeOK, SameDelivery
  <1>4. \A t \in Tenants : OneHand(t)'
    BY <1>1, <1>3, InsideHand DEF SameDelivery
  <1>5. HandlerAlone(p)'
    BY <1>1, <1>2 DEF TypeOK, HandlerAlone, HandlerPoints
  <1> QED
    BY <1>1, <1>2, <1>3, <1>4, <1>5, AssembleHand DEF TypeOK

\* The blind write of job.step finds the step the handler has read.
LEMMA AdvanceHand ==
  ASSUME TypeOK, HandInv, NEW p \in Pods, Advance(p)
  PROVE  /\ HandInv'
         /\ step[msg[p]] = rdStep[p] /\ rdStep[p] # "FAILED"
  <1> USE DEF Advance, Goto, DropHandlerLocals, tenantVars, builtVars, relayVars
  <1>1. pc[p] = "advance" /\ msg[p] \in Tenants
    BY DEF TypeOK
  <1>2. /\ step[msg[p]] = rdStep[p] /\ rdStep[p] # "FAILED"
        /\ dbUrl[msg[p]] = rolePw[msg[p]]
    BY <1>1 DEF HandInv, HandlerAlone, HandlerPoints
  <1>3. \A q \in Pods \ {p} : SameDelivery(q)
    BY DEF TypeOK, SameDelivery
  <1>4. \A t \in Tenants : OneHand(t)'
    BY <1>1, <1>3, InsideHand DEF SameDelivery
  <1>5. HandlerAlone(p)'
    BY <1>1 DEF TypeOK, HandlerAlone, HandlerPoints
  <1>6. HandInv'
    BY <1>1, <1>2, <1>3, <1>4, <1>5, AssembleHand DEF TypeOK
  <1> QED
    BY <1>2, <1>6

\* The next message, or the catch if it is refused.
LEMMA EmitNextHand ==
  ASSUME NothingTwice, TypeOK, HandInv, NEW p \in Pods, EmitNext(p)
  PROVE  HandInv'
  <1> USE DEF EmitNext, Goto, tenantVars, jobVars, builtVars, relayVars, localVars
  <1>1. pc[p] = "emit" /\ msg[p] \in Tenants
    BY DEF TypeOK
  <1>2. /\ \A q \in Pods \ {p} : SameDelivery(q)
        /\ UNCHANGED <<step, dbUrl, rolePw, unpublished, armed, outboxLoop, retryLoop, msg>>
        /\ pc' \in [Pods -> Points]
    BY DEF TypeOK, SameDelivery, Points
  <1>3. CASE EmitSucceeds(msg[p]) /\ Goto(p, "ack")
    <2>1. ASSUME NEW t \in Tenants PROVE OneHand(t)'
      <3>1. CASE t = msg[p]
        <4>1. InHand(t, "work", p)
          BY <1>1, <3>1 DEF HandInv, OneHand, InHand, Working
        <4>2. InHand(t, "queue", None)'
          BY <1>1, <1>2, <1>3, <3>1, <4>1
             DEF InHand, Working, EmitSucceeds, Enqueue, TypeOK, SameDelivery
        <4> QED
          BY <4>2 DEF OneHand
      <3>2. CASE t # msg[p]
        <4>1. NoNewHand(t)
          BY <1>1, <1>2, <1>3, <3>2
             DEF NoNewHand, Working, EmitSucceeds, Enqueue, TypeOK, SameDelivery
        <4> QED
          BY <4>1, HandStays DEF HandInv
      <3> QED
        BY <3>1, <3>2
    <2>2. HandlerAlone(p)'
      BY <1>1, <1>3 DEF TypeOK, HandlerAlone, HandlerPoints
    <2> QED
      BY <1>1, <1>2, <2>1, <2>2, AssembleHand DEF HandInv, UrlMatchesRole
  <1>4. CASE EmitFails(msg[p]) /\ Goto(p, "catch")
    <2>0. UNCHANGED ready
      BY <1>4 DEF EmitFails, Fault, NothingTwice
    <2>1. \A t \in Tenants : OneHand(t)'
      BY <1>1, <1>2, <2>0, InsideHand DEF SameDelivery
    <2>2. HandlerAlone(p)'
      BY <1>1, <1>4 DEF TypeOK, HandlerAlone, HandlerPoints
    <2> QED
      BY <1>1, <1>2, <2>1, <2>2, AssembleHand DEF HandInv, UrlMatchesRole
  <1> QED
    BY <1>3, <1>4 DEF EmitNext

\* The catch hands the job to the retry relay, or gives it up.
LEMMA CatchHand ==
  ASSUME TypeOK, HandInv, NEW p \in Pods, Catch(p)
  PROVE  HandInv'
  <1> USE DEF Goto, tenantVars, builtVars, relayVars, localVars
  <1>1. pc[p] = "catch" /\ msg[p] \in Tenants
    BY DEF Catch, TypeOK
  <1>2. /\ \A q \in Pods \ {p} : SameDelivery(q)
        /\ UNCHANGED <<dbUrl, rolePw, unpublished, outboxLoop, retryLoop, ready, msg>>
        /\ pc'[p] = "ack"
        /\ step' \in {step, [step EXCEPT ![msg[p]] = "FAILED"]}
        /\ armed' \in {armed, [armed EXCEPT ![msg[p]] = TRUE]}
    BY DEF Catch, TypeOK, SameDelivery
  <1>3. ASSUME NEW t \in Tenants PROVE OneHand(t)'
    <2>1. CASE t = msg[p]
      <3>1. InHand(t, "work", p)
        BY <1>1, <2>1 DEF HandInv, OneHand, InHand, Working
      <3>2. InHand(t, "due", None)'
        BY <1>1, <1>2, <2>1, <3>1 DEF InHand, Working, TypeOK, SameDelivery
      <3> QED
        BY <3>2 DEF OneHand
    <2>2. CASE t # msg[p]
      <3>1. NoNewHand(t)
        BY <1>1, <1>2, <2>2 DEF NoNewHand, Working, TypeOK, SameDelivery
      <3> QED
        BY <3>1, HandStays DEF HandInv
    <2> QED
      BY <2>1, <2>2
  <1>4. HandlerAlone(p)'
    BY <1>2 DEF HandlerAlone, HandlerPoints
  <1>5. step'[msg[p]] \in {step[msg[p]], "FAILED"} /\ \A t \in Tenants \ {msg[p]} : step'[t] = step[t]
    BY <1>1, <1>2 DEF TypeOK
  <1> QED
    BY <1>1, <1>2, <1>3, <1>4, <1>5, AssembleHand DEF HandInv, UrlMatchesRole

\* The acknowledged delivery has handed its job on already.
LEMMA AckHand ==
  ASSUME TypeOK, HandInv, NEW p \in Pods, Ack(p)
  PROVE  HandInv'
  <1> USE DEF Ack, EndDelivery, DropHandlerLocals, Goto, tenantVars, jobVars, builtVars, relayVars
  <1>1. /\ pc'[p] = "idle"
        /\ UNCHANGED <<step, dbUrl, rolePw, unpublished, armed, outboxLoop, retryLoop, ready>>
    BY DEF TypeOK
  <1>2. \A q \in Pods \ {p} : SameDelivery(q)
    BY DEF TypeOK, SameDelivery
  <1>3. ASSUME NEW t \in Tenants PROVE OneHand(t)'
    <2>1. NoNewHand(t)
      BY <1>1, <1>2 DEF NoNewHand, Working, SameDelivery
    <2> QED
      BY <2>1, HandStays DEF HandInv
  <1>4. HandlerAlone(p)'
    BY <1>1 DEF HandlerAlone, HandlerPoints
  <1>5. \A q \in Pods : HandlerAlone(q)'
    BY <1>1, <1>2, <1>4, SameRows
  <1> QED
    BY <1>1, <1>3, <1>5, SameRows DEF HandInv

\* Nothing is in any hand at first.
LEMMA InitHand == Init => HandInv
  <1> SUFFICES ASSUME Init PROVE HandInv
    OBVIOUS
  <1>1. ASSUME NEW t \in Tenants PROVE OneHand(t)
    <2>1. InHand(t, "event", None)
      BY DEF Init, InHand, Working
    <2> QED
      BY <2>1 DEF OneHand
  <1> QED
    BY <1>1 DEF Init, HandInv, HandlerAlone, HandlerPoints, UrlMatchesRole

\* A step in which nothing happens.
LEMMA StutterHand ==
  ASSUME HandInv, UNCHANGED vars
  PROVE  HandInv'
  <1> USE DEF vars, tenantVars, jobVars, builtVars, relayVars, deliveryVars, localVars
  <1>1. \A t \in Tenants : NoNewHand(t)
    BY DEF NoNewHand, Working
  <1>2. \A t \in Tenants : OneHand(t)'
    BY <1>1, HandStays DEF HandInv
  <1>3. UrlMatchesRole' /\ \A q \in Pods : HandlerAlone(q)'
    BY SameRows DEF SameDelivery
  <1> QED
    BY <1>2, <1>3 DEF HandInv

\* Every program point.
LEMMA HandleHand ==
  ASSUME NothingTwice, TypeOK, PipelineInv, HandInv, NEW p \in Pods, Handle(p)
  PROVE  HandInv'
  BY QuietHand, PersistUrlHand, SetRoleHand, AdvanceHand, EmitNextHand, CatchHand, AckHand
     DEF Handle, QuietPoint

\* The hands, inductively.
LEMMA NextHand ==
  ASSUME NothingTwice, TypeOK, PipelineInv, HandInv, [Next]_vars
  PROVE  HandInv'
  <1>1. CASE UNCHANGED vars
    BY <1>1, StutterHand
  <1>2. ASSUME NEW t \in Tenants, NEW s \in Slugs, Signup(t, s) PROVE HandInv'
    BY <1>2, SignupHand DEF PipelineInv
  <1>3. ASSUME NEW p \in Pods, Relay(p) PROVE HandInv'
    BY <1>3, RelayHand
  <1>4. ASSUME NEW p \in Pods, NEW t \in Tenants, Deliver(p, t) PROVE HandInv'
    BY <1>4, DeliverHand
  <1>5. ASSUME NEW p \in Pods, Handle(p) PROVE HandInv'
    BY <1>5, HandleHand
  <1>6. ASSUME NEW p \in Pods, ConnectionLost(p) \/ Crash(p) PROVE HandInv'
    BY <1>6 DEF ConnectionLost, Crash, Fault, NothingTwice
  <1> QED
    BY <1>1, <1>2, <1>3, <1>4, <1>5, <1>6 DEF Next

\* A job passes from one hand to the next and is never in two; its handler
\* finds the step and the password it has itself read or written.
THEOREM HandsCorrect ==
  ASSUME NothingTwice
  PROVE  Spec => []HandInv
  <1>1. TypeOK /\ PipelineInv /\ HandInv /\ [Next]_vars => HandInv'
    BY NextHand
  <1> QED
    BY InitHand, <1>1, TypeCorrect, PipelineCorrect, PTL DEF Spec

\* One hand is at most one driver.
LEMMA OneHandOneDriver ==
  ASSUME TypeOK, NEW t \in Tenants, OneHand(t)
  PROVE  Drivers(t) <= 1
  <1>1. PICK h \in {"event", "due", "queue", "outbox", "retry", "work"}, p \in Pods \cup {None} :
            InHand(t, h, p)
    BY DEF OneHand
  <1> DEFINE claimed == {q \in Pods : t \in outboxLoop[q]}
             retried == {q \in Pods : t \in retryLoop[q]}
             worked  == {q \in Pods : Working(q, t)}
  <1>2. /\ claimed \subseteq {p} /\ (h # "outbox" => claimed = {})
        /\ retried \subseteq {p} /\ (h # "retry" => retried = {})
        /\ worked \subseteq {p} /\ (h # "work" => worked = {})
    BY <1>1 DEF InHand
  <1>3. \A S : S \subseteq {p} => Cardinality(S) \in {0, 1}
    <2>1. \A S : S \subseteq {p} => S = {} \/ S = {p}
      OBVIOUS
    <2> QED
      BY <2>1, FS_EmptySet, FS_Singleton
  <1>4. /\ Cardinality(claimed) \in {0, 1} /\ (h # "outbox" => Cardinality(claimed) = 0)
        /\ Cardinality(retried) \in {0, 1} /\ (h # "retry" => Cardinality(retried) = 0)
        /\ Cardinality(worked) \in {0, 1} /\ (h # "work" => Cardinality(worked) = 0)
    BY <1>2, <1>3, FS_EmptySet
  <1>5. /\ One(t \in unpublished) \in {0, 1} /\ (h # "event" => One(t \in unpublished) = 0)
        /\ One(armed[t]) \in {0, 1} /\ (h # "due" => One(armed[t]) = 0)
        /\ ready[t] \in {0, 1} /\ (h # "queue" => ready[t] = 0)
    BY <1>1 DEF InHand, One, TypeOK
  <1> HIDE DEF claimed, retried, worked
  <1>6. One(t \in unpublished) + One(armed[t]) + ready[t]
            + Cardinality(claimed) + Cardinality(retried) + Cardinality(worked) <= 1
    BY <1>4, <1>5
  <1> QED
    BY <1>6 DEF claimed, retried, worked, Drivers

\* With several pods running both relays and the consumer, the SKIP LOCKED
\* claims and the retry stamp never put two messages or handlers of one job in
\* flight: every duplicate comes from the broker or from a dying pod.
THEOREM OneDriverAtATime ==
  ASSUME NothingTwice
  PROVE  Spec => []OneDriver
  <1>1. TypeOK /\ HandInv => OneDriver
    BY OneHandOneDriver DEF HandInv, OneDriver
  <1> QED
    BY <1>1, TypeCorrect, HandsCorrect, PTL

\* Past CREATE_DB the url of a tenant holds the password of its role.
THEOREM UrlIsTheRoles ==
  ASSUME NothingTwice
  PROVE  Spec => []UrlMatchesRole
  <1>1. HandInv => UrlMatchesRole
    BY DEF HandInv
  <1> QED
    BY <1>1, HandsCorrect, PTL

\* The ranks are the order of the steps.
LEMMA Ranks ==
  /\ StepRank["CREATE_DB"] = 1 /\ StepRank["RUN_MIGRATIONS"] = 2 /\ StepRank["SEED"] = 3
  /\ StepRank["KEYCLOAK_SETUP"] = 4 /\ StepRank["DONE"] = 5 /\ StepRank["FAILED"] = 6
  BY DEF StepRank

\* The next step is no earlier one.
LEMMA NextIsLater ==
  ASSUME NEW st \in Steps, st # "FAILED"
  PROVE  StepRank[NextStep(st)] >= StepRank[st]
  <1>1. CASE st = "CREATE_DB"
    BY <1>1, Ranks DEF NextStep
  <1>2. CASE st = "RUN_MIGRATIONS"
    BY <1>2, Ranks DEF NextStep
  <1>3. CASE st = "SEED"
    BY <1>3, Ranks DEF NextStep
  <1>4. CASE st \in {"KEYCLOAK_SETUP", "DONE"}
    BY <1>4, Ranks DEF NextStep
  <1> QED
    BY <1>1, <1>2, <1>3, <1>4 DEF Steps

\* The only steps that write job.step are the advance and the catch.
LEMMA OnlyTwoWrite ==
  ASSUME TypeOK, Next, step' # step
  PROVE  \E p \in Pods : Advance(p) \/ Catch(p)
  <1> USE DEF tenantVars, jobVars, builtVars, relayVars, deliveryVars, localVars
  <1>1. ASSUME NEW p \in Pods, Handle(p) PROVE Advance(p) \/ Catch(p)
    BY <1>1 DEF Handle, ReadJob, PersistUrl, CheckRole, SetRole, CheckDb, CreateDb, LoadUrl, Migrate,
                CreateRoot, SetupKeycloak, RecordRealm, Activate, ReadAfter, EmitNext, HandlerFails,
                ProcessThrows, Ack
  <1>2. ASSUME NEW p \in Pods, Relay(p) PROVE FALSE
    BY <1>2 DEF Relay, ClaimOutbox, ClaimDue, EmitOutbox, ReleaseOutbox, AbortOutbox, EmitDue, Rearm,
                AbortDue
  <1>3. ASSUME NEW p \in Pods, ConnectionLost(p) \/ Crash(p) PROVE FALSE
    BY <1>3 DEF ConnectionLost, Crash
  <1>4. ASSUME NEW p \in Pods, NEW t \in Tenants, Deliver(p, t) PROVE FALSE
    BY <1>4 DEF Deliver
  <1>5. ASSUME NEW t \in Tenants, NEW s \in Slugs, Signup(t, s) PROVE FALSE
    BY <1>5 DEF Signup
  <1> QED
    BY <1>1, <1>2, <1>3, <1>4, <1>5 DEF Next

\* Although the update of job.step is unconditional, no handler and no retry
\* moves a job back.
THEOREM StepsAdvance ==
  ASSUME NothingTwice
  PROVE  Spec => StepsOnlyAdvance
  <1>1. TypeOK /\ HandInv /\ [Next]_vars =>
          [\A t \in Tenants : StepRank[step'[t]] >= StepRank[step[t]]]_step
    <2> SUFFICES ASSUME TypeOK, HandInv, [Next]_vars, step' # step, NEW t \in Tenants
                 PROVE  StepRank[step'[t]] >= StepRank[step[t]]
      OBVIOUS
    <2>1. PICK p \in Pods : Advance(p) \/ Catch(p)
      BY OnlyTwoWrite DEF vars, jobVars
    <2>2. step[t] \in Steps
      BY DEF TypeOK
    <2>3. CASE Advance(p)
      <3>1. step[msg[p]] = rdStep[p] /\ rdStep[p] # "FAILED"
        BY <2>3, AdvanceHand
      <3>2. step'[t] = step[t] \/ (step'[t] = NextStep(step[t]) /\ step[t] # "FAILED")
        BY <2>3, <3>1 DEF Advance, TypeOK
      <3>3. StepRank[step[t]] \in Nat
        BY <2>2, Ranks DEF Steps
      <3> QED
        BY <2>2, <3>2, <3>3, NextIsLater
    <2>4. CASE Catch(p)
      <3>1. step'[t] = step[t] \/ step'[t] = "FAILED"
        BY <2>4 DEF Catch, TypeOK
      <3> QED
        BY <2>2, <3>1, Ranks DEF Steps
    <2> QED
      BY <2>1, <2>3, <2>4
  <1> QED
    BY <1>1, TypeCorrect, HandsCorrect, PTL DEF Spec, StepsOnlyAdvance

(***************************************************************************)
(* No job is forgotten.  Here the broker may duplicate, and channels or    *)
(* pods may be lost, but not both: a handler whose channel is gone no      *)
(* longer owns a message, and if its pod dies nobody is told.  (With both, *)
(* a stale handler can write job.step back, die, and leave the other       *)
(* handler to find the job where it had read it.)                          *)
(***************************************************************************)
LosesNothing ==
    /\ FaultKinds \cap {"dbDown", "relayCrash"} = {}
    /\ ~({"connection", "crash"} \subseteq FaultKinds)

\* The rows, claims and messages of job t are as before.
SameJob(t) ==
    /\ status'[t] = status[t] /\ step'[t] = step[t]
    /\ armed'[t] = armed[t] /\ ready'[t] = ready[t]
    /\ t \in unpublished' <=> t \in unpublished
    /\ \A q \in Pods : /\ t \in outboxLoop'[q] <=> t \in outboxLoop[q]
                       /\ t \in retryLoop'[q] <=> t \in retryLoop[q]

Needed(t) == status[t] # "ABSENT" /\ step[t] \notin {"DONE", "FAILED"}

OwnsItsMessage(q) == "connection" \notin FaultKinds => (pc[q] # "idle" => owns[q])

\* What a step of pod p about job u has to show.
LEMMA AssembleCarry ==
  ASSUME TypeOK, CarryInv, NEW p \in Pods, NEW u, msg[p] = u \/ pc[p] = "idle",
         \A q \in Pods \ {p} : SameDelivery(q) /\ owns'[q] = owns[q],
         \A t \in Tenants \ {u} : SameJob(t),
         u \in Tenants /\ Needed(u)' => Carried(u)',
         OwnsItsMessage(p)'
  PROVE  CarryInv'
  <1>1. ASSUME NEW t \in Tenants, Needed(t)' PROVE Carried(t)'
    <2>1. CASE t # u
      <3>1. SameJob(t) /\ Carried(t)
        BY <1>1, <2>1 DEF CarryInv, Needed, SameJob
      <3>2. CASE Waiting(t)
        <4>1. Waiting(t)'
          BY <3>1, <3>2 DEF Waiting, SameJob
        <4> QED
          BY <4>1 DEF Carried
      <3>3. CASE \E q \in Pods : Working(q, t) /\ (pc[q] = "after" => step[t] # rdStep[q])
        <4>1. PICK q \in Pods : Working(q, t) /\ (pc[q] = "after" => step[t] # rdStep[q])
          BY <3>3
        <4>2. q # p
          BY <2>1, <4>1 DEF Working
        <4>3. Working(q, t)' /\ (pc'[q] = "after" => step'[t] # rdStep'[q])
          BY <3>1, <4>1, <4>2 DEF Working, SameDelivery, SameJob
        <4> QED
          BY <4>3 DEF Carried
      <3> QED
        BY <3>1, <3>2, <3>3 DEF Carried
    <2> QED
      BY <1>1, <2>1
  <1>2. ASSUME NEW q \in Pods PROVE OwnsItsMessage(q)'
    BY DEF OwnsItsMessage, CarryInv, SameDelivery
  <1> QED
    BY <1>1, <1>2 DEF CarryInv, Needed, OwnsItsMessage

\* The event of a signup waits to be published.
LEMMA SignupCarry ==
  ASSUME TypeOK, CarryInv, NEW u \in Tenants, NEW s \in Slugs, Signup(u, s)
  PROVE  CarryInv'
  <1> USE DEF Signup, jobVars, builtVars, deliveryVars, localVars
  <1>1. ASSUME NEW t \in Tenants, Needed(t)' PROVE Carried(t)'
    <2>1. CASE t = u
      BY <2>1 DEF Carried, Waiting
    <2>2. CASE t # u
      <3>1. Carried(t)
        BY <1>1, <2>2 DEF CarryInv, Needed, TypeOK
      <3> QED
        BY <3>1 DEF Carried, Waiting, Working
    <2> QED
      BY <2>1, <2>2
  <1> QED
    BY <1>1 DEF CarryInv, Needed

\* The relays drop nothing: what leaves a row is claimed, what leaves a claim
\* is a message or in its row again.
LEMMA RelayCarry ==
  ASSUME LosesNothing, TypeOK, CarryInv, NEW p \in Pods, Relay(p)
  PROVE  CarryInv'
  <1> USE DEF tenantVars, jobVars, builtVars, deliveryVars, localVars
  <1>1. UNCHANGED <<status, step, pc, msg, rdStep, owns>>
    BY DEF Relay, ClaimOutbox, ClaimDue, EmitOutbox, ReleaseOutbox, AbortOutbox, EmitDue, Rearm,
           AbortDue
  <1>2. ASSUME NEW t \in Tenants, Waiting(t) PROVE Waiting(t)'
    <2> USE <1>2 DEF Waiting, TypeOK
    <2>1. CASE ClaimOutbox(p)
      BY <2>1 DEF ClaimOutbox
    <2>2. CASE ClaimDue(p)
      BY <2>2 DEF ClaimDue
    <2>3. ASSUME NEW u \in Tenants, EmitOutbox(p, u) PROVE Waiting(t)'
      BY <2>3 DEF EmitOutbox, EmitSucceeds, Enqueue
    <2>4. ASSUME NEW u \in Tenants, ReleaseOutbox(p, u) PROVE Waiting(t)'
      BY <2>4 DEF ReleaseOutbox, EmitFails, Enqueue
    <2>5. ASSUME NEW u \in Tenants, EmitDue(p, u) PROVE Waiting(t)'
      BY <2>5 DEF EmitDue, EmitSucceeds, Enqueue
    <2>6. ASSUME NEW u \in Tenants, Rearm(p, u) PROVE Waiting(t)'
      BY <2>6 DEF Rearm, EmitFails, Enqueue
    <2>7. ASSUME NEW u \in Tenants, AbortOutbox(p, u) \/ AbortDue(p, u) PROVE Waiting(t)'
      BY <2>7 DEF AbortOutbox, AbortDue, Fault, LosesNothing
    <2> QED
      BY <2>1, <2>2, <2>3, <2>4, <2>5, <2>6, <2>7 DEF Relay
  <1>3. ASSUME NEW t \in Tenants, Carried(t) PROVE Carried(t)'
    BY <1>1, <1>2, <1>3 DEF Carried, Working
  <1> QED
    BY <1>1, <1>3 DEF CarryInv

\* A message that is taken is at work.
LEMMA DeliverCarry ==
  ASSUME TypeOK, CarryInv, NEW p \in Pods, NEW u \in Tenants, Deliver(p, u)
  PROVE  CarryInv'
  <1> USE DEF Deliver, Goto, tenantVars, jobVars, builtVars, relayVars
  <1>1. \A q \in Pods \ {p} : SameDelivery(q) /\ owns'[q] = owns[q]
    BY DEF TypeOK, SameDelivery
  <1>2. \A t \in Tenants \ {u} : SameJob(t)
    BY DEF TypeOK, SameJob
  <1>3. Working(p, u)' /\ pc'[p] = "read" /\ owns'[p]
    BY DEF TypeOK, Working
  <1>4. Carried(u)'
    BY <1>3 DEF Carried
  <1> QED
    BY <1>1, <1>2, <1>3, <1>4, AssembleCarry DEF OwnsItsMessage

\* Points of a handler that still have the job in hand afterwards.
LEMMA KeepCarry ==
  ASSUME TypeOK, CarryInv, NEW p \in Pods, QuietPoint(p) \/ PersistUrl(p) \/ SetRole(p)
  PROVE  CarryInv'
  <1> USE DEF Goto, tenantVars, jobVars, builtVars, relayVars, localVars
  <1>1. /\ UNCHANGED <<step, unpublished, armed, ready, outboxLoop, retryLoop, msg, owns>>
        /\ \A t \in Tenants \ {msg[p]} : status'[t] = status[t]
        /\ pc[p] \notin {"idle", "ack"}
    BY DEF QuietPoint, ReadJob, CheckRole, CheckDb, CreateDb, LoadUrl, Migrate, CreateRoot,
           SetupKeycloak, RecordRealm, Activate, ReadAfter, HandlerFails, ProcessThrows,
           PersistUrl, SetRole, HandlerPoints, TypeOK
  <1>2. \A q \in Pods \ {p} : SameDelivery(q)
    BY DEF QuietPoint, ReadJob, CheckRole, CheckDb, CreateDb, LoadUrl, Migrate, CreateRoot,
           SetupKeycloak, RecordRealm, Activate, ReadAfter, HandlerFails, ProcessThrows,
           PersistUrl, SetRole, TypeOK, SameDelivery
  <1>3. \A t \in Tenants \ {msg[p]} : SameJob(t)
    BY <1>1 DEF SameJob
  <1>4. PICK u \in Tenants : u = msg[p]
    BY <1>1 DEF TypeOK
  <1>5. OwnsItsMessage(p)'
    BY <1>1 DEF OwnsItsMessage, CarryInv
  <1>6. ASSUME Needed(u)' PROVE Carried(u)'
    <2>1. CASE pc'[p] \notin {"ack", "after", "idle"}
      <3>1. Working(p, u)' /\ pc'[p] # "after"
        BY <1>1, <1>4, <2>1 DEF Working
      <3> QED
        BY <3>1 DEF Carried
    <2>2. CASE ReadJob(p)
      BY <1>4, <1>6, <2>1, <2>2 DEF ReadJob, FirstPoint, TypeOK, Steps, Needed
    <2>3. CASE ReadAfter(p)
      <3>1. CASE pc'[p] = "ack"
        <4>1. pc[p] = "after" /\ step[u] = rdStep[p] /\ status' = status
          BY <1>1, <1>4, <1>6, <2>3, <3>1 DEF ReadAfter, Needed, TypeOK
        <4>2. Carried(u)
          BY <1>1, <1>6, <4>1 DEF CarryInv, Needed
        <4>3. CASE Waiting(u)
          BY <1>1, <4>3 DEF Waiting, Carried
        <4>4. CASE \E q \in Pods : Working(q, u) /\ (pc[q] = "after" => step[u] # rdStep[q])
          <5>1. PICK q \in Pods : Working(q, u) /\ (pc[q] = "after" => step[u] # rdStep[q])
            BY <4>4
          <5>2. q # p
            BY <4>1, <5>1
          <5>3. Working(q, u)' /\ (pc'[q] = "after" => step'[u] # rdStep'[q])
            BY <1>1, <1>2, <5>1, <5>2 DEF Working, SameDelivery
          <5> QED
            BY <5>3 DEF Carried
        <4> QED
          BY <4>2, <4>3, <4>4 DEF Carried
      <3>2. CASE pc'[p] # "ack"
        BY <2>1, <2>3, <3>2 DEF ReadAfter, TypeOK
      <3> QED
        BY <3>1, <3>2
    <2>4. CASE ~ReadJob(p) /\ ~ReadAfter(p)
      <3>1. pc'[p] \notin {"ack", "after", "idle"}
        BY <2>4 DEF QuietPoint, CheckRole, CheckDb, CreateDb, LoadUrl, Migrate, CreateRoot,
             SetupKeycloak, RecordRealm, Activate, HandlerFails, ProcessThrows, PersistUrl, SetRole, TypeOK
      <3> QED
        BY <2>1, <3>1
    <2> QED
      BY <2>2, <2>3, <2>4
  <1> QED
    BY <1>1, <1>2, <1>3, <1>4, <1>5, <1>6, AssembleCarry

\* The handler that moved the job on will hand it on.
LEMMA AdvanceCarry ==
  ASSUME TypeOK, CarryInv, NEW p \in Pods, Advance(p)
  PROVE  CarryInv'
  <1> USE DEF Advance, Goto, DropHandlerLocals, tenantVars, builtVars, relayVars
  <1>1. PICK u \in Tenants : u = msg[p]
    BY DEF TypeOK
  <1>2. \A q \in Pods \ {p} : SameDelivery(q) /\ owns'[q] = owns[q]
    BY DEF TypeOK, SameDelivery
  <1>3. \A t \in Tenants \ {u} : SameJob(t)
    BY <1>1 DEF TypeOK, SameJob
  <1>4. OwnsItsMessage(p)'
    BY DEF OwnsItsMessage, CarryInv
  <1>5. ASSUME Needed(u)' PROVE Carried(u)'
    <2>1. step'[u] = NextStep(rdStep[p]) /\ rdStep'[p] = rdStep[p] /\ pc'[p] = "after" /\ msg'[p] = u
      BY <1>1 DEF TypeOK
    <2>2. step'[u] # rdStep'[p]
      BY <1>5, <2>1 DEF NextStep, Needed
    <2>3. Working(p, u)'
      BY <2>1 DEF Working
    <2> QED
      BY <2>2, <2>3 DEF Carried
  <1> QED
    BY <1>1, <1>2, <1>3, <1>4, <1>5, AssembleCarry

\* The emit leaves a message or goes to the catch.
LEMMA EmitNextCarry ==
  ASSUME TypeOK, CarryInv, NEW p \in Pods, EmitNext(p)
  PROVE  CarryInv'
  <1> USE DEF EmitNext, Goto, tenantVars, jobVars, builtVars, relayVars, localVars
  <1>1. PICK u \in Tenants : u = msg[p]
    BY DEF TypeOK
  <1>2. \A q \in Pods \ {p} : SameDelivery(q) /\ owns'[q] = owns[q]
    BY DEF TypeOK, SameDelivery
  <1>3. \A t \in Tenants \ {u} : SameJob(t)
    BY <1>1 DEF TypeOK, SameJob, EmitSucceeds, EmitFails, Enqueue
  <1>4. OwnsItsMessage(p)'
    BY DEF OwnsItsMessage, CarryInv
  <1>5. Carried(u)'
    <2>1. CASE EmitSucceeds(u)
      BY <1>1, <2>1 DEF TypeOK, EmitSucceeds, Enqueue, Carried, Waiting
    <2>2. CASE pc'[p] = "catch"
      <3>1. Working(p, u)'
        BY <1>1, <2>2 DEF Working
      <3> QED
        BY <2>2, <3>1 DEF Carried
    <2> QED
      BY <1>1, <2>1, <2>2 DEF TypeOK
  <1> QED
    BY <1>1, <1>2, <1>3, <1>4, <1>5, AssembleCarry

\* The catch stamps a next attempt or gives the job up.
LEMMA CatchCarry ==
  ASSUME TypeOK, CarryInv, NEW p \in Pods, Catch(p)
  PROVE  CarryInv'
  <1> USE DEF Catch, Goto, tenantVars, builtVars, relayVars, localVars
  <1>1. PICK u \in Tenants : u = msg[p]
    BY DEF TypeOK
  <1>2. \A q \in Pods \ {p} : SameDelivery(q) /\ owns'[q] = owns[q]
    BY DEF TypeOK, SameDelivery
  <1>3. \A t \in Tenants \ {u} : SameJob(t)
    BY <1>1 DEF TypeOK, SameJob
  <1>4. OwnsItsMessage(p)'
    BY DEF OwnsItsMessage, CarryInv
  <1>5. Needed(u)' => Carried(u)'
    BY <1>1 DEF TypeOK, Needed, Carried, Waiting
  <1> QED
    BY <1>1, <1>2, <1>3, <1>4, <1>5, AssembleCarry

\* Acknowledging, a delivery carries nothing any more.
LEMMA AckCarry ==
  ASSUME TypeOK, CarryInv, NEW p \in Pods, Ack(p)
  PROVE  CarryInv'
  <1> USE DEF Ack, EndDelivery, DropHandlerLocals, Goto, tenantVars, jobVars, builtVars, relayVars
  <1>1. \A q \in Pods \ {p} : SameDelivery(q) /\ owns'[q] = owns[q]
    BY DEF TypeOK, SameDelivery
  <1>2. \A t \in Tenants : SameJob(t)
    BY DEF TypeOK, SameJob
  <1>3. OwnsItsMessage(p)'
    BY DEF OwnsItsMessage, TypeOK
  <1>4. ASSUME NEW t \in Tenants, Needed(t)' PROVE Carried(t)'
    <2>1. Carried(t)
      BY <1>2, <1>4 DEF CarryInv, Needed, SameJob
    <2>2. CASE Waiting(t)
      BY <2>2 DEF Waiting, Carried
    <2>3. CASE \E q \in Pods : Working(q, t) /\ (pc[q] = "after" => step[t] # rdStep[q])
      <3>1. PICK q \in Pods : Working(q, t) /\ (pc[q] = "after" => step[t] # rdStep[q])
        BY <2>3
      <3>2. q # p
        BY <3>1 DEF Working
      <3>3. Working(q, t)' /\ (pc'[q] = "after" => step'[t] # rdStep'[q])
        BY <1>1, <3>1, <3>2 DEF Working, SameDelivery
      <3> QED
        BY <3>3 DEF Carried
    <2> QED
      BY <2>1, <2>2, <2>3 DEF Carried
  <1> QED
    BY <1>1, <1>2, <1>3, <1>4, AssembleCarry DEF TypeOK

\* A message the broker takes back waits in the queue again.
LEMMA RequeueCarry ==
  ASSUME LosesNothing, TypeOK, CarryInv, NEW p \in Pods, ConnectionLost(p) \/ Crash(p)
  PROVE  CarryInv'
  <1> USE DEF tenantVars, jobVars, builtVars, relayVars, EndDelivery, DropHandlerLocals, Goto
  <1>1. owns[p]
    BY DEF ConnectionLost, Crash, Fault, LosesNothing, CarryInv
  <1>2. PICK u \in Tenants : u = msg[p]
    BY <1>1 DEF TypeOK
  <1>3. ready' = [ready EXCEPT ![u] = @ + 1]
    BY <1>1, <1>2 DEF ConnectionLost, Crash, Enqueue
  <1>4. UNCHANGED <<status, step, armed, unpublished, outboxLoop, retryLoop>>
    <2>1. CASE ConnectionLost(p)
      BY <2>1 DEF ConnectionLost
    <2>2. CASE Crash(p)
      <3>1. outboxLoop[p] = {} /\ retryLoop[p] = {}
        BY <2>2 DEF Crash, Fault, LosesNothing
      <3>2. outboxLoop' = outboxLoop /\ retryLoop' = retryLoop
        BY <2>2, <3>1 DEF Crash, TypeOK
      <3> QED
        BY <2>2, <3>2 DEF Crash
    <2> QED
      BY <2>1, <2>2
  <1>5. \A q \in Pods \ {p} : SameDelivery(q) /\ owns'[q] = owns[q]
    BY DEF ConnectionLost, Crash, TypeOK, SameDelivery
  <1>6. \A t \in Tenants \ {u} : SameJob(t)
    BY <1>3, <1>4 DEF TypeOK, SameJob
  <1>7. OwnsItsMessage(p)'
    BY DEF OwnsItsMessage, ConnectionLost, Crash, Fault, TypeOK
  <1>8. Carried(u)'
    BY <1>3 DEF TypeOK, Carried, Waiting
  <1> QED
    BY <1>2, <1>5, <1>6, <1>7, <1>8, AssembleCarry

\* Every step.
LEMMA NextCarry ==
  ASSUME LosesNothing, TypeOK, CarryInv, [Next]_vars
  PROVE  CarryInv'
  <1>1. CASE UNCHANGED vars
    BY <1>1 DEF vars, tenantVars, jobVars, relayVars, deliveryVars, localVars,
                CarryInv, Carried, Waiting, Working
  <1>2. ASSUME NEW t \in Tenants, NEW s \in Slugs, Signup(t, s) PROVE CarryInv'
    BY <1>2, SignupCarry
  <1>3. ASSUME NEW p \in Pods, Relay(p) PROVE CarryInv'
    BY <1>3, RelayCarry
  <1>4. ASSUME NEW p \in Pods, NEW t \in Tenants, Deliver(p, t) PROVE CarryInv'
    BY <1>4, DeliverCarry
  <1>5. ASSUME NEW p \in Pods, Handle(p) PROVE CarryInv'
    BY <1>5, KeepCarry, AdvanceCarry, EmitNextCarry, CatchCarry, AckCarry DEF Handle, QuietPoint
  <1>6. ASSUME NEW p \in Pods, ConnectionLost(p) \/ Crash(p) PROVE CarryInv'
    BY <1>6, RequeueCarry
  <1> QED
    BY <1>1, <1>2, <1>3, <1>4, <1>5, <1>6 DEF Next

\* Of a job that is neither DONE nor FAILED there is always an event, a claim,
\* a message, a next attempt, or a handler that will hand it on.
THEOREM JobsAreCarried ==
  ASSUME LosesNothing
  PROVE  Spec => []CarryInv
  <1>1. Init => CarryInv
    BY DEF Init, CarryInv
  <1>2. TypeOK /\ CarryInv /\ [Next]_vars => CarryInv'
    BY NextCarry
  <1> QED
    BY <1>1, <1>2, TypeCorrect, PTL DEF Spec

\* No job is forgotten half-way: whatever is refused, duplicated, or given back
\* by the broker, something will run the job's next step.
THEOREM NoJobForgotten ==
  ASSUME LosesNothing
  PROVE  Spec => []JobDriven
  <1>1. TypeOK /\ CarryInv => JobDriven
    BY DEF TypeOK, CarryInv, Carried, Waiting, JobDriven, Driven, Claimable
  <1> QED
    BY <1>1, TypeCorrect, JobsAreCarried, PTL
=============================================================================
