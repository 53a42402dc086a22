------------------------------- MODULE Fleet -------------------------------
(***************************************************************************)
(* The migration of every tenant database (packages/db): the script lists  *)
(* the active tenants and works the list with at most Limit runners, each  *)
(* of which takes the next item and reports, instead of throwing, what     *)
(* fails.  Node runs one runner at a time between two awaits.              *)
(***************************************************************************)
EXTENDS Naturals, FiniteSets, Sequences, SequencesExt

CONSTANTS
    Fleets,       \* tenants
    FleetRunners, \* runners the limit allows: 1..Limit
    MaxBroken     \* bound: databases whose migration fails

ASSUME FleetAssumption ==
    /\ IsFiniteSet(Fleets)
    /\ Fleets \cap {"absent", "ready", "returned"} = {}
    /\ FleetRunners # {} /\ IsFiniteSet(FleetRunners)
    /\ MaxBroken \in Nat

VARIABLES
    fleetTenant,  \* tenant row: "ACTIVE" with a url, "NO_URL" or "PROVISIONING"
    schema,       \* schema of the tenant's database: "old", "new" or "broken"
    fleetList,    \* items: the tenants found, {} before the query
    fleetCursor,  \* items taken so far
    fleetRunner,  \* tenant each runner works on, "absent", "ready" to look, "returned"
    fleetFailures,\* failures
    fleetWorked,  \* how often worker was called per tenant
    fleetExit     \* "none" while the script runs, then "ok" or "failed"

fleetVars == <<fleetTenant, schema, fleetList, fleetCursor, fleetRunner, fleetFailures, fleetWorked, fleetExit>>

FleetInit ==
    /\ fleetTenant \in [Fleets -> {"ACTIVE", "NO_URL", "PROVISIONING"}]
    /\ schema = [t \in Fleets |-> "old"]
    /\ fleetList = {}
    /\ fleetCursor = 0
    /\ fleetRunner = [r \in FleetRunners |-> "absent"]
    /\ fleetFailures = {}
    /\ fleetWorked = [t \in Fleets |-> 0]
    /\ fleetExit = "none"

\* The pipeline finishes a tenant meanwhile, with the schema of its own image.
ActivateTenant(t) ==
    /\ fleetTenant[t] = "PROVISIONING"
    /\ fleetTenant' = [fleetTenant EXCEPT ![t] = "ACTIVE"]
    /\ UNCHANGED <<schema, fleetList, fleetCursor, fleetRunner, fleetFailures, fleetWorked, fleetExit>>

\* findMany and the filter on dbUrl; min(limit, length) runners start.
ListTenants ==
    /\ fleetExit = "none"
    /\ \A r \in FleetRunners : fleetRunner[r] = "absent"
    /\ LET found == {t \in Fleets : fleetTenant[t] = "ACTIVE"} IN
       \E busy \in SUBSET FleetRunners :
           /\ Cardinality(busy) = IF Cardinality(found) < Cardinality(FleetRunners)
                                  THEN Cardinality(found) ELSE Cardinality(FleetRunners)
           /\ fleetList' = {SetToSeq(found)}
           /\ fleetRunner' = [r \in FleetRunners |-> IF r \in busy THEN "ready" ELSE "returned"]
    /\ UNCHANGED <<fleetTenant, schema, fleetCursor, fleetFailures, fleetWorked, fleetExit>>

\* while (cursor < items.length) { index = cursor++ }
TakeItem(r) ==
    \E items \in fleetList :
        /\ fleetRunner[r] = "ready"
        /\ IF fleetCursor < Len(items)
           THEN /\ fleetCursor' = fleetCursor + 1
                /\ fleetRunner' = [fleetRunner EXCEPT ![r] = items[fleetCursor + 1]]
                /\ fleetWorked' = [fleetWorked EXCEPT ![items[fleetCursor + 1]] = @ + 1]
           ELSE fleetRunner' = [fleetRunner EXCEPT ![r] = "returned"] /\ UNCHANGED <<fleetCursor, fleetWorked>>
        /\ UNCHANGED <<fleetTenant, schema, fleetList, fleetFailures, fleetExit>>

\* migrateTenant: prisma migrate deploy on one database
MigrateTenant(r) ==
    /\ fleetRunner[r] \in Fleets
    /\ schema' = [schema EXCEPT ![fleetRunner[r]] = "new"]
    /\ fleetRunner' = [fleetRunner EXCEPT ![r] = "ready"]
    /\ UNCHANGED <<fleetTenant, fleetList, fleetCursor, fleetFailures, fleetWorked, fleetExit>>

\* As MigrationFails, but the runner does not go on.
MigrationFailsEnds(r) ==
    /\ fleetRunner[r] \in Fleets
    /\ Cardinality(fleetFailures) < MaxBroken
    /\ schema' = [schema EXCEPT ![fleetRunner[r]] = "broken"]
    /\ fleetFailures' = fleetFailures \cup {fleetRunner[r]}
    /\ fleetRunner' = [fleetRunner EXCEPT ![r] = "returned"]
    /\ UNCHANGED <<fleetTenant, fleetList, fleetCursor, fleetWorked, fleetExit>>

\* The url does not decrypt or the migration fails: collected, not thrown.
MigrationFails(r) ==
    /\ fleetRunner[r] \in Fleets
    /\ Cardinality(fleetFailures) < MaxBroken
    /\ schema' = [schema EXCEPT ![fleetRunner[r]] = "broken"]
    /\ fleetFailures' = fleetFailures \cup {fleetRunner[r]}
    /\ fleetRunner' = [fleetRunner EXCEPT ![r] = "ready"]
    /\ UNCHANGED <<fleetTenant, fleetList, fleetCursor, fleetWorked, fleetExit>>

\* Promise.all settles; the exit code.
ExitFleet ==
    /\ fleetExit = "none"
    /\ \A r \in FleetRunners : fleetRunner[r] = "returned"
    /\ fleetExit' = IF fleetFailures = {} THEN "ok" ELSE "failed"
    /\ UNCHANGED <<fleetTenant, schema, fleetList, fleetCursor, fleetRunner, fleetFailures, fleetWorked>>

FleetNext ==
    \/ \E t \in Fleets : ActivateTenant(t)
    \/ ListTenants \/ ExitFleet
    \/ \E r \in FleetRunners : TakeItem(r) \/ MigrateTenant(r) \/ MigrationFails(r)

FleetSpec == FleetInit /\ [][FleetNext]_fleetVars

-----------------------------------------------------------------------------
(* Properties *)

FleetTypeOK ==
    /\ fleetTenant \in [Fleets -> {"ACTIVE", "NO_URL", "PROVISIONING"}]
    /\ schema \in [Fleets -> {"old", "new", "broken"}]
    /\ fleetRunner \in [FleetRunners -> Fleets \cup {"absent", "ready", "returned"}]
    /\ fleetList \subseteq Seq(Fleets)
    /\ \A items, others \in fleetList : items = others
    /\ fleetCursor \in Nat
    /\ fleetWorked \in [Fleets -> Nat]
    /\ fleetFailures \subseteq Fleets
    /\ fleetExit \in {"none", "ok", "failed"}

(* What the script's exit says is true: no tenant of its list was migrated *)
(* twice or left out, each one has the new schema or is reported, and one  *)
(* broken database stops no other (runWithConcurrency: "a single bad       *)
(* tenant does not abort the whole fan-out").                              *)
ExitIsHonest ==
    fleetExit # "none" => \A items \in fleetList : \A t \in ToSet(items) :
        /\ fleetWorked[t] = 1
        /\ schema[t] = IF t \in fleetFailures THEN "broken" ELSE "new"
        /\ fleetExit = "ok" => schema[t] = "new"

\* A tenant of the list has been worked on, successfully or not.
Reported(t) == schema[t] = IF t \in fleetFailures THEN "broken" ELSE "new"

\* Each index of the list is handed out once, in order; what was handed out is
\* in the hands of one runner or reported.
ListWorked(items) ==
    /\ fleetCursor <= Len(items)
    /\ \A i \in 1..Len(items) :
        /\ fleetWorked[items[i]] = IF i <= fleetCursor THEN 1 ELSE 0
        /\ i <= fleetCursor => \/ Reported(items[i])
                               \/ \E r \in FleetRunners : fleetRunner[r] = items[i]
        /\ i > fleetCursor => items[i] \notin fleetFailures
    /\ \A r \in FleetRunners : fleetRunner[r] \in Fleets =>
        /\ \E i \in 1..fleetCursor : fleetRunner[r] = items[i]
        /\ fleetRunner[r] \notin fleetFailures

\* Why ExitIsHonest holds: the runners share one cursor, no two work on the same
\* tenant, and as long as items are left one of them has not returned.
FleetInv ==
    /\ \A items \in fleetList : IsInjective(items) /\ ListWorked(items)
    /\ \A r, q \in FleetRunners : fleetRunner[r] = fleetRunner[q] /\ fleetRunner[r] \in Fleets => r = q
    /\ \A items \in fleetList : \A r \in FleetRunners : fleetRunner[r] # "absent"
    /\ \A items \in fleetList : fleetCursor < Len(items) =>
        \E r \in FleetRunners : fleetRunner[r] # "returned"
    /\ fleetList = {} =>
        /\ \A r \in FleetRunners : fleetRunner[r] = "absent"
        /\ fleetCursor = 0 /\ fleetFailures = {} /\ fleetExit = "none"
        /\ \A t \in Fleets : fleetWorked[t] = 0
    /\ fleetExit # "none" => /\ \A r \in FleetRunners : fleetRunner[r] = "returned"
                             /\ fleetExit = "ok" <=> fleetFailures = {}
=============================================================================
