# HRobot: TLA+ models and proofs

HRobot is a multi-tenant HR and shift-planning product: a NestJS control plane
that provisions tenants, a NestJS tenant runtime that serves one company per
database, a CP-SAT optimizer, a Python agent that learns from managers'
corrections, and a Next.js web client. This directory holds TLA+ specifications
of the parts whose correctness depends on what happens *between* their awaited
calls, of the algorithms whose edge cases tests hardly reach, the TLC
configurations that check them, and TLAPS proofs for every size of the system.

## 1. Inventory

| Component (under `apps/`, `packages/`, ...) | State it keeps | Operations | What is hard | What makes it correct |
|---|---|---|---|---|
| control-plane `tenants` | `tenants`, `provisioning_jobs`, `outbox_events` | `signup` | one transaction for three rows | a tenant has exactly one job and one event |
| control-plane `outbox` | `published_at`, `next_attempt_at` | `publishPending`, `reEnqueueDue` (crons on every pod) | several pods; claim and emit are two steps | no job in two hands, none forgotten |
| control-plane `provisioning` | `job.step`, `attempt_count`; roles, databases, schemas, realms outside | consumer, `process`, five step handlers | redelivery under a running handler, stale reads, blind writes, crashes | ACTIVE only when everything is built; every signup ends |
| tenant-runtime `provisioning`, `outbox`, `tenants` | as the control plane, retries in memory | older copy of the pipeline | overlapping ticks, timers, steps that cannot be repeated | as above; a restart loses retries and nothing else |
| tenant-runtime `shift-swap` | `shift_swap_requests`, `shifts.employee_id`, audit log | create, submit, peer and manager decision, cancel | racing decisions; feasibility checked outside the transaction | the transition table, one approval, consent, scope, a workable schedule |
| tenant-runtime `ai-grafik` | `ai_proposals` and candidates, configuration | create replacement, consent, expiry, manager decision, ranking | late and double answers, unguarded reject, lazy expiry | nobody is assigned without consent; terminal states are final; only people who can be there are asked |
| tenant-runtime `leave` | `leave_requests` | create, decide, cancel, scan for replacements | the scan runs after the approval and may fail | one decision, maker-checker, vacated shifts get a proposal |
| tenant-runtime `grafik`, `grafik-optimizer` | `shifts`, demands, templates | CRUD, `solveGrafik`, CP-SAT | optimizer awaited between read and write | a solve keeps manual shifts and leave, and replaces only its own shifts |
| tenant-runtime `users` | roles in the database and in Keycloak | invite, assign, revoke, deactivate, reconcile | two stores, no common transaction | no privilege without its row; the last admin stays |
| `employees`, `dostepy`, `ustawienia`, `onboarding` | tenant tables | CRUD | encrypted columns, a tree edited concurrently, partial updates | one person per PESEL, a tree of units, a named company |
| `cost`, AI configuration | rates, caps | budget report, upserts of a row whose key is NULL | three reads that join | a verdict never rests on a missing rate |
| `strategic-brain` | snapshots, recommendations, configuration | nightly pass, configuration, acknowledge | several instances, repeated windows | one line of recommendations; rows claim no more than was measured |
| request context, RBAC, audit | tenant cache in Redis, audit log | interceptor chain of every route | the cache is written after the row was read | a suspended tenant loses access in bounded time |
| `packages/db` client cache | LRU cache, in-flight map, leases, deferred disconnects | `getClient`, `withClient`, `evict`, `disconnectAll` | eviction between await and lease | no borrowed client is disconnected, none forgotten |
| `packages/db` migrations | per-tenant result list | `runWithConcurrency`, `migrateTenant` | worker pool | every tenant exactly once, failures isolated, an honest exit code |
| `agent-service` | policy, versions, feedback log, artefacts | propose, feedback, retrain, reset | threads, two commits, replay | versions rise, no correction is lost, proposals keep the hard rules |
| web client, server side | two cookies, cached service token | login, logout, proxy with renewal | expired tokens in several requests at a time | a person's call is never sent as somebody else |
| web client, screens | rows shown, busy buttons, banner | refresh, poll, click | refreshes overlap, calls fail half-way | buttons fit the backend's tables; nobody is left untold |
| web client, forms | what is chosen, shown and typed, requests under way | choose, edit, save, solve | answers arrive when something else is chosen or typed | shown, said, closed and saved belong together |

The components meet in four places. The control-plane database and one
RabbitMQ queue connect signup, relays, consumer and steps. The tenant database
connects swaps, planner, leave and AI proposals, which all write or rely on
`shifts.employee_id`. Keycloak and Postgres are written by the provisioning
steps and by `users`. The web client reaches everything through the proxy and
the request context.

`PROJECT.json` lists every component with its status, and the hazards with the
line where each one bites.

## 2. Modules

| Module | Models | Used by |
|---|---|---|
| `Provisioning` | signup, both relays, consumer, service and the five steps | `MCProvisioning`, `ProvisioningProofs` |
| `SwapMachine` | abstract: the transition table of `swap-state-machine.ts`, one audit row per approval | instanced by `ShiftSwap` |
| `ShiftSwap` | service, controller and feasibility validator of shift swaps, with planner and leave as environment | `MCShiftSwap`, `ShiftSwapProofs` |
| `ProposalMachine` | abstract: the transition table of `packages/shared/src/ai-grafik.ts`, one audit row per approval | instanced by `AiProposal` (`WITH` the stage of each row and the count of commits) |
| `Tenant` | employees, units, managers and their scopes | `AiProposal`, `Leave` |
| `AiProposal` | replacement proposals: creation, consent, expiry, decision | `Leave` |
| `Leave` | leave requests and the scan that follows an approval | `Replacements` |
| `Replacements` | the composition of leave, proposals and a planner over the same shifts, and its properties | `MCReplacements`, `ReplacementsProofs` |
| `Users` | users and roles in two stores | `MCServices`, `ServicesProofs` |
| `Organisation` | company row, units, employees, grants, checklist | `MCServices`, `TenantDataProofs` |
| `Optimizer` | the hard rules and the answers CP-SAT may give | `Grafik`, `AgentPolicy` |
| `Grafik` | shifts, demands, templates and the solve | `MCServices`, `TenantDataProofs` |
| `Scoring` | scores, confidence, slopes and signals, in integers | `StrategicBrain` |
| `StrategicBrain` | the nightly pass, its configuration, its recommendations | `MCServices`, `TenantDataProofs` |
| `Costs` | rates, caps and the budget report | `MCServices`, `QuestionsProofs` |
| `ClientCache`, `Fleet` | the tenant clients of a process; the migration of all tenants | `MCServices`, `ServicesProofs` |
| `Requests` | token, roles, tenant context, handler, audit | `MCServices`, `ServicesProofs` |
| `RuntimePipeline` | the tenant runtime's copy of provisioning | `MCServices`, `EdgeProofs` |
| `Agent` | threads over the agent's store | `MCServices`, `ServicesProofs` |
| `WebSession` | the proxy and its cookies | `MCServices`, `EdgeProofs` |
| `Screens` | the screens that act on rows | `MCServices`, `EdgeProofs` |
| `Forms` | the screens with a form or a choice | `MCServices`, `FormsProofs` |
| `Ranking`, `AgentPolicy`, `Scopes` | pure algorithms: candidates, the learning scheduler, row scopes | `Questions` |
| `Questions` | puts one question to a pure algorithm and compares the answer with a reference | `MCServices`, `QuestionsProofs` |
| `MC*` | small instances for TLC | the `.cfg` files |
| `*Proofs` | theorems and their proofs | `tlapm` |

One convention holds everywhere: an action is what runs between two awaits (or
between two commits of another process), so others may act in between; a
`$transaction` is one action; the locals of a call are one record per call slot
with its place in `at`. A *variant*, marked as such and never used by a
specification, stands next to the definition it changes; section 3 says what
variants are for.

### Provisioning

The variables are the columns of the control-plane tables, what the steps have
built elsewhere (role password, database, schema, root units, Keycloak
objects), the queue as a count of ready messages per job, and for each pod the
local variables of its running delivery and of its two relay loops. A pod holds
one delivery at a time: a pod with several interleaves exactly as several pods
do.

| Code | Actions |
|---|---|
| `TenantsService.signup` | `Signup` |
| `OutboxRelayService.publishPending` | `ClaimOutbox`, `EmitOutbox`, `ReleaseOutbox`, `AbortOutbox` |
| `RetryRelayService.reEnqueueDue` | `ClaimDue`, `EmitDue`, `Rearm`, `AbortDue` |
| `ProvisioningConsumer.handle` | `Deliver`, `Ack` |
| `ProvisioningService.process` | `ReadJob`, `ReadAfter`, `EmitNext`, `HandlerFails`, `Catch`, `ProcessThrows` |
| `CreateDbStep` | `PersistUrl`, `CheckRole`, `SetRole`, `CheckDb`, `CreateDb` |
| `RunMigrationsStep`, `SeedStep` | `LoadUrl`, `Migrate`, `CreateRoot` |
| `KeycloakSetupStep` | `SetupKeycloak`, `RecordRealm` |
| `DoneStep` | `Activate` |
| the update of `job.step` at the end of each step | `Advance` |
| RabbitMQ and the platform (external) | `ConnectionLost`, `Crash`, `EmitFails` |

Abstractions: a url is the password in it; time is left out, so an armed retry
may be due at any moment; the realm roles are one object of `KcObjects`; the
token, log messages and the best-effort e-mail are left out. A password is
fresh (24 random bytes), chosen as an unused element of a small set, and the
set has one more element than deliveries and rows can hold.

### ShiftSwap

The variables are the columns of `shift_swap_requests`, the holder of each
shift, the approved leave days, the number of audit rows, and per HTTP call its
locals. The awaited calls of an endpoint are its actions: `Authorise` (the
`assert...` method), `Load`, `CheckTarget` and `CheckRequester` (one
single-employee problem each), then `Update` (`applyTransition`) or `Commit`
(the approving transaction); `create` is `CreateReadShift`, `CreateReadTarget`,
`CreateInsert`. Any await may reject (`CallFails`). `UpdateShift` and
`ApproveLeave` are what the planner and the leave component write meanwhile.

Abstractions: the optimizer is its hard rules on one employee (qualification,
no conflict of two shifts, no leave day); a conflict is a pair of shifts less
than eleven hours apart; all shifts are in one planning week and its
neighbouring days, which is the window the validator loads; the two reads of a
check (shifts, leave) are one action. A manager's scope is the set of employees
in the units he manages; HR and administrators have everybody.

### AiProposal, Leave, Replacements

A proposal row is a record: stage, shift, vacated holder, candidates, the
consent of each, the active candidate, whether the deadline has passed, the
decider. Each endpoint loads a copy of the row, checks the copy and writes
later. Creation is rank, insert and ask; an answer is `Accept` or `Decline` with
`PickNext`; expiry is lazy, in the read of a row whose deadline has passed;
the manager's decision is `DecisionLoad`, then `Reject` or `Revet` and `Commit`.
`Leave` adds filing, the guarded flip of `decide` and `cancel`, and the scan,
which goes through the vacated shifts one after the other in the approving call
and swallows what fails. `Replacements` adds a planner who moves shifts, and
states the properties. The ghost set `agreed` records who pressed accept.
Abstractions: the ranking is any order `Rank` of the feasible candidates (its
computation is in `Ranking`); the deadline is an event, `DeadlinePasses`.

### The services

* `Users`: each operation is one action per access to Keycloak or to the
  tables; `Guard` is the SERIALIZABLE transaction that counts administrators;
  any call may break off between two writes. `claims` are the roles in the
  token a caller holds, which lag behind Keycloak.
* `Organisation`: the unit tree with its walk, the singleton company row,
  employees with PESEL as a ciphertext (value and iv) and its hash, grants, the
  checklist with its read and write. Encryption is a tag: two ciphertexts of one
  value differ in the iv.
* `Grafik`: a slot is location, day, hours and role. A solve reads demands,
  manual shifts, leave, calls the optimizer (any solution of the rules in
  `Optimizer`, or none), finds the stale shifts and replaces them.
* `StrategicBrain`, `Scoring`: a pass keeps its writes in a draft until it
  commits. Scores are integers in basis points with the rounding of the code.
  The unit of time is one window.
* `Costs`: a report makes three reads; the default cap has a NULL key, so two
  first writes both insert unless the code catches it.
* `ClientCache`: one action per await of `getClient` and `withClient`; with
  `cacheGap` the callbacks of others run between the two.
* `Fleet`: list, runners, failures, exit code, tenants that become active
  meanwhile. `Requests`: time in ticks, a read of the row that is `lag` ticks
  old when it is written to the cache.
* `RuntimePipeline`: as `Provisioning`, with the differences of the older code:
  emit before mark, timers, names from the first eight digits, unread answers.
* `Agent`: every commit of SQLite is an action; `serviceLock` is held by
  feedback and retrain. What a policy has learned is a set of feedback rows.
* `WebSession`: a token is its number of issue, with an age; a request carries
  the cookies of the moment it was sent, and its `Set-Cookie` arrives with the
  answer. `Screens`: six screens of one shape, with the buttons each offers and
  the moves the backend's tables allow. The backend refuses what its table or
  the caller's rights forbid (`Accepted`), a deactivation while the roster
  changes (`Clashed`), a consent past its deadline (`"LAPSED"`, escalated by
  whoever reads it next: `Escalated`), and any approval of a swap or a proposal
  (`VettedAnew`): the optimizer's verdict follows from shifts that these screens
  do not list, so it is left open. The caller's rights do not change meanwhile.
* `Forms`: six screens of another shape: an employee's card, the tree of units,
  the company, the AI policy, the schedule with its solve and its editor, the
  costs with the form of a rate. A request carries what the screen knew when it
  was sent, and its answer is applied to whatever is shown by then. A solve is
  of a unit and a week (`generate` sends both); the filter of units asks for
  nothing and leaves its result (`ChooseUnit`). The history variable
  `frmCrossed` says whether somebody chose or typed under an open request, or
  turned the filter while a solve was under way or shown. The person has the
  role that edits; what a form refuses by itself, but a cycle of units, and the
  first read of the rates are left out.
* `Questions`: `Init` chooses a question, one action answers it. `Ranking` is
  compared with a declarative reference (`RankingSound`), the agent's greedy
  schedule and its validator with the solver's constraints, list scopes with
  scopes by id and with the guards of the actions. A correction of a slot is
  given before and after learning: `online`, when the edit is applied, and
  `batch`, after the next retrain has started over from the stored rows. A
  stored MOVE rewards who was moved in and does not penalise who was moved out,
  so `CorrectionIsLearned` claims a move of the batch only for slots of one
  place: with several, the retrained policy may keep the latter and drop a
  colleague.

## 3. Runs

TLC finishes each run within five minutes with two workers. Deadlock is not
checked: every one of these systems is at rest when nobody signs up, calls or
clicks, and bounds on the number of calls end each behaviour.

| Run | Checks | Bounds and why they are enough |
|---|---|---|
| `provisioning_faults` | `TypeOK`, `ActiveIsBuilt`, `JobDriven` | one tenant, two pods, the first, the seed and the last step may fail up to the third attempt, one fault of: refused emit, lost confirmation, lost channel, dead handler. Two pods and one duplicate give every race of two handlers of one job |
| `provisioning_once` | `OneDriver`, `UrlMatchesRole`, `StepsOnlyAdvance` | two losses (refused emit, database down, a pod dead in a relay loop), nothing delivered twice. A duplicate breaks what the code takes for granted here, as the next but one run shows |
| `provisioning_live` | `Settles` | under `FairSpec`; the seed step may fail, one handler dies or loses its channel, one Keycloak object |
| `provisioning_password` | `NoPasswordDrift` is violated | one redelivery at CREATE_DB |
| `swap_races` | `TypeOK`, `SwapInv`, `ImplementsMachine` | one request, two calls at a time, two managers (one of them of one party only), planner and leave writing: every race of two calls on a row |
| `swap_sequential` | `ScheduleWorkable` | one call at a time, two requests over three shifts with a conflicting pair, a missing qualification and a leave day |
| `swap_concurrent` | `ScheduleWorkable` is violated | two calls at a time, swaps of `s1` and of `s3` against `s2` only (`Bodies`), which is enough for the counterexample |
| `replacement_races` | `TypeOK`, `ConsentSound`, `ScanProposes`, `ImplementsMachine`, `TakesFromVacated`, `LeaveDecidedOnce` | one leave over two shifts of `e1`, two candidates for the first and none for the second (so that one scan both succeeds and escalates), two proposals, two calls at a time, a planner; managers do not decide one proposal at the same time (`Coordinated`) |
| `replacement_reject` | `TerminalIsFinal` is violated | one proposal, two decisions at a time |
| `services` | the 23 properties below | fourteen desks, see below |
| `users_kc_only` | `NeverKeycloakOnly` is violated | the users desk with overlapping calls |
| `onboarding_merge` | `ChecklistMerged` is violated | the organisation desk |

`swap_sequential` and `swap_concurrent` belong together: the validator does what
its comment says as long as approvals do not overlap, and no longer when they
do. So do `replacement_races` and `replacement_reject`.

**The services run.** The components of `MCServices` write different rows and
share no step, so every interleaving of two of them is equivalent to one that
runs them one after the other; a behaviour is therefore explored for one
component, the *desk*, with the others at rest, and the run is the sum of its
desks instead of their product. Each desk has two call slots, which is enough
for every race of two calls; the two slots are interchangeable
(`SYMMETRY CallSymmetry`).

| Desk | Properties | Regimes and bounds |
|---|---|---|
| all | `TypeOK` | |
| users | `NoPrivilegeLeft`, `LastAdminStays` | three logins, two of them administrators, one role in two units; three calls, which either come one at a time with promotions and reconcile, or overlap without them and with one unit |
| organisation | `CompanyKept` (`TreeUnlessOverlap`, `CompanyNamed`, `OnePersonPerPesel`) | three units, two employees, two PESELs, three calls, one at a time or overlapping |
| grafik | `SolvedWorkable`, `ReplacesOwnShifts` | three slots (day, over midnight at another location, next day), two workers in two units, three calls; edits during a solve only in the overlapping regime |
| brain | `LinearHistory`, `RowsHonest` (`PenalisedOnce`, `RiskIsKnown`) | two colleagues, one of them new; two passes over two windows, or one pass while the configuration changes |
| costs | `BudgetHonest` | two grades with and without rates in two currencies, two caps and none, four requests |
| cache | `ClientsKept` (`BorrowedStaysOpen`, `NoPoolLeaked`) | two tenants, room for one client, two borrowers, four connects; with and without the gap before the lease |
| fleet | `ExitIsHonest` | three tenants, two runners, up to two broken databases, tenants activated meanwhile |
| requests | `SuspendedLosesAccess` | a tenant that opens and is suspended later, two visitors, a TTL of three ticks, a read up to one tick old |
| agent | `LearningSound` (`HistorySound`, `NothingUnlearned`) | one tenant, two threads, three calls, one crash; overlapping calls on a warm policy, or any calls one at a time |
| pipeline | `TenantsBuilt` (`OwnDatabase`, `ActiveIsBuilt`), `OnlyRetriesAreLost` | two tenants whose ids begin alike; or one tenant and two messages in work; or one and two ticks; one fault each |
| web | `OwnFreshToken` (`OwnIdentity`, `RetryIsFresh`), `SessionFollowsLogin` | one request at a time over four ticks with refresh tokens that are good once; overlapping requests of two persons; one at a time with a failure; a client without refresh tokens; three or four visits and three tokens each |
| screens | `RefusedOnlyWhenStale`, `EndsTold` | six screens, the relations a person may have to a row (of a swap one at a time), two calls and a poll; a move of somebody else (or a deadline that passes) or a failed request; the verdict on an approval is open |
| forms | `FormsAgree` (`ShowsTheChosen`, `SaidSaved`, `ClosesItsOwn`, `UntouchedKept`, `ParentsAccepted`) | six screens, three requests at a time, two to four clicks; of the schedule two units (all, and one) in two weeks; a move of somebody else or a lost request |
| questions | `RankingIsSound`, `AgentKeepsRules` (`ProposalKeepsRules`, `ValidatorAgrees`, `EpisodeBooksOnce`, `CorrectionIsLearned`), `ScopesAgree` (`ReadScopesAgree`, `ActorsSeeTheirWork`) | every pair of candidates near, far or without address, with shifts that touch, cross midnight or come too soon; every two or three windows of five, for episodes with one place each, for corrections with one place and two people or with two places and three; every caller over three employees in two units |

A *regime* is a choice in `Init` that narrows what the environment does, named
in the state, so that a property can say under which regime it holds. Where the
code does not promise a property for calls that overlap, the property names the
regime, and the overlapping one is still explored for the other properties.

Each property of a passing run has a mutant: a variant next to the definition
it changes (`CatchForgets` next to `Catch`), with which TLC finds the property
violated.

**Fairness.** `FairSpec` of `Provisioning` assumes weak fairness of each pod's
relays and handler (crons tick every few seconds, awaited calls settle or
reject: the database, Keycloak and `prisma migrate deploy` calls all end or time
out) and of the delivery of a waiting message. No fault, no failure of a step
and no signup has to happen. Liveness is checked with a fault budget, so a
behaviour cannot crash forever. The other components promise nothing that must
happen without a person asking for it: a proposal nobody answers or reads stays,
because expiry is lazy, and nothing retries a refused request.

## 4. Findings and divergences

Five runs expect a violation; each states what a comment or test in the code
says, quoted under `findings` in `PROJECT.json`: `NoPasswordDrift`,
`ScheduleWorkable` with overlapping approvals, `TerminalIsFinal`,
`NeverKeycloakOnly`, `ChecklistMerged`.

The following were met while modelling. They are in the models, and the
properties above are stated so that they do not claim otherwise.

*Provisioning.* A pod that dies, or loses the database, between the claim of an
event or a due retry and its emit loses it: `published_at` and
`next_attempt_at` are written first. The retry query skips jobs at DONE, so a
failing `DoneStep` is never retried. A repeated seed creates a second root unit.
Two failing deliveries that overlap count as one attempt.

*The tenant runtime's copy.* A retry timer is lost with the process. A second
attempt of CREATE USER or CREATE DATABASE always fails, so a failure after it
ends the job. The second of two tenants whose ids share eight digits fails. The
answers of Keycloak are not looked at, and no realm roles are created. A stale
handler may advance a job that has been marked FAILED.

*Swaps.* A leave approved between check and transaction is not seen, so a swap
can land on it. The transaction does not check who holds the shifts, so one that
was moved meanwhile is taken from somebody outside the manager's scope.

*Proposals and leave.* `pickNextFeasibleCandidate` does not ask whether the next
candidate has a login. A proposal created by hand does not pass the travel
policy on. After a decline the deadline is that of the first candidate. A scan
proposes a replacement for whoever holds the shift by then. One `try` stands
around the whole scan (`leave.service.ts:256-265`), so one shift that fails
leaves those after it without a proposal, and nothing scans again;
`ScanProposes` speaks only of scans that ended. The arrival gap
looks at shifts of the same ISO week only. A manager who is asked to take a
shift of another unit can open the proposal but finds it in no list; an employee
finds his own shift in the list and cannot open it.

*Users.* `isAdmin` is read before the guarded transaction: an overlapping
promotion makes the guard skip the check. A repair of reconcile deletes
administrator rows without the guard. The count of sibling rows leaves out rows
whose unit is NULL. Of two invitations of one address the loser disables the
winner's login, and a failed invitation leaves a disabled login behind.

*Organisation, grafik, costs.* Two overlapping moves can close a cycle of units:
each transaction walks the chain before the other has written
(`ustawienia.service.ts:192-214`), and no lock keeps them apart. Two saves of
the checklist lose one of them. Edits during a solve are not seen by it; a solve
with a location filter does not know of manual shifts elsewhere; two overlapping
solves insert the week twice; manual shifts over a demand may overstaff it. A
shift that ends when it starts is 24 hours to the optimizer and 0 to the cost
report.

*Client cache, fleet, requests.* A client evicted between `getClient` and the
lease can be closed under its borrower; the interceptor uses `getClient` without
a lease; `disconnectAll` closes borrowed clients. Tenants activated after the
list was read are not migrated. ACTIVE, and PROVISIONING too, may be up to a TTL
and one read out of date. The audit row is written after the answer and lost
with the process.

*Strategic brain.* A configuration changed in the middle of a pass mixes two
configurations in one window. Quality can be negative. A surplus of one position
hides a shortage of another. An acknowledge does not look at what it
acknowledges.

*Agent.* Propose, explain, policy_info and reset run outside the lock: two cold
starts record version 1 twice, and feedback in progress undoes a reset. The
retrain of the command line is another process and takes no lock. Policy and
version are two commits; a crash may leave a correction unlearned until the next
retrain (that all are learned is claimed only without a crash). The batch replay
learns one side of a SWAP. A correction need not bring the schedule closer to
the manager's in one step. `env._overlaps` does not see a window over midnight.

*Web session.* A `Set-Cookie` that arrives after a logout signs the person in
again, and a late clearing deletes the cookies of a new login. Two requests that
rotate at the same time use one refresh token twice. A backend that cannot be
reached at the second attempt loses the rotated cookies. A request without
cookies is sent with the service account's token. A login whose answer has no
refresh token keeps the old refresh cookie.

*Screens.* An approval may be refused although nothing has changed: `create`
never asks whether a swap is feasible, `approve` throws `SwapNotFeasibleError`
(`shift-swap.service.ts:299-308`) and the row stays PENDING_MANAGER with its
button, as the screen says it may (`swap-workspace.tsx:241`); so does the
approval of a proposal whose candidate is no longer free. The users screen's
refresh after a failed call clears the error banner (`EndsTold` leaves it out).
The swaps screen keeps one busy key and enables a button again in mid-flight; a
swap's target gets the requester's buttons and never accept or reject. The
decisions on one's own leave and on a swap the manager does not manage are
offered although they are always refused (`Misoffered`; `wnioski.ts` says
otherwise). Refreshes carry no sequence number, the three lists of a screen are
of three moments, and a background poll clears the banner.

*Forms.* The comment of the schedule screen that a solve's result always belongs
to the week in view ("goWeek clears it") is not true of the button "Dziś", nor
of a week turned while the solve runs. The filter of units, which a solve is
sent with (`grafik-screen.tsx:181-184`), clears nothing (`:240-253`): a solve of
one unit stays over another's rows, so `ShowsTheChosen` claims the unit of a
solve only while the filter has not been turned since it was sent. A late answer
of the cost panel for another unit or week stays, the arrival of the roster
crosses the first load, and after a rate is saved the costs of the old unit and
week are loaded. The shift editor can be closed during a save, and the answer
then closes the next one; so does opening another unit's row during a save. A
save of a unit sends all three fields and undoes what somebody else has changed
meanwhile; a save of an employee sends only what differs. The AI policy says
"saved" over keys typed during the save, the company's form replaces them, the
employee's drops them.

## 5. Proofs

The theorems hold for every value of the constants: any number of tenants, pods,
employees, shifts, requests, logins, clients and concurrent calls. Each proofs
module extends the modules it is about and assumes only what they assume of
their constants. Every property of the passing runs is the statement of a
theorem but the two named at the end of this section. Where a theorem needs
more, its hypothesis is named and said below. The inductive invariants stand at
the end of the component's module; TLC found each of them to hold on the
instances of section 3 before it was proved.

**`ProvisioningProofs`** (`Provisioning`)

* `TypeCorrect`, `PipelineCorrect`, `ActiveTenantsAreBuilt`: under any faults,
  `TypeOK`, `PipelineInv`, `ActiveIsBuilt`. Handlers overwrite `job.step`
  blindly, from reads that may be arbitrarily old, so the argument cannot be
  about the order of the steps. It is: a step is only ever written by a handler
  that itself saw or built everything the step stands for (`DeliveryEarned`),
  and nothing built is ever removed (`Grows`).
* `HandsCorrect`, `OneDriverAtATime`, `UrlIsTheRoles`, `StepsAdvance`: under
  `NothingTwice` (emits may be refused and the database may go away, but no
  message and no pod is lost), `HandInv`, `OneDriver`, `UrlMatchesRole`,
  `StepsOnlyAdvance`. A job is in at most one hand: its event, a due retry, a
  claim, a message or a handler. So nobody writes the rows a handler has read.
  A pod that dies in a relay loop is excluded: with two tenants the loop may
  have put its second message already and put it again, which is one message
  too many; the run `provisioning_once` admits it with one tenant.
* `JobsAreCarried`, `NoJobForgotten`: under `LosesNothing` (no claim is lost;
  channels may be lost, or handlers may die, but not both), `CarryInv` and
  `JobDriven`. The exclusion is needed: a handler without its channel can write
  the step back to what another has read, and die owning nothing; the other
  finds the step where it read it and acknowledges. Two faults do that, so the
  run `provisioning_faults`, which admits both kinds, admits one fault. Theorem
  and run complement each other here.

**`ShiftSwapProofs`** (`ShiftSwap`)

* `SwapTypeCorrect`, `SwapCorrect`, `ApprovedOnce`, `ConsentComesFirst`:
  `TypeOK` and `SwapInv`, proved together, because a create inserts what its
  call has collected. The part about calls (`CallEarned`) survives the steps of
  others because the parties of a row never change; the part about rows
  survives a stale call because every write is guarded by the state loaded.
* `Refinement`: `Spec => ImplementsMachine`. Each write of a call is one step of
  `SwapMachine`, everything else a stutter.
* `SwapsStayWorkable`: `ScheduleWorkable` under `Sequential`, one call at a time
  and neither planner nor leave in between. The validator asks whether a party
  could work what it would hold if the shifts changed hands now; until the
  transaction nobody else writes, so each party gets what was checked for it,
  and everybody else can only lose shifts (`FeasibilityInv`). Without the
  hypothesis the property fails: `swap_concurrent`.

**`ReplacementsProofs`** (`AiProposal`, `Leave`, `Replacements`)

* `Invariant`, with `TypeCorrect`, `Consents` (`ConsentSound`), `ScansPropose`
  (`ScanProposes`), `ApprovalsTake` (`TakesFromVacated`), `DecidedOnce`
  (`LeaveDecidedOnce`): from `TypeOK /\ ReplacementInv`. A call works on a copy
  of its row that may be stale; what stays true of the row is that consents only
  accumulate (`RowsOnward`) and that the approving transaction reads the shift
  it writes. The first candidate that has not answered exists because the
  ranking is a well-founded order.
* `Refinement`: `Spec => ImplementsMachine` if managers are `Coordinated`. For
  managers who are not, `replacement_reject` shows the counterexample.

**`TenantDataProofs`** (`Organisation`, `StrategicBrain`, `Grafik`)

* `OrganisationCorrect`, `CompanyStaysWhole`: `OrgInv`, `CompanyKept`. Of a walk
  to the root under creates and moves that break off, the invariant says what it
  has found out so far in terms of sets of units closed under parents
  (`WalkKnows`), so that no induction over paths is needed.
* `BrainCorrect`, `HistoryIsLinear`, `RowsPenalisedOnce`: `HistoryInv`,
  `DraftInv`, `LinearHistory`, `PenalisedOnce`. The pass under the advisory lock
  is alone, so the heads it has read are the heads it replaces (`Continues`).
* `RowsAreHonest`: `RowsHonest`, which adds to the above that a risk is signalled
  only of people of whom enough windows count (`RiskIsKnown`). A pass writes the
  newest window under the lock and what a row was computed from never changes
  afterwards; the points of a trend are the windows that count, and no stored
  configuration asks for fewer than `FewestWindows` (`minValidWindows` has
  `@IsInt @Min(1)`), so the trend that a row carries was drawn through at least
  that many windows, whichever configuration was in force. The run
  hardly reaches rows with a risk at its bounds; the theorem has no bounds.
* `BrainTypes`: `BrainTypeOK`, by `MeasuredInv`: `validateWeightSum` keeps the
  weights of a config whole or touches none of them, and a product of two shares
  and the penalties is a share. `BrainAssumption` says of the inputs what the
  code does: default weights that sum to one, and natural numbers of days
  (`confidenceMinDays` has `@IsInt @Min(0)`).
* `GrafikCorrect`, `SolveReplacesItsOwn`, `SolvesAreWorkable`: `GrafikInv`,
  `ReplacesOwnShifts`, `SolvedWorkable`, the last two with calls one at a time.
  A solve is then alone, and what it has read of leave, shifts and demands is
  still so when it writes (`StillSo`). What the optimizer answers is any feasible
  assignment (`SolveResults`); a manual shift enters it as a demand that only its
  holder qualifies for, so the holder is assigned to it and the rest between
  assignments extends to the shifts people have placed. `GrafikAssumption` says
  that no demand, role or qualification is named like a pin
  (`__pinned__<shiftId>`), which the code takes for granted too.

**`ServicesProofs`** (`Users`, `Fleet`, `ClientCache`, `Requests`, `Agent`)

* `UsersInvariant`, `NoRoleWithoutRow`, `AdminRemains`: `UsersInv`,
  `NoPrivilegeLeft`, `LastAdminStays`. Two arguments stand side by side. While
  calls come one at a time, one that breaks off is covered by rows that are
  removed after the roles or written before them. Where they overlap, the
  serializable transaction that counts administrators is enough for the last
  one to stay, as long as nobody becomes an administrator meanwhile and no
  reconcile repairs (`Calm`).
* `FleetCorrect`, `FleetReportIsTrue`: `FleetInv`, `ExitIsHonest`, for any
  number of runners and tenants and any set of broken databases.
* `CacheCorrect`, `ClientsStayKept`: `CacheInv`, `ClientsKept`, for any capacity.
  Every way out of the LRU list either closes a client or defers it to the last
  lease (`SocketsAccounted`); without the gap before the lease a granted client
  is still in the list (`LeasesHonoured`).
* `RequestsInvariant`, `AccessEnds`: `RequestsInv`, `SuspendedLosesAccess`. What
  is left of a cached ACTIVE and the time since the suspension add up to at most
  the TTL and one read; a request adds one read more, which makes `TooLong`.
* `LearningKept`, `LearningIsSound`: `AgentInv`, `LearningSound`, in the regimes
  for which the property is stated (a warm policy with neither reset nor the
  command line, or one call at a time), with crashes between any two commits. A
  feedback or a retrain past the lock is the only writer of policies, rows and
  versions (`OneWriter`), so what it has read stays as it was; a propose beside
  it only adds proposals. A policy is ahead of its newest row while its call still
  owes it the row (`Owes`), and no row is newer than the policy (`Newer`), so a
  crash at that point may leave a gap in the history but no repeated version. With
  overlapping resets or cold starts (`agentRegime` "any") the property does not
  hold: section 4.
* `AgentTyped`: `AgentTypeOK` in every regime, "any" included, by `AgentTypeInv`.
  The version of the next row is above all others of the tenant because a set of
  finitely many versions has a largest one (`FiniteMax`).

**`EdgeProofs`** (`WebSession`, `RuntimePipeline`, `Screens`)

* `WebCorrect`, `ProxySendsOwnToken`: `WebInv`, `OwnFreshToken`. Tokens of one
  Keycloak session are one person's, cookies that are kept together are of one
  session, and a request keeps to the source its bearer came from.
* `SessionCorrect`, `SessionStays`: `SessionInv`, `SessionFollowsLogin`, with one
  request at a time and nobody failing (`Undisturbed`), for any number of logins,
  logouts, expiries and rotations. Exactly one pair of cookies stands for the
  login at any moment (`StandFor`): the browser's, until a rotation makes them
  worthless, and then the pair the request brings; a pair of an older rotation
  would be refused although the session goes on, and the person signed out.
* `PipelineCorrect`, `EveryTenantBuilt`: `RtInv`, `TenantsBuilt`. CREATE USER
  succeeds once for a name, so a password tells whose database it opens, although
  names collide and handlers overlap; a step stands for what was built before it
  (`Reached`).
* `RelayCorrect`, `NothingButRetriesLost`: `RelayInv`, `OnlyRetriesAreLost`. While
  a job has not failed, a handler lets go of it after it has sent the next
  message, or because the step it worked on has been written again; who wrote
  it has a message to send, or has sent it, so a message or another handler is
  left (`Driven`). A stale handler that sets a job back has a message to send too.
* `ScreensCorrect`, `RefusedForStaleness`, `EndsAreTold`: `ScreensInv`,
  `RefusedOnlyWhenStale`, `EndsTold`, for any rows, timers, moves of others and
  lost requests. Every move of a backend's table leads on (`Progress`; a user may
  also stay where it is), so a row read after a call's move is ahead of the row
  that was clicked and cannot be mistaken for it (`Ahead`), whatever polls land
  in between; and what a screen offers of a row as the backend has it is a row of
  the backend's table, but for the buttons of `Misoffered`. A refusal of such a
  row is then a verdict on an approval (`VettedAnew`), or the row, or for a user
  some row of the roster, has changed.

**`FormsProofs`** (`Forms`)

* `FormsCorrect`, `FormsHoldTogether`: the types with `FormsInv`, and `FormsAgree`.
  `FormsInv` says, screen by screen, what may be awaited and how it fits what is
  shown. On the employee's card one request is live, so an answer finds the card
  it was sent for, even when somebody clicks on meanwhile. A tree of units: a
  save under way fits the tree that is shown; the walk of `wouldCreateCycle`
  climbs at most as many parents as there are rows, and if it does not meet the
  unit among them then no path does, by the pigeonhole principle
  (`AcceptedParent`); a unit just created is a leaf (`NewLeaf`), and a leaf that
  moves closes no cycle. So a parent that the backend refuses means that the
  tree has changed. On a page with one form "saved" is not said before the save
  that it is about has ended. For the schedule and the costs the invariant is
  conditional on `frmCrossed`, as the properties are: the comment that the code
  relies on is not true without it (section 4). `FormsAssumption`: the rows are
  finite and none is named like a place that is not a row; the company and the
  AI policy have their row from the first, because the backend answers a default
  when none is stored (`ustawienia.service.ts:79-91`).

**`QuestionsProofs`** (`Costs`, `Ranking`, `AgentPolicy`, `Scopes`, `Questions`)

* `CostsCorrect`, `BudgetIsHonest`: the types with `CostInv`, and `BudgetHonest`:
  a verdict that was given with rates missing stays the verdict whatever those
  rates turn out to be. `MapThenSumSet` adds the members up in the order in which
  `CHOOSE` takes them. Instead of an induction over the rows, a least subset at
  which two orders differ is shown not to exist; so the order is of no
  importance, and a part sums up to no more than the whole. Hours, rates and caps
  are not negative (`@Min(0)` on `hourlyRate` and `budgetWeeklyCap`).
* `ScopesFitTogether`, `RankingsAreSound`, `AgentIsRight`: `ScopesAgree`,
  `RankingIsSound` and `AgentKeepsRules`, for any tenant, pool and planning
  problem of the shape of `QuestionsAssumption` (finite sets, whole hours of a
  day, ids other than "not given", an order that names every demand once; the
  proofs do not need it to be the order by date). The invariant, `QuestionsInv`,
  is that an answer is what the algorithm computes; the rest is about the
  algorithms.
  A ranking is the sequence of a finite set in a strict order: it exists because
  every member has a rank, the number of those before it (`SortedExists`), and
  it leaves nobody out (`SortedCovers`).
  A fold over a sequence is the chain of its intermediate results, along which a
  set of good indices is everything if it holds 0 and passes each step
  (`FoldExists`, `Onwards`). With it, a greedy proposal is characterised without
  the loop (`Shaped`): each demand has the best crew that was `Available` for it
  when its turn came (`Picked`), and exactly one crew is that (`PickedOnce`).
  That the solver's rules hold, and that no place is left open which somebody
  could take, follows with one fact of arithmetic: the gap the agent measures
  and the conflict of the solver are the same for any two windows, in either
  order, over midnight too (`GapIsConflict`).
  A correction: two tables that differ on one demand propose the same up to that
  demand (`SameUntil`), so it finds the same people available; a cold start has
  given each of them nothing or one teacher's rate (`ColdIs`), the correction
  gives or takes a feedback's rate, and features which set people apart by less
  than the difference of the two cannot make up for it. Hence after a move the
  accepted crew is the best one (`MoveIsMade`), and who was taken off is behind
  everybody who is free (`DropIsLast`).

Only model-checked: `Settles`, which rests on fairness; and `TypeOK` of
`MCServices`, which is the conjunction of the types of its components, each of
which is part of a theorem above. The answers CP-SAT may give are external: they
are what `Optimizer` says of them.

## 6. Plan

1. `ShiftSwap`: what a leave approved between check and transaction would need
   for `ScheduleWorkable` to hold with more than one writer.
2. `AgentPolicy`: several corrections in a row, of which a later one may undo an
   earlier one.
3. `Replacements` with the swaps of `ShiftSwap` as a third writer of the shifts.

## 7. Not modelled

* The search of CP-SAT and its weights, great-circle distances, forecasts,
  rewards and metrics of the agent: floating-point computation.
* Cryptography, signatures and JWKS: a ciphertext is a tagged value, a token is
  what Keycloak issued.
* The status endpoint of provisioning and other plain reads: no state. Audit
  rows of the organisation's services: written last and read by no code.
* Both provisioning services consuming one queue at the same time.
* The other screens of the web client (lists that are read once, the dialog that
  adds an employee), the proxy's development sources of a token, the static page
  in `apps/web`: layout, or one request each.
* Scripts that write files (`agent/src`), seeds, deployment, health probes,
  environment parsing: no state another part relies on.
