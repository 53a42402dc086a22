----------------------------- MODULE MCServices -----------------------------
(***************************************************************************)
(* The services beside provisioning, swaps and replacements, in one run.   *)
(* They write different rows and share no step, so a behaviour is checked  *)
(* for one of them, the desk, with the others at rest: the run is the sum  *)
(* of its desks, not their product.                                        *)
(***************************************************************************)
EXTENDS Users, Organisation, Grafik, StrategicBrain, Costs, ClientCache, Fleet, Requests, Agent,
        RuntimePipeline, WebSession, Screens, Forms, Questions, TLC

CONSTANTS
    Desks,        \* the desks this run looks at
    a1, a2, p1, u1, u2, u3, e1, e2, d1, d2, t1, t2, h1, h2, r1, r2, ann, bob, driver

VARIABLE desk     \* the component whose steps are taken

vars == <<desk, usersVars, orgVars, grafikVars, brainVars, costVars, cacheVars, fleetVars, requestsVars,
          agentVars, rtVars, webVars, screenVars, formVars, questionVars>>

Rest(name, pinned) == desk = name \/ pinned

ScreenAtRest ==
    /\ scrLeft = CHOOSE l \in ScreenCases : TRUE
    /\ scrServer = CHOOSE f \in [scrLeft.rows -> FirstStates(scrKind)] : TRUE

Init ==
    /\ desk \in Desks
    /\ UsersInit /\ Rest("users", regime = CHOOSE r \in Regimes : TRUE)
    /\ OrgInit /\ Rest("organisation", ~orgOverlap)
    /\ GrafikInit /\ Rest("grafik", ~grafikOverlap)
    /\ BrainInit /\ Rest("brain", brainLeft = CHOOSE b \in BrainBudgets : TRUE)
    /\ CostInit
    /\ CacheInit /\ Rest("cache", ~cacheGap)
    /\ FleetInit /\ Rest("fleet", \A t \in Fleets : fleetTenant[t] = "ACTIVE")
    /\ RequestsInit
    /\ AgentInit /\ Rest("agent", agentRegime = CHOOSE r \in AgentRegimes : TRUE)
    /\ RtInit /\ Rest("pipeline", rtLimit = CHOOSE l \in RtLimits : l.handlers = Handlers)
    /\ WebInit /\ Rest("web", webRegime = CHOOSE r \in WebRegimes : r.calls = WebCalls)
    /\ ScreensInit /\ Rest("screens", ScreenAtRest)
    /\ FormsInit /\ Rest("forms", frmCase = CHOOSE c \in FormCases : TRUE)
    /\ IF desk = "questions" THEN QuestionsInit
       ELSE question = <<"rank", CHOOSE q \in RankQuestions : TRUE>> /\ answer = {}

Next ==
    \/ desk = "users" /\ UsersNext /\ UNCHANGED <<desk, orgVars, grafikVars, brainVars, costVars, cacheVars,
                                                 fleetVars, requestsVars, agentVars, rtVars, webVars, screenVars, formVars,
                                                         questionVars>>
    \/ desk = "organisation" /\ OrgNext /\ UNCHANGED <<desk, usersVars, grafikVars, brainVars, costVars, cacheVars,
                                                      fleetVars, requestsVars, agentVars, rtVars, webVars, screenVars, formVars,
                                                         questionVars>>
    \/ desk = "grafik" /\ GrafikNext /\ UNCHANGED <<desk, usersVars, orgVars, brainVars, costVars, cacheVars,
                                                   fleetVars, requestsVars, agentVars, rtVars, webVars, screenVars, formVars,
                                                         questionVars>>
    \/ desk = "brain" /\ BrainNext /\ UNCHANGED <<desk, usersVars, orgVars, grafikVars, costVars, cacheVars,
                                                 fleetVars, requestsVars, agentVars, rtVars, webVars, screenVars, formVars,
                                                         questionVars>>
    \/ desk = "costs" /\ CostNext /\ UNCHANGED <<desk, usersVars, orgVars, grafikVars, brainVars, cacheVars,
                                                fleetVars, requestsVars, agentVars, rtVars, webVars, screenVars, formVars,
                                                         questionVars>>
    \/ desk = "cache" /\ CacheNext /\ UNCHANGED <<desk, usersVars, orgVars, grafikVars, brainVars, costVars,
                                                 fleetVars, requestsVars, agentVars, rtVars, webVars, screenVars, formVars,
                                                         questionVars>>
    \/ desk = "fleet" /\ FleetNext /\ UNCHANGED <<desk, usersVars, orgVars, grafikVars, brainVars, costVars,
                                                 cacheVars, requestsVars, agentVars, rtVars, webVars, screenVars, formVars,
                                                         questionVars>>
    \/ desk = "requests" /\ RequestsNext /\ UNCHANGED <<desk, usersVars, orgVars, grafikVars, brainVars, costVars,
                                                       cacheVars, fleetVars, agentVars, rtVars, webVars, screenVars, formVars,
                                                         questionVars>>
    \/ desk = "agent" /\ AgentNext /\ UNCHANGED <<desk, usersVars, orgVars, grafikVars, brainVars, costVars,
                                                 cacheVars, fleetVars, requestsVars, rtVars, webVars, screenVars, formVars,
                                                         questionVars>>
    \/ desk = "pipeline" /\ RtNext /\ UNCHANGED <<desk, usersVars, orgVars, grafikVars, brainVars, costVars,
                                                cacheVars, fleetVars, requestsVars, agentVars, webVars, screenVars, formVars,
                                                         questionVars>>
    \/ desk = "web" /\ WebNext /\ UNCHANGED <<desk, usersVars, orgVars, grafikVars, brainVars, costVars, cacheVars,
                                             fleetVars, requestsVars, agentVars, rtVars, screenVars, formVars,
                                                         questionVars>>
    \/ desk = "screens" /\ ScreensNext /\ UNCHANGED <<desk, usersVars, orgVars, grafikVars, brainVars, costVars, cacheVars,
                                                     fleetVars, requestsVars, agentVars, rtVars, webVars, formVars,
                                                     questionVars>>
    \/ desk = "forms" /\ FormsNext /\ UNCHANGED <<desk, usersVars, orgVars, grafikVars, brainVars, costVars, cacheVars,
                                                 fleetVars, requestsVars, agentVars, rtVars, webVars, screenVars,
                                                 questionVars>>
    \/ desk = "questions" /\ QuestionsNext /\ UNCHANGED <<desk, usersVars, orgVars, grafikVars, brainVars, costVars,
                                                         cacheVars, fleetVars, requestsVars, agentVars, rtVars,
                                                         webVars, screenVars, formVars>>

Spec == Init /\ [][Next]_vars

\* The types of every component's state.
TypeOK ==
    /\ desk \in Desks
    /\ desk = "users" => UsersTypeOK
    /\ desk = "organisation" => OrgTypeOK
    /\ desk = "grafik" => GrafikTypeOK
    /\ desk = "brain" => BrainTypeOK
    /\ desk = "costs" => CostTypeOK
    /\ desk = "cache" => CacheTypeOK
    /\ desk = "fleet" => FleetTypeOK
    /\ desk = "requests" => RequestsTypeOK
    /\ desk = "agent" => AgentTypeOK
    /\ desk = "pipeline" => RtTypeOK
    /\ desk = "web" => WebTypeOK
    /\ desk = "screens" => ScreensTypeOK
    /\ desk = "forms" => FormsTypeOK

-----------------------------------------------------------------------------
\* Calls of one service are interchangeable: no definition names one of them.
CallSymmetry == Permutations({h1, h2})

(* Users *)

McGrants == {<<"MANAGER", u1>>, <<"MANAGER", u2>>, <<Admin, Anywhere>>}
McRegimes == {[overlap |-> FALSE, repair |-> TRUE, promote |-> TRUE, grants |-> McGrants],
              [overlap |-> TRUE, repair |-> FALSE, promote |-> FALSE,
               grants |-> {<<"MANAGER", u1>>, <<Admin, Anywhere>>}]}
McOverlapping == {r \in McRegimes : r.overlap}

(* Organisation *)

McFirstStaff == (e1 :> [unit |-> u1, pesel |-> 1])

(* Grafik: a day shift, one over midnight at another location, the day after *)

S1 == [loc |-> "A", day |-> 0, start |-> 8, end |-> 16, role |-> driver]
S2 == [loc |-> "B", day |-> 0, start |-> 20, end |-> 4, role |-> driver]
S3 == [loc |-> "B", day |-> 1, start |-> 12, end |-> 20, role |-> driver]
McSlots == {S1, S2, S3}
McUnit == (e1 :> u1 @@ e2 :> u2)
McSkills == [e \in Workers |-> {driver}]
McFirstDemands == (d1 :> [slot |-> S1, count |-> 1])
McShiftBodies == {[emp |-> e1, slot |-> S1, source |-> "MANUAL", demand |-> d1],
                  [emp |-> e2, slot |-> S2, source |-> "MANUAL", demand |-> NoDemand]}
McDemandBodies == {[slot |-> S2, count |-> 1], [slot |-> S3, count |-> 2]}
McFilters == {{}, {"B"}}

(* Strategic brain: two colleagues, one of them new; one window with two   *)
(* passes, or one pass while the configuration changes                     *)

McPeerKey == (e1 :> [position |-> "x", unit |-> u1, etat |-> 1] @@ e2 :> [position |-> "x", unit |-> u2, etat |-> 1])
McHired == (e1 :> -5 @@ e2 :> 0)
Good == [done |-> 20, hits |-> 18, complaints |-> 1, leave |-> "none"]
Poor == [done |-> 18, hits |-> 4, complaints |-> 20, leave |-> "other"]
Away == [done |-> 20, hits |-> 2, complaints |-> 10, leave |-> "L4"]
McTeams == {(e1 :> Good @@ e2 :> Poor), (e1 :> Away @@ e2 :> Good)}
McStaffings == {[nurse |-> [required |-> 2, assigned |-> 1]], [nurse |-> [required |-> 1, assigned |-> 1]]}
McDefaultConfig == [performance |-> 30, timeliness |-> 25, quality |-> 25, development |-> 20, defects |-> 10,
                    minDays |-> 1, minWindows |-> 2, minSlope |-> 50, minPeers |-> 2]
McPatches == {[performance |-> 70, timeliness |-> 10, quality |-> 10, development |-> 10],
              [performance |-> 90, quality |-> 10], [minWindows |-> 3, minPeers |-> 1]}
McBudgets == {[windows |-> 1, passes |-> 2, patches |-> 0], [windows |-> 0, passes |-> 1, patches |-> 2]}

(* Costs *)

McRota == {[id |-> 1, unit |-> u1, grade |-> "x", hours |-> 8], [id |-> 2, unit |-> u1, grade |-> "y", hours |-> 4]}
McRates == {[hourly |-> 10, currency |-> "PLN"], [hourly |-> 20, currency |-> "EUR"]}
McCaps == {50, 100, NoCap}

(* Requests *)

McVisitKinds == {[trusted |-> t, role |-> r, mutates |-> TRUE] :
                    t \in BOOLEAN, r \in BOOLEAN} \ {[trusted |-> FALSE, role |-> FALSE, mutates |-> TRUE]}

(* The tenant runtime's pipeline: two tenants whose ids begin alike; one   *)
(* tenant with two messages in work; one tenant with two relay ticks       *)

McShortId == (t1 :> "x" @@ t2 :> "x")
McRtLimits == {[signups |-> {t1, t2}, handlers |-> {h1}, ticks |-> {r1}, faults |-> 1],
               [signups |-> {t1}, handlers |-> {h1, h2}, ticks |-> {r1}, faults |-> 1],
               [signups |-> {t1}, handlers |-> {h1}, ticks |-> {r1, r2}, faults |-> 1]}

(* The web session: one request at a time with refresh tokens that are     *)
(* good once; requests that overlap; requests that fail; a client without  *)
(* refresh tokens                                                          *)

McWebRegimes ==
    {[calls |-> {h1}, revoke |-> TRUE, refresh |-> TRUE, people |-> {ann},
      visits |-> 3, faults |-> 0, tokens |-> 3, time |-> 4],
     [calls |-> {h1, h2}, revoke |-> FALSE, refresh |-> TRUE, people |-> {ann, bob},
      visits |-> 3, faults |-> 0, tokens |-> 3, time |-> 2],
     [calls |-> {h1}, revoke |-> FALSE, refresh |-> TRUE, people |-> {ann},
      visits |-> 3, faults |-> 1, tokens |-> 3, time |-> 2],
     [calls |-> {h1}, revoke |-> FALSE, refresh |-> FALSE, people |-> {ann},
      visits |-> 4, faults |-> 1, tokens |-> 3, time |-> 2]}

(* Screens *)

McScreenLimits == {[polls |-> 1, moves |-> 1, faults |-> 0],
                   [polls |-> 0, moves |-> 0, faults |-> 1]}
McScreens ==
    [kind : {"inbox", "consent"}, rows : {{"x"}}, is : {{"decider"}}]
    \cup [kind : {"access", "users"}, rows : {{"x", "y"}}, is : {{"decider"}}]
    \cup [kind : {"leave"}, rows : {{"x"}}, is : {{"owner"}, {"decider"}, {"owner", "decider"}}]
    \cup [kind : {"swaps"}, rows : {{"x"}}, is : {{"owner"}, {"target"}, {"decider"}}]
McScreenCases == {k @@ l : k \in McScreens, l \in McScreenLimits}

(* Forms: a row of each kind, another employee, week or unit to choose, a  *)
(* move of somebody else or a lost request                                 *)

FormLimits(clicks, moves, faults) == [clicks |-> clicks, moves |-> moves, faults |-> faults]

FormDesk(kind, rows, choices, limits) ==
    {[kind |-> kind, rows |-> rows, choices |-> choices, first |-> CHOOSE c \in choices : TRUE,
      more |-> IF kind \in {"units", "schedule"} THEN {"w"} ELSE {},
      global |-> TRUE, roster |-> FALSE] @@ l : l \in limits}

Stays == {Nowhere}
UnitWeeks == {<<Nowhere, 0>>, <<"A", 0>>, <<"A", 1>>}
ScheduleWeeks == {Nowhere, "A"} \X {0, 1}

McForms ==
    FormDesk("profile", {"x", "y"}, {"x", "y"}, {FormLimits(4, 1, 0), FormLimits(4, 0, 1)})
    \cup FormDesk("units", {"x", "y"}, Stays, {FormLimits(4, 1, 0), FormLimits(4, 0, 1)})
    \cup FormDesk("company", {"x"}, Stays, {FormLimits(4, 1, 0), FormLimits(4, 0, 1)})
    \cup FormDesk("policy", {"x"}, Stays, {FormLimits(4, 1, 0), FormLimits(4, 0, 1)})
    \cup {[c EXCEPT !.first = <<Nowhere, 0>>, !.roster = TRUE] :
            c \in FormDesk("schedule", {"x"}, ScheduleWeeks, {FormLimits(4, 1, 0), FormLimits(3, 0, 1)})}
    \cup {[c EXCEPT !.first = <<Nowhere, 0>>, !.global = g, !.roster = TRUE] :
            c \in FormDesk("costs", {"x"}, UnitWeeks, {FormLimits(2, 0, 1)}), g \in BOOLEAN}

(* Questions: windows that touch, overlap, cross midnight and come too     *)
(* soon; candidates of both kinds, near, far and without an address        *)

McWindows == {[day |-> 0, start |-> 6, end |-> 14], [day |-> 0, start |-> 12, end |-> 20],
              [day |-> 0, start |-> 22, end |-> 6], [day |-> 1, start |-> 7, end |-> 15],
              [day |-> 1, start |-> 17, end |-> 23]}
McEarlier(ws, i, j) ==
    LET At0(k) == ws[k].day * DayHours + ws[k].start IN At0(i) < At0(j) \/ (At0(i) = At0(j) /\ i < j)
McProblem(ws, n, second, away) ==
    [employees |-> {1, 2}, quals |-> (1 :> {"R"} @@ 2 :> second), leave |-> (1 :> away @@ 2 :> {}),
     etat |-> (1 :> 1 @@ 2 :> 1), history |-> (1 :> 0 @@ 2 :> 100),
     minutes |-> (1 :> ("A" :> 10) @@ 2 :> ("A" :> 30)),
     demands |-> [i \in DOMAIN ws |-> ws[i] @@ [loc |-> "A", role |-> "R", count |-> n]],
     order |-> SetToSortSeq(DOMAIN ws, LAMBDA i, j : McEarlier(ws, i, j))]
McProblems(k, counts, aways) ==
    {McProblem(ws, n, second, away) :
        ws \in [1..k -> McWindows], n \in counts, second \in {{}, {"R"}}, away \in aways}
McAll(k) == McProblems(k, {1, 2}, {{}, {1}})
McKey(e, w) == <<e, Signature(w @@ [loc |-> "A", role |-> "R"])>>
McAffinities ==
    LET early == [day |-> 0, start |-> 6]
        next == [day |-> 1, start |-> 7]
    IN  {<<>>, (McKey(2, early) :> 3000), (McKey(2, next) :> 3000 @@ McKey(1, next) :> -3000)}
McPropose == [problem : McAll(3), affinity : McAffinities]
McEdits == {[type |-> t, demand |-> d, otherDemand |-> 3, employee |-> p[1], other |-> p[2]] :
              t \in {"MOVE", "SWAP", "ACCEPT", "REMOVE", "REJECT"}, d \in {1}, p \in {<<1, 2>>, <<2, 1>>, <<1, 3>>}}
\* Three employees for two places on each of the slots.
McCrowd == {[McProblem(ws, 2, {"R"}, {}) EXCEPT !.employees = {1, 2, 3}, !.quals = @ @@ (3 :> {"R"}),
                !.leave = @ @@ (3 :> {}), !.etat = @ @@ (3 :> 1), !.history = @ @@ (3 :> h),
                !.minutes = @ @@ (3 :> ("A" :> 30))] :
              ws \in {w \in [1..3 -> McWindows] : \A i, j \in 1..3 : w[i] = w[j] => i = j}, h \in {50, 100}}
McLearn == [problem : McProblems(3, {1}, {{}}) \cup McCrowd, teacher : {{}, {<<1, 1>>, <<2, 2>>}, {<<2, 1>>, <<1, 3>>}}, edit : McEdits]
McValidate == [problem : McAll(2), x : SUBSET ({1, 2} \X {1, 2})]
McEpisode == [problem : McProblems(2, {1}, {{1}}), slots : {<<1, 2>>, <<1, 1, 2>>}, actions : [1..3 -> 0..3]]

McShift == [day |-> 1, start |-> 480, end |-> 960, rate |-> {[hourly |-> 3000, currency |-> "PLN"]}]
Morning == [day |-> 0, start |-> 480, end |-> 960]
Evening == [day |-> 0, start |-> 1080, end |-> 1290]
McCandidates == [local : BOOLEAN, fits : BOOLEAN, travel : {{}, {30}, {130}}, prefers : {{480}},
                 shifts : {{}, {Morning}, {Morning, Evening}, {[Morning EXCEPT !.day = 2]}},
                 rate : {{}, {[hourly |-> 3600, currency |-> "PLN"]}}]
McRank == [shift : {McShift}, pool : [1..2 -> McCandidates]]

\* Three employees in two units, every caller, every swap of two of them or
\* given away, a proposal of each unit for each candidate.
McTenants == {[staff |-> {1, 2, 3}, unit |-> f,
               swaps |-> {[requester |-> i, target |-> j] : i \in {1, 2}, j \in {2, 3, Nobody}},
               proposals |-> [owningUnit : {"A", "B"}, active : {1, 2, 3}]] : f \in [1..3 -> {"A", "B"}]}
McScopes == [tenant : McTenants, caller : [global : BOOLEAN, manages : SUBSET {"A", "B"}, self : {{}, {1}, {2}, {3}}]]
=============================================================================
