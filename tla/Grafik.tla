------------------------------- MODULE Grafik -------------------------------
(***************************************************************************)
(* The schedule of one week (apps/tenant-runtime/src/grafik): shifts and   *)
(* demands, edited by planners, and the solve that packs the week, waits   *)
(* for the optimizer and replaces the machine's previous shifts.           *)
(*                                                                         *)
(* Swap requests and AI proposals point at shifts (foreign keys ON DELETE  *)
(* RESTRICT); leave is approved elsewhere: the three are environment       *)
(* actions here.                                                           *)
(***************************************************************************)
EXTENDS Optimizer

CONSTANTS
    Workers,        \* employees
    WorkUnit,       \* employee.unitId
    Skills,         \* employee.qualifications
    PlannerUnits,   \* the units of the unit-bound planner
    Slots,          \* [loc, day, start, end, role] a demand or a shift may have
    DemandIds,
    FirstDemands,   \* the demands the week starts with: id -> [slot, count]
    ShiftBodies,    \* [emp, slot, source, demand] that planners send
    DemandBodies,   \* [slot, count] that planners send
    TemplateIds, TemplateBodies,  \* shift templates
    Filters,        \* sets of locations that solves are restricted to, {} for none
    GrafikCalls,    \* solves in progress at the same time
    MaxGrafikCalls, \* bound: calls that are started
    NoDemand        \* SQL NULL in shift.demand_id

\* A shift is named after the call that inserts it, a pinned shift's own
\* demand and qualification (__pinned__<shiftId>) after the shift.
ShiftIds == (0 .. MaxGrafikCalls) \X Workers \X (DemandIds \cup {NoDemand})
PinNames == {"pinned"} \X ShiftIds

ShiftRow == [emp : Workers, slot : Slots, source : {"MANUAL", "AUTO"}, demand : DemandIds \cup {NoDemand}]
DemandRow == [slot : Slots, count : Nat]

\* Demands have UUIDs, roles and qualifications are entered by people: none of
\* them is a pin's name.
ASSUME GrafikAssumption ==
    /\ DOMAIN WorkUnit = Workers
    /\ DOMAIN Skills = Workers
    /\ DOMAIN FirstDemands \subseteq DemandIds
    /\ FirstDemands \in [DOMAIN FirstDemands -> DemandRow]
    /\ ShiftBodies \subseteq ShiftRow
    /\ DemandBodies \subseteq DemandRow
    /\ {} \in Filters
    /\ MaxGrafikCalls \in Nat
    /\ NoDemand \notin DemandIds
    /\ DemandIds \cap PinNames = {}
    /\ \A s \in Slots : s.role \notin PinNames
    /\ \A e \in Workers : Skills[e] \cap PinNames = {}

VARIABLES
    shift,         \* shift rows: id -> [emp, slot, source, demand]
    demand,        \* shift_demand rows: id -> [slot, count]
    template,      \* shift_template rows
    leaveDays,     \* approved leave, pairs <<employee, day>>
    swapOn,        \* shifts that swap requests point at
    proposalOn,    \* shifts that AI proposals point at
    solve,         \* locals of the solves in progress
    grafikStarted, \* calls started so far
    grafikOverlap  \* whether other calls run while a solve does

weekVars == <<shift, demand, template, leaveDays, swapOn, proposalOn>>
grafikVars == <<weekVars, solve, grafikStarted, grafikOverlap>>

NoSolve == [at |-> "idle"]

GrafikInit ==
    /\ shift = <<>>
    /\ demand = FirstDemands
    /\ template = <<>>
    /\ leaveDays = {}
    /\ swapOn = {}
    /\ proposalOn = {}
    /\ solve = [c \in GrafikCalls |-> NoSolve]
    /\ grafikStarted = 0
    /\ grafikOverlap \in BOOLEAN

PutRow(f, k, v) == [x \in DOMAIN f \cup {k} |-> IF x = k THEN v ELSE f[x]]
Without(f, S) == [x \in DOMAIN f \ S |-> f[x]]

StartGrafikCall ==
    /\ grafikOverlap \/ \A c \in GrafikCalls : solve[c] = NoSolve
    /\ grafikStarted < MaxGrafikCalls
    /\ grafikStarted' = grafikStarted + 1
    /\ UNCHANGED grafikOverlap

\* assertManagesUnit of the employee's unit
MayPlan(global, e) == global \/ WorkUnit[e] \in PlannerUnits

-----------------------------------------------------------------------------
(* Shifts and demands *)

CreateShift(global, body) ==
    /\ StartGrafikCall
    /\ MayPlan(global, body.emp)
    /\ body.demand \in DOMAIN demand \cup {NoDemand}
    /\ shift' = PutRow(shift, <<grafikStarted, body.emp, body.demand>>, body)
    /\ UNCHANGED <<demand, template, leaveDays, swapOn, proposalOn, solve>>

UpdateShift(global, s, body) ==
    /\ StartGrafikCall
    /\ s \in DOMAIN shift
    /\ MayPlan(global, shift[s].emp) /\ MayPlan(global, body.emp)
    /\ body.demand \in DOMAIN demand \cup {NoDemand}
    /\ shift' = [shift EXCEPT ![s] = body]
    /\ UNCHANGED <<demand, template, leaveDays, swapOn, proposalOn, solve>>

\* shift.delete: refused while a swap request or a proposal points at it.
DeleteShift(global, s) ==
    /\ StartGrafikCall
    /\ s \in DOMAIN shift
    /\ MayPlan(global, shift[s].emp)
    /\ s \notin swapOn \cup proposalOn
    /\ shift' = Without(shift, {s})
    /\ UNCHANGED <<demand, template, leaveDays, swapOn, proposalOn, solve>>

\* createDemand and updateDemand
SaveDemand(d, body) ==
    /\ StartGrafikCall
    /\ demand' = PutRow(demand, d, body)
    /\ UNCHANGED <<shift, template, leaveDays, swapOn, proposalOn, solve>>

\* deleteDemand: shifts.demand_id is ON DELETE SET NULL.
DeleteDemand(d) ==
    /\ StartGrafikCall
    /\ d \in DOMAIN demand
    /\ demand' = Without(demand, {d})
    /\ shift' = [s \in DOMAIN shift |->
                   IF shift[s].demand = d THEN [shift[s] EXCEPT !.demand = NoDemand] ELSE shift[s]]
    /\ UNCHANGED <<template, leaveDays, swapOn, proposalOn, solve>>

\* createTemplate and updateTemplate, deleteTemplate: for planners of every unit.
SaveTemplate(t, body) ==
    /\ StartGrafikCall
    /\ template' = PutRow(template, t, body)
    /\ UNCHANGED <<shift, demand, leaveDays, swapOn, proposalOn, solve>>

DeleteTemplate(t) ==
    /\ StartGrafikCall
    /\ t \in DOMAIN template
    /\ template' = Without(template, {t})
    /\ UNCHANGED <<shift, demand, leaveDays, swapOn, proposalOn, solve>>

(* What other components do to the week *)

ApproveLeaveDay(e, day) ==
    /\ StartGrafikCall
    /\ leaveDays' = leaveDays \cup {<<e, day>>}
    /\ UNCHANGED <<shift, demand, template, swapOn, proposalOn, solve>>

PointAt(s) ==
    /\ StartGrafikCall
    /\ s \in DOMAIN shift
    /\ \/ swapOn' = swapOn \cup {s} /\ UNCHANGED proposalOn
       \/ proposalOn' = proposalOn \cup {s} /\ UNCHANGED swapOn
    /\ UNCHANGED <<shift, demand, template, leaveDays, solve>>

-----------------------------------------------------------------------------
(* solveGrafik *)

\* resolveUnitScope: null, or the units the caller may plan.
UnitScope == {{WorkUnit[e] : e \in Workers}, PlannerUnits}
InScopeOf(units) == {e \in Workers : WorkUnit[e] \in units}
Within(filter, loc) == filter = {} \/ loc \in filter

\* The demands are read first,
Solve(c, units, filter) ==
    /\ solve[c] = NoSolve
    /\ StartGrafikCall
    /\ solve' = [solve EXCEPT ![c] =
                   [at |-> "leave", run |-> grafikStarted, units |-> units, filter |-> filter,
                    demands |-> Without(demand, {d \in DOMAIN demand : ~Within(filter, demand[d].slot.loc)}),
                    leave |-> {}, manual |-> {}, asg |-> {}, stale |-> {}]]
    /\ UNCHANGED weekVars

\* then the approved leave,
ReadLeave(c) ==
    LET k == solve[c] IN
    /\ k.at = "leave"
    /\ solve' = [solve EXCEPT ![c] = [k EXCEPT !.at = "manual", !.leave =
                   {l \in leaveDays : l[1] \in InScopeOf(k.units)}]]
    /\ UNCHANGED <<weekVars, grafikStarted, grafikOverlap>>

\* Variant: the week's manual shifts are not read.
ReadManualNone(c) ==
    /\ solve[c].at = "manual"
    /\ solve' = [solve EXCEPT ![c].at = "optimize"]
    /\ UNCHANGED <<weekVars, grafikStarted, grafikOverlap>>

\* then the shifts people have placed.
ManualShifts(units, filter) ==
    {<<s, shift[s]>> : s \in {t \in DOMAIN shift : /\ shift[t].source = "MANUAL"
                                                 /\ shift[t].emp \in InScopeOf(units)
                                                 /\ Within(filter, shift[t].slot.loc)}}

ReadManual(c) ==
    LET k == solve[c] IN
    /\ k.at = "manual"
    /\ solve' = [solve EXCEPT ![c] = [k EXCEPT !.at = "optimize", !.manual = ManualShifts(k.units, k.filter)]]
    /\ UNCHANGED <<weekVars, grafikStarted, grafikOverlap>>

\* __pinned__<shiftId>: a demand, and a qualification of the holder's alone.
Pin(m) == <<"pinned", m[1]>>

SlotInput(slot, role, n) ==
    [loc |-> slot.loc, day |-> slot.day, start |-> slot.start, end |-> slot.end, role |-> role, count |-> n]

Pack(k) ==
    LET pins == {Pin(m) : m \in k.manual}
        of(pin) == CHOOSE m \in k.manual : Pin(m) = pin
    IN [employees |-> InScopeOf(k.units),
        demands   |-> [id \in DOMAIN k.demands \cup pins |->
                         IF id \in pins THEN SlotInput(of(id)[2].slot, id, 1)
                         ELSE SlotInput(k.demands[id].slot, k.demands[id].slot.role, k.demands[id].count)],
        quals     |-> [e \in Workers |-> Skills[e] \cup {Pin(m) : m \in {n \in k.manual : n[2].emp = e}}],
        leave     |-> [e \in Workers |-> {l[2] : l \in {x \in k.leave : x[1] = e}}],
        etat      |-> [e \in Workers |-> 1],
        prefs     |-> [e \in Workers |-> [daysOff |-> {}, starts |-> {}]],
        minutes   |-> [e \in Workers |-> [loc \in {s.loc : s \in Slots} |-> 1]],
        weight    |-> 40]

LocIds(k) == {k.demands[d].slot.loc : d \in DOMAIN k.demands} \cup {m[2].slot.loc : m \in k.manual}

\* POST /solve.  An infeasible week persists nothing.
Optimize(c) ==
    /\ solve[c].at = "optimize"
    /\ \E r \in SolveResults(Pack(solve[c])) :
        solve' = [solve EXCEPT ![c] = IF r.status = "INFEASIBLE" THEN NoSolve
                                      ELSE [@ EXCEPT !.at = "stale", !.asg = r.assignments]]
    /\ UNCHANGED <<weekVars, grafikStarted, grafikOverlap>>

\* Variant: an empty list of locations is no filter.
MachineShiftsEverywhere(locs, units) ==
    {s \in DOMAIN shift : /\ shift[s].source = "AUTO"
                          /\ Within(locs, shift[s].slot.loc)
                          /\ WorkUnit[shift[s].emp] \in units}

\* The transaction reads the machine's shifts it replaces,
MachineShifts(locs, units) ==
    {s \in DOMAIN shift : /\ shift[s].source = "AUTO"
                          /\ shift[s].slot.loc \in locs
                          /\ WorkUnit[shift[s].emp] \in units}

FindStale(c) ==
    LET k == solve[c] IN
    /\ k.at = "stale"
    /\ solve' = [solve EXCEPT ![c] = [k EXCEPT !.at = "replace", !.stale = MachineShifts(LocIds(k), k.units)]]
    /\ UNCHANGED <<weekVars, grafikStarted, grafikOverlap>>

\* and commits: the swap requests that point at them go, they go, the
\* assignments come.  A key that forbids one of it rolls all of it back.
NewShifts(k) == {a \in k.asg : a[2] \in DOMAIN k.demands /\ a[1] \in InScopeOf(k.units)}
RolledBack(k) ==
    \/ k.stale \cap DOMAIN shift \cap proposalOn # {}
    \/ \E a \in NewShifts(k) : a[2] \notin DOMAIN demand

Replace(c) ==
    LET k   == solve[c]
        new == [id \in {<<k.run, a[1], a[2]>> : a \in NewShifts(k)} |->
                  [emp |-> id[2], slot |-> k.demands[id[3]].slot, source |-> "AUTO", demand |-> id[3]]]
    IN
    /\ k.at = "replace"
    /\ IF RolledBack(k) THEN UNCHANGED <<shift, swapOn>>
       ELSE /\ shift' = [s \in (DOMAIN shift \ k.stale) \cup DOMAIN new |->
                           IF s \in DOMAIN new THEN new[s] ELSE shift[s]]
            /\ swapOn' = swapOn \ k.stale
    /\ solve' = [solve EXCEPT ![c] = NoSolve]
    /\ UNCHANGED <<demand, template, leaveDays, proposalOn, grafikStarted, grafikOverlap>>

\* The optimizer is unreachable or answers with an error, a query fails, or
\* the pod dies.
SolveFails(c) ==
    /\ solve[c] # NoSolve
    /\ solve' = [solve EXCEPT ![c] = NoSolve]
    /\ UNCHANGED <<weekVars, grafikStarted, grafikOverlap>>

GrafikNext ==
    \/ \E global \in BOOLEAN, body \in ShiftBodies :
        \/ CreateShift(global, body)
        \/ \E s \in DOMAIN shift : UpdateShift(global, s, body)
    \/ \E global \in BOOLEAN, s \in DOMAIN shift : DeleteShift(global, s)
    \/ \E d \in DemandIds, body \in DemandBodies : SaveDemand(d, body)
    \/ \E d \in DemandIds : DeleteDemand(d)
    \/ \E t \in TemplateIds :
        \/ \E body \in TemplateBodies : SaveTemplate(t, body)
        \/ DeleteTemplate(t)
    \/ \E e \in Workers, day \in {slot.day : slot \in Slots} : ApproveLeaveDay(e, day)
    \/ \E s \in DOMAIN shift : PointAt(s)
    \/ \E c \in GrafikCalls :
        \/ \E units \in UnitScope, filter \in Filters : Solve(c, units, filter)
        \/ ReadLeave(c)
        \/ ReadManual(c)
        \/ Optimize(c)
        \/ FindStale(c)
        \/ Replace(c)
        \/ SolveFails(c)

GrafikSpec == GrafikInit /\ [][GrafikNext]_grafikVars

-----------------------------------------------------------------------------
(* Properties                                                              *)

GrafikTypeOK ==
    /\ DOMAIN shift \subseteq ShiftIds /\ shift \in [DOMAIN shift -> ShiftRow]
    /\ \A s \in DOMAIN shift : shift[s].demand \in DOMAIN demand \cup {NoDemand}
    /\ DOMAIN demand \subseteq DemandIds /\ demand \in [DOMAIN demand -> DemandRow]
    /\ DOMAIN template \subseteq TemplateIds
    /\ proposalOn \subseteq DOMAIN shift
    /\ swapOn \subseteq DOMAIN shift
    /\ grafikStarted \in 0..MaxGrafikCalls

Persists(c) == solve[c] # NoSolve /\ solve[c].at = "replace" /\ solve'[c] = NoSolve /\ shift' # shift
Inserted == {s \in DOMAIN shift' : s \notin DOMAIN shift}

\* What a solve of every location persists can be worked: each new shift goes
\* to a qualified employee who is not on leave and has eleven hours between it
\* and every other new or manual shift, if nothing changed meanwhile.
SolvedWorkable ==
    [][\A c \in GrafikCalls :
        (~grafikOverlap /\ Persists(c) /\ solve[c].filter = {}) =>
        \A s \in Inserted :
            LET new == shift'[s] IN
            /\ new.slot.role \in Skills[new.emp]
            /\ <<new.emp, new.slot.day>> \notin leaveDays
            /\ \A t \in DOMAIN shift' \ {s} :
                (shift'[t].emp = new.emp /\ (t \in Inserted \/ shift'[t].source = "MANUAL"))
                => ~Conflict(AbsWindow(shift'[t].slot), AbsWindow(new.slot))]_grafikVars

\* A solve removes only what the machine placed, in the units and at the
\* locations it has planned, if nothing changed meanwhile.
ReplacesOwnShifts ==
    [][\A c \in GrafikCalls :
        (~grafikOverlap /\ Persists(c)) =>
        \A s \in DOMAIN shift \ DOMAIN shift' :
            /\ shift[s].source = "AUTO"
            /\ shift[s].slot.loc \in LocIds(solve[c])
            /\ WorkUnit[shift[s].emp] \in solve[c].units]_grafikVars

-----------------------------------------------------------------------------
(* The inductive invariant                                                 *)

\* What a solve in progress holds, whoever writes meanwhile: demands of the
\* week and, once the optimizer has answered, a schedule for what it was sent.
SolveKnows(k) ==
    /\ k = [at |-> k.at, run |-> k.run, units |-> k.units, filter |-> k.filter, demands |-> k.demands,
            leave |-> k.leave, manual |-> k.manual, asg |-> k.asg, stale |-> k.stale]
    /\ k.at \in {"leave", "manual", "optimize", "stale", "replace"}
    /\ k.run \in 0..MaxGrafikCalls
    /\ DOMAIN k.demands \subseteq DemandIds /\ k.demands \in [DOMAIN k.demands -> DemandRow]
    /\ k.at \in {"stale", "replace"} => k.asg \in Schedules(Pack(k), FALSE)

\* What a solve has read is still so.
StillSo(k) ==
    /\ k.at # "leave" => k.leave = {l \in leaveDays : l[1] \in InScopeOf(k.units)}
    /\ k.at \notin {"leave", "manual"} => k.manual = ManualShifts(k.units, k.filter)
    /\ k.at = "replace" => k.stale = MachineShifts(LocIds(k), k.units)

\* Every solve knows what it needs, and where calls come one at a time it is
\* alone and what it has read is still so.
GrafikInv ==
    /\ solve = [c \in GrafikCalls |-> solve[c]]
    /\ \A c \in GrafikCalls : solve[c] = NoSolve \/ SolveKnows(solve[c])
    /\ grafikOverlap \in BOOLEAN
    /\ ~grafikOverlap =>
         /\ \A b, c \in GrafikCalls : solve[b] # NoSolve /\ solve[c] # NoSolve => b = c
         /\ \A c \in GrafikCalls : solve[c] # NoSolve => StillSo(solve[c])
=============================================================================
