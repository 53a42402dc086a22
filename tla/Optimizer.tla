----------------------------- MODULE Optimizer -----------------------------
(***************************************************************************)
(* The weekly staffing solver (grafik-optimizer/app).  CP-SAT is external: *)
(* what it returns is any assignment that satisfies the constraints the    *)
(* solver builds, the cheapest one when it reports OPTIMAL, and it may run *)
(* out of time.  Times are whole hours.                                    *)
(*                                                                         *)
(* A problem P has P.employees, P.demands (id -> [loc, day, start, end,    *)
(* role, count]) and, per employee, P.quals, P.leave, P.etat, P.prefs and  *)
(* P.minutes (the commute to a location).                                  *)
(***************************************************************************)
EXTENDS Integers, FiniteSets, FiniteSetsExt

DayHours == 24
DailyRest == 11
HorizonDays == 7
MinFreeDaysPerWeek == 2
H5FreeDayPenalty == 1
FullWeek == 40

\* _abs_window: an end at or before the start is on the next day.
AbsWindow(d) ==
    LET start == d.day * DayHours + d.start
        end   == d.day * DayHours + d.end
    IN [start |-> start, end |-> IF end <= start THEN end + DayHours ELSE end]

\* _conflict: less than eleven hours between the two, in either order.
Conflict(a, b) == b.start - a.end < DailyRest /\ a.start - b.end < DailyRest

Length(d) == AbsWindow(d).end - AbsWindow(d).start

\* _pref_violations: a preferred day off, a start that is not preferred.
PrefViolations(pref, d) ==
    (IF d.day \in pref.daysOff THEN 1 ELSE 0)
    + (IF pref.starts # {} /\ d.start \notin pref.starts THEN 1 ELSE 0)

\* H1 (qualification) and H3
EligibleFor(P, e, id) ==
    P.demands[id].role \in P.quals[e] /\ P.demands[id].day \notin P.leave[e]

EligiblePairs(P) ==
    {x \in P.employees \X DOMAIN P.demands : EligibleFor(P, x[1], x[2])}

Crew(x, id) == {a[1] : a \in {b \in x : b[2] = id}}
Duties(x, e) == {a[2] : a \in {b \in x : b[1] = e}}

\* H1 to H4 as _solve_phase builds them; relax_coverage leaves slots open.
HardConstraints(P, x, relax) ==
    /\ \A id \in DOMAIN P.demands :
        LET n == Cardinality(Crew(x, id)) IN
        IF relax THEN n <= P.demands[id].count ELSE n = P.demands[id].count
    /\ \A e \in P.employees : \A i, j \in Duties(x, e) :
        i = j \/ ~Conflict(AbsWindow(P.demands[i]), AbsWindow(P.demands[j]))

Schedules(P, relax) == {x \in SUBSET EligiblePairs(P) : HardConstraints(P, x, relax)}

Distance(a, b) == IF a < b THEN b - a ELSE a - b

\* The objective: deviation from the contract, commute, preferences and the
\* worked days that leave fewer than two free.
Objective(P, x) ==
    MapThenSumSet(LAMBDA e :
        LET worked == MapThenSumSet(LAMBDA id : Length(P.demands[id]), Duties(x, e))
            days   == Cardinality({P.demands[id].day : id \in Duties(x, e)})
        IN Distance(worked, P.etat[e] * FullWeek)
           + MapThenSumSet(LAMBDA id : P.minutes[e][P.demands[id].loc]
                                       + P.weight * PrefViolations(P.prefs[e], P.demands[id]),
                           Duties(x, e))
           + H5FreeDayPenalty * Max({0, days - (HorizonDays - MinFreeDaysPerWeek)}),
        P.employees)

Cheapest(P, S) == {x \in S : \A y \in S : Objective(P, x) <= Objective(P, y)}

\* _finish_phase of the relaxed phase: the slots left open.
Unmet(P, x) == {id \in DOMAIN P.demands : Cardinality(Crew(x, id)) < P.demands[id].count}

\* solve: what /solve may answer.  Out of time, either phase may have found
\* any schedule or none at all; the relaxed one has the empty schedule to find.
SolveResults(P) ==
    LET hard    == Schedules(P, FALSE)
        relaxed == Schedules(P, TRUE)
    IN  {[status |-> "OPTIMAL", assignments |-> x, unmet |-> {}] : x \in Cheapest(P, hard)}
        \cup {[status |-> "FEASIBLE", assignments |-> x, unmet |-> {}] : x \in hard}
        \cup {[status |-> "INFEASIBLE", assignments |-> x,
               unmet |-> IF Unmet(P, x) = {} THEN DOMAIN P.demands ELSE Unmet(P, x)] : x \in relaxed}
=============================================================================
