------------------------------- MODULE Costs -------------------------------
(***************************************************************************)
(* Labour cost of the week and its budget (tenant-runtime/cost), and the   *)
(* AI-scheduling configuration that carries the budget cap                 *)
(* (ai-grafik/ai-config.service.ts).  A rate belongs to a position and     *)
(* employment type, here a grade; shifts are given by their hours.         *)
(***************************************************************************)
EXTENDS Integers, FiniteSets, FiniteSetsExt

CONSTANTS
    Grades,        \* normalized position with employment type
    Rota,          \* shifts that may be planned: [id, unit, grade, hours]
    Rates,         \* bodies of PATCH /koszty/rates: [hourly, currency]
    CapUnits,      \* units with a configuration row of their own
    Caps,          \* weekly caps; NoCap when the field is cleared
    NoCap,         \* SQL NULL
    CapCalls,      \* configuration requests that may overlap
    MaxCostSteps   \* bound: requests started

ASSUME CostsAssumption ==
    /\ NoCap \notin Int
    /\ \A s \in Rota : s.grade \in Grades /\ s.hours \in Nat
    /\ \A r \in Rates : r.hourly \in Nat
    /\ Caps \subseteq Nat \cup {NoCap}
    /\ MaxCostSteps \in Nat

VARIABLES
    planned,       \* shift rows of the week
    rate,          \* position_cost_rate rows: a set with at most one rate per grade
    capRow,        \* ai_scheduling_config rows: {} or the cap, per unit and "ALL"
    capCall,       \* locals of the configuration requests
    budget,        \* locals, then answer, of GET /koszty/budget
    costSteps      \* requests started

costVars == <<planned, rate, capRow, capCall, budget, costSteps>>

NoCapCall == [at |-> "idle", cap |-> NoCap]
NoBudget == [at |-> "idle", unit |-> "ALL", week |-> {}, verdict |-> "UNKNOWN"]

CostInit ==
    /\ planned = {}
    /\ rate = [g \in Grades |-> {}]
    /\ capRow = [u \in CapUnits \cup {"ALL"} |-> {}]
    /\ capCall = [c \in CapCalls |-> NoCapCall]
    /\ budget = NoBudget
    /\ costSteps = 0

CostStep == costSteps < MaxCostSteps /\ costSteps' = costSteps + 1

Plan(s) ==
    /\ CostStep
    /\ s \notin planned
    /\ planned' = planned \cup {s}
    /\ UNCHANGED <<rate, capRow, capCall, budget>>

\* upsertRate, by HR or an administrator
UpsertRate(g, r) ==
    /\ CostStep
    /\ rate' = [rate EXCEPT ![g] = {r}]
    /\ UNCHANGED <<planned, capRow, capCall, budget>>

-----------------------------------------------------------------------------
(* AiConfigService.upsertConfig *)

UpsertUnitCap(u, cap) ==
    /\ CostStep
    /\ capRow' = [capRow EXCEPT ![u] = {cap}]
    /\ UNCHANGED <<planned, rate, capCall, budget>>

\* The tenant-wide row: find, then update or create; a create that loses
\* against ai_config_single_default becomes an update.
FindDefaultCap(c, cap) ==
    /\ capCall[c].at = "idle"
    /\ CostStep
    /\ capCall' = [capCall EXCEPT ![c] =
                     [at |-> IF capRow["ALL"] = {} THEN "create" ELSE "update", cap |-> cap]]
    /\ UNCHANGED <<planned, rate, capRow, budget>>

\* As CreateDefaultCap, but without the unique index.
CreateDefaultCapTwice(c) ==
    /\ capCall[c].at = "create"
    /\ capRow' = [capRow EXCEPT !["ALL"] = @ \cup {capCall[c].cap}]
    /\ capCall' = [capCall EXCEPT ![c] = NoCapCall]
    /\ UNCHANGED <<planned, rate, budget, costSteps>>

CreateDefaultCap(c) ==
    /\ capCall[c].at = "create"
    /\ \/ /\ capRow["ALL"] = {}
          /\ capRow' = [capRow EXCEPT !["ALL"] = {capCall[c].cap}]
          /\ capCall' = [capCall EXCEPT ![c] = NoCapCall]
       \/ /\ capRow["ALL"] # {}
          /\ capCall' = [capCall EXCEPT ![c].at = "update"]
          /\ UNCHANGED capRow
    /\ UNCHANGED <<planned, rate, budget, costSteps>>

UpdateDefaultCap(c) ==
    /\ capCall[c].at = "update"
    /\ capRow' = [capRow EXCEPT !["ALL"] = {capCall[c].cap}]
    /\ capCall' = [capCall EXCEPT ![c] = NoCapCall]
    /\ UNCHANGED <<planned, rate, budget, costSteps>>

\* getEffectiveBudgetCap: the unit's cap, else the tenant's, else none.
EffectiveCap(u) ==
    LET set == {x \in {u, "ALL"} : capRow[x] \ {NoCap} # {}}
    IN  IF set = {} THEN NoCap
        ELSE CHOOSE c \in capRow[IF u \in set THEN u ELSE "ALL"] : TRUE

-----------------------------------------------------------------------------
(* CostService.weekCost, budgetStatus *)

Week(u) == {s \in planned : u \in {"ALL", s.unit}}

Priced(week, rates) == {s \in week : rates[s.grade] # {}}
RateOf(rates, g) == CHOOSE r \in rates[g] : TRUE

\* shiftCost, summed over the shifts that have a rate.
KnownCost(week, rates) ==
    MapThenSumSet(LAMBDA s : s.hours * RateOf(rates, s.grade).hourly, Priced(week, rates))

CurrencyConflict(week, rates) ==
    Cardinality({RateOf(rates, s.grade).currency : s \in Priced(week, rates)}) > 1

\* As BudgetVerdict, but a shift without a rate costs nothing.
BudgetVerdictPhantom(week, cap) ==
    IF week.conflict THEN "UNKNOWN"
    ELSE IF cap # NoCap /\ week.cost > cap THEN "OVER" ELSE "WITHIN"

\* overBudget: true, false or null
BudgetVerdict(week, cap) ==
    IF week.conflict THEN "UNKNOWN"
    ELSE IF cap # NoCap /\ week.cost > cap THEN "OVER"
    ELSE IF week.missing THEN "UNKNOWN" ELSE "WITHIN"

\* weekCost: the shifts, then their rates, in two statements ...
ReadWeek(u) ==
    /\ budget.at # "rates" /\ budget.at # "cap"
    /\ CostStep
    /\ budget' = [NoBudget EXCEPT !.at = "rates", !.unit = u, !.week = Week(u)]
    /\ UNCHANGED <<planned, rate, capRow, capCall>>

ReadRates ==
    /\ budget.at = "rates"
    /\ budget' = [at |-> "cap", unit |-> budget.unit, verdict |-> "UNKNOWN", week |->
                    [shifts |-> budget.week, rates |-> rate,
                     cost |-> KnownCost(budget.week, rate),
                     missing |-> Priced(budget.week, rate) # budget.week,
                     conflict |-> CurrencyConflict(budget.week, rate)]]
    /\ UNCHANGED <<planned, rate, capRow, capCall, costSteps>>

\* ... then the cap.
ReadCap ==
    /\ budget.at = "cap"
    /\ budget' = [budget EXCEPT !.at = "done",
                                !.verdict = BudgetVerdict(budget.week, EffectiveCap(budget.unit))]
    /\ UNCHANGED <<planned, rate, capRow, capCall, costSteps>>

CostNext ==
    \/ \E s \in Rota : Plan(s)
    \/ \E g \in Grades, r \in Rates : UpsertRate(g, r)
    \/ \E u \in CapUnits, cap \in Caps : UpsertUnitCap(u, cap)
    \/ \E c \in CapCalls : (\E cap \in Caps : FindDefaultCap(c, cap)) \/ CreateDefaultCap(c) \/ UpdateDefaultCap(c)
    \/ \E u \in CapUnits \cup {"ALL"} : ReadWeek(u)
    \/ ReadRates \/ ReadCap

CostSpec == CostInit /\ [][CostNext]_costVars

-----------------------------------------------------------------------------
(* Correctness *)

CostTypeOK ==
    /\ planned \subseteq Rota
    /\ \A g \in Grades : rate[g] \subseteq Rates /\ Cardinality(rate[g]) <= 1
    /\ \A u \in DOMAIN capRow : capRow[u] \subseteq Caps /\ Cardinality(capRow[u]) <= 1
    /\ budget.verdict \in {"OVER", "WITHIN", "UNKNOWN"}

\* A row of a unique index: there is none, or it is one of T.
AtMostOne(S, T) == S = {} \/ \E x \in T : S = {x}

AreRates(rates) == DOMAIN rates = Grades /\ \A g \in Grades : AtMostOne(rates[g], Rates)

\* Why BudgetHonest holds: what the report still has to compare is the cost of
\* the shifts and the rates that were read for it.
CostInv ==
    /\ planned \subseteq Rota /\ IsFiniteSet(planned)
    /\ AreRates(rate)
    /\ DOMAIN capRow = CapUnits \cup {"ALL"} /\ \A u \in DOMAIN capRow : AtMostOne(capRow[u], Caps)
    /\ DOMAIN capCall = CapCalls
    /\ \A c \in CapCalls : capCall[c] = [at |-> capCall[c].at, cap |-> capCall[c].cap]
                           /\ (capCall[c].at # "idle" => capCall[c].cap \in Caps)
    /\ budget.unit \in CapUnits \cup {"ALL"}
    /\ budget.at = "rates" => budget.week \subseteq Rota /\ IsFiniteSet(budget.week)
    /\ budget.at = "cap" =>
         LET week == budget.week IN
         /\ week.shifts \subseteq Rota /\ IsFiniteSet(week.shifts) /\ AreRates(week.rates)
         /\ week.cost = KnownCost(week.shifts, week.rates)
         /\ week.missing <=> Priced(week.shifts, week.rates) # week.shifts

\* Rates for every grade that agree with the ones that are set.
Completions(rates) ==
    {f \in [Grades -> Rates] : \A g \in Grades : rates[g] # {} => f[g] \in rates[g]}

CostUnder(week, f) == MapThenSumSet(LAMBDA s : s.hours * f[s.grade].hourly, week)

(* "Budget OK must NOT be asserted while any rate is missing": a budget    *)
(* reported as kept is kept, and one reported as exceeded is exceeded,     *)
(* whatever rates are entered later for the grades that have none, when    *)
(* plan and rates did not change while the report was made (budgetStatus,  *)
(* weekCost, getEffectiveBudgetCap).                                       *)
BudgetHonest ==
    [][ReadCap /\ budget.week.shifts = Week(budget.unit) /\ budget.week.rates = rate =>
         LET u == budget.unit
             caps == IF u # "ALL" /\ capRow[u] \ {NoCap} # {} THEN capRow[u] ELSE capRow["ALL"]
         IN  /\ budget'.verdict = "WITHIN" =>
                  \A f \in Completions(rate), cap \in caps \ {NoCap} : CostUnder(Week(u), f) <= cap
             /\ budget'.verdict = "OVER" =>
                  \A f \in Completions(rate) : \E cap \in caps \ {NoCap} : CostUnder(Week(u), f) > cap]_costVars
=============================================================================
