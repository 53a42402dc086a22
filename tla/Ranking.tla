------------------------------ MODULE Ranking ------------------------------
(***************************************************************************)
(* rankCandidatesForShift (ai-grafik/replacement.service.ts): who may take *)
(* over a vacated shift, and in which order.  A candidate is a number, the *)
(* order of employee ids.  The great-circle distance is given as travel    *)
(* minutes at the configured speed; times are in minutes, amounts in       *)
(* grosze.  The pool holds qualified employees other than the holder:      *)
(* what loadPool selects.                                                  *)
(***************************************************************************)
EXTENDS Integers, FiniteSets, FiniteSetsExt

DayMinutes == 1440
RequiredRest == 660          \* REQUIRED_REST_MINUTES
MaxTravel == 120             \* DEFAULT_TRAVEL_POLICY
KmRate == 115
RoundTrip == 2

\* windowMinutes: past midnight when the end is before the start; equal is 0.
WindowMinutes(start, end) == IF end < start THEN end - start + DayMinutes ELSE end - start

Begins(s) == s.day * DayMinutes + s.start
Ends(s) == Begins(s) + WindowMinutes(s.start, s.end)

\* isoWeekRange, with day 0 a Monday.
IsoWeek(day) == day \div 7

\* As CheckArrivalGap, but measured from the first shift that ends in time.
CheckArrivalGapFirst(shift, travel, held) ==
    LET before == {Ends(s) : s \in {x \in held : Ends(x) <= Begins(shift)}}
    IN  before = {} \/ Begins(shift) - (CHOOSE x \in before : \A y \in before : x <= y) >= RequiredRest + travel

\* checkArrivalGap: rest and travel fit after the last shift that ends in time.
CheckArrivalGap(shift, travel, held) ==
    LET before == {Ends(s) : s \in {x \in held : Ends(x) <= Begins(shift)}}
    IN  before = {} \/ Begins(shift) - Max(before) >= RequiredRest + travel

\* The candidate's shifts in the ISO week of the vacated one.
WeekShifts(shift, c) == {s \in c.shifts : IsoWeek(s.day) = IsoWeek(shift.day)}

\* vetCandidate: H1-H4 by the swap validator, H-TRAVEL for another unit; no
\* coordinates, no travel time.
Vetted(shift, c) ==
    /\ c.fits
    /\ c.local \/ /\ c.travel # {}
                  /\ \A t \in c.travel : t <= MaxTravel /\ CheckArrivalGap(shift, t, WeekShifts(shift, c))

\* travelCost of a there-and-back trip: 60 km/h make a minute a kilometre.
TravelCost(c) == IF c.local THEN 0 ELSE (CHOOSE t \in c.travel : TRUE) * RoundTrip * KmRate

\* computeWorkCostDeltas: nothing when a rate is missing or the currencies differ.
WorkCostDelta(shift, c) ==
    LET both == {p \in c.rate \X shift.rate : p[1].currency = p[2].currency}
    IN  IF both = {} THEN 0
        ELSE LET p == CHOOSE p \in both : TRUE
             IN  ((p[1].hourly - p[2].hourly) * WindowMinutes(shift.start, shift.end)) \div 60

TotalCost(shift, c) == WorkCostDelta(shift, c) + TravelCost(c)

\* Minutes already scheduled in the week, the first tie-break.
Hours(shift, c) == MapThenSumSet(LAMBDA s : WindowMinutes(s.start, s.end), WeekShifts(shift, c))

Preferred(shift, c) == IF shift.start \in c.prefers THEN 0 ELSE 1

\* Total cost, then hours, then the preferred start, then the id.
RankBefore(shift, pool, a, b) ==
    LET Key(x) == <<TotalCost(shift, pool[x]), Hours(shift, pool[x]), Preferred(shift, pool[x]), x>>
        first == CHOOSE i \in 1..4 : Key(a)[i] # Key(b)[i] /\ \A j \in 1..(i - 1) : Key(a)[j] = Key(b)[j]
    IN  a # b /\ Key(a)[first] < Key(b)[first]

\* rankCandidatesForShift: other units are asked only when nobody of the
\* shift's own unit fits.
Ranked(shift, pool) ==
    LET own  == {c \in DOMAIN pool : pool[c].local /\ Vetted(shift, pool[c])}
        away == {c \in DOMAIN pool : ~pool[c].local /\ Vetted(shift, pool[c])}
        asked == IF own # {} THEN own ELSE away
    IN  CHOOSE s \in [1..Cardinality(asked) -> asked] :
           \A i, j \in DOMAIN s : i < j => RankBefore(shift, pool, s[i], s[j])

-----------------------------------------------------------------------------
(* Reference *)

(* What the first candidate of a ranking promises: they can be at the site *)
(* eleven hours and a journey after every shift of that week that ends     *)
(* before, nobody of the shift's own unit is passed over for somebody from *)
(* another, and nobody behind them costs less (rankCandidatesForShift,     *)
(* checkArrivalGap).                                                       *)
RankingSound(shift, pool, answer) ==
    \A i \in DOMAIN answer :
        LET c == pool[answer[i]] IN
        /\ c.fits
        /\ c.local \/ ~\E d \in DOMAIN pool : pool[d].local /\ pool[d].fits
        /\ c.local \/ \E t \in c.travel : t <= MaxTravel /\
             \A s \in c.shifts : (IsoWeek(s.day) = IsoWeek(shift.day) /\ Ends(s) <= Begins(shift))
                => Ends(s) + RequiredRest + t <= Begins(shift)
        /\ \A j \in DOMAIN answer : i < j =>
             /\ answer[i] # answer[j]
             /\ TotalCost(shift, c) <= TotalCost(shift, pool[answer[j]])
=============================================================================
