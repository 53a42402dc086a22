--------------------------- MODULE StrategicBrain ---------------------------
(***************************************************************************)
(* The nightly analysis of one tenant (apps/tenant-runtime/src/            *)
(* strategic-brain): a snapshot of every employee for the current window,  *)
(* their trend over the windows before it, and a recruitment verdict per   *)
(* location, appended to a chain of immutable events.                      *)
(*                                                                         *)
(* Several instances of the application run the same schedule.  A pass is  *)
(* one READ COMMITTED transaction under an advisory lock: its writes stay  *)
(* in its draft until it commits, while each of its statements reads what  *)
(* others have committed by then.  The length of a window is fixed; time   *)
(* is counted in windows.                                                  *)
(***************************************************************************)
EXTENDS Scoring

CONSTANTS
    People, PeerKey,   \* employees, with their position, unit and etat
    HiredAt,           \* window an employee was hired in
    Teams,             \* what the employees may have done in a window
    Places, Staffings, \* locations; what the plan of a location may look like
    ConfigPatches,     \* bodies of PATCH /strategic-brain/config
    DefaultConfig,     \* the defaults of the schema
    ConfigKeys,        \* "DEFAULT" and the units that may have a row of their own
    Passes,            \* runs of the scheduler that may overlap
    ConfigCalls,       \* configuration requests that may overlap
    MaxWindow,         \* bound: windows
    BrainBudgets       \* bounds: windows after the first, passes and requests started

WeightFields == {"performance", "timeliness", "quality", "development"}

\* validateWeightSum: all four weights or none, and they sum to 1.
WeightsWhole(p) ==
    WeightFields \cap DOMAIN p # {} =>
        /\ WeightFields \subseteq DOMAIN p
        /\ p.performance + p.timeliness + p.quality + p.development = 100

ASSUME BrainAssumption ==
    /\ MaxWindow \in Nat
    /\ "DEFAULT" \in ConfigKeys
    /\ WeightFields \subseteq DOMAIN DefaultConfig
    /\ WeightsWhole(DefaultConfig)
    /\ {"minWindows", "minDays"} \subseteq DOMAIN DefaultConfig
    /\ DefaultConfig.minWindows \in Nat /\ DefaultConfig.minDays \in Nat
    /\ \A p \in ConfigPatches :
         /\ DOMAIN p \subseteq DOMAIN DefaultConfig
         /\ "minWindows" \in DOMAIN p => p.minWindows \in Nat
         /\ "minDays" \in DOMAIN p => p.minDays \in Nat
    /\ \A e \in People : HiredAt[e] \in Int /\ \A team \in Teams : team[e].done \in Nat
    /\ BrainBudgets \subseteq [windows : 0..MaxWindow, passes : Nat, patches : Nat]

VARIABLES
    window,     \* the current window
    work,       \* what employee e did in window w
    staffing,   \* the plan of a location, per role
    perfConfig, \* performance_config rows
    snapshot,   \* employee_performance_snapshot rows
    reco,       \* recruitment_recommendation rows, oldest first
    acked,      \* rows of reco with acknowledged_by_user_id
    pass,       \* locals of the passes
    patching,   \* locals of the configuration requests
    brainLeft   \* what the bounds still allow

brainVars == <<window, work, staffing, perfConfig, snapshot, reco, acked, pass, patching, brainLeft>>

NoRow == [none |-> TRUE]
NoPass == [at |-> "idle", win |-> 0, people |-> {}, places |-> {}, draft |-> <<>>, emitted |-> <<>>]
NoPatch == [at |-> "idle", patch |-> <<>>]
Windows == 0..MaxWindow
Idle == [done |-> 0, hits |-> 0, complaints |-> 0, leave |-> "none"]

BrainInit ==
    /\ window = 0
    /\ work = [w \in Windows |-> [e \in People |-> Idle]]
    /\ staffing = [l \in Places |-> CHOOSE s \in Staffings : TRUE]
    /\ perfConfig = [k \in ConfigKeys |-> NoRow]
    /\ snapshot = [k \in People \X Windows |-> NoRow]
    /\ reco = <<>>
    /\ acked = {}
    /\ pass = [p \in Passes |-> NoPass]
    /\ patching = [c \in ConfigCalls |-> NoPatch]
    /\ brainLeft \in BrainBudgets

dataVars == <<window, work, staffing>>
configVars == <<perfConfig, patching>>
resultVars == <<snapshot, reco>>

Spend(what) == brainLeft[what] > 0 /\ brainLeft' = [brainLeft EXCEPT ![what] = @ - 1]

-----------------------------------------------------------------------------
(* The tenant's operation, as the analysis finds it in the database *)

NextWindow ==
    /\ Spend("windows")
    /\ window' = window + 1
    /\ UNCHANGED <<work, staffing, configVars, resultVars, acked, pass>>

Operate(team) ==
    /\ work[window] = [e \in People |-> Idle]
    /\ work' = [work EXCEPT ![window] = team]
    /\ UNCHANGED <<window, staffing, configVars, resultVars, acked, pass, brainLeft>>

Replan(l, s) ==
    /\ staffing[l] # s
    /\ staffing' = [staffing EXCEPT ![l] = s]
    /\ UNCHANGED <<window, work, configVars, resultVars, acked, pass, brainLeft>>

-----------------------------------------------------------------------------
(* PerformanceConfigService *)

\* getEffectiveConfig: the unit's row, the default row, the schema's defaults.
EffectiveConfig(k) ==
    IF k \in ConfigKeys /\ perfConfig[k] # NoRow THEN perfConfig[k]
    ELSE IF perfConfig["DEFAULT"] # NoRow THEN perfConfig["DEFAULT"]
    ELSE DefaultConfig

Override(f, g) == [x \in DOMAIN f |-> IF x \in DOMAIN g THEN g[x] ELSE f[x]]

\* upsertConfig of a unit: one upsert.
PatchUnit(k, p) ==
    /\ k # "DEFAULT"
    /\ WeightsWhole(p)
    /\ Spend("patches")
    /\ perfConfig' = [perfConfig EXCEPT ![k] = Override(IF @ = NoRow THEN DefaultConfig ELSE @, p)]
    /\ UNCHANGED <<dataVars, patching, resultVars, acked, pass>>

\* upsertConfig of the default row: find it first ...
PatchDefault(c, p) ==
    /\ patching[c].at = "idle"
    /\ WeightsWhole(p)
    /\ Spend("patches")
    /\ patching' = [patching EXCEPT ![c] =
                      [at |-> IF perfConfig["DEFAULT"] = NoRow THEN "create" ELSE "update", patch |-> p]]
    /\ UNCHANGED <<dataVars, perfConfig, resultVars, acked, pass>>

\* ... then create it; perf_config_default_unique turns the loser of two first
\* writes into an update.
CreateDefault(c) ==
    /\ patching[c].at = "create"
    /\ IF perfConfig["DEFAULT"] = NoRow
       THEN /\ perfConfig' = [perfConfig EXCEPT !["DEFAULT"] = Override(DefaultConfig, patching[c].patch)]
            /\ patching' = [patching EXCEPT ![c] = NoPatch]
       ELSE /\ patching' = [patching EXCEPT ![c].at = "update"]
            /\ UNCHANGED perfConfig
    /\ UNCHANGED <<dataVars, resultVars, acked, pass, brainLeft>>

UpdateDefault(c) ==
    /\ patching[c].at = "update"
    /\ perfConfig' = [perfConfig EXCEPT !["DEFAULT"] = Override(@, patching[c].patch)]
    /\ patching' = [patching EXCEPT ![c] = NoPatch]
    /\ UNCHANGED <<dataVars, resultVars, acked, pass, brainLeft>>

-----------------------------------------------------------------------------
(* StrategicBrainScheduler: run, runForTenant, analyzeTenant *)

\* As TryLock, but a pass never finds the lock taken.
TryLockAlways == TRUE
\* pg_try_advisory_xact_lock: the pass goes ahead, or skips the tenant.
TryLock == \A p \in Passes : pass[p].at = "idle"

Begin(p) ==
    /\ pass[p].at = "idle"
    /\ Spend("passes")
    /\ pass' = IF TryLock
               THEN [pass EXCEPT ![p] = [NoPass EXCEPT !.at = "compute", !.win = window,
                                                       !.people = People, !.places = Places]]
               ELSE pass
    /\ UNCHANGED <<dataVars, configVars, resultVars, acked>>

\* What a statement of pass p reads: its own writes over the committed rows.
View(p) == Override(snapshot, pass[p].draft)

\* mapLeaveTypeToExclusion: sick leave and vacation take a window out of the
\* trend, any other kind of leave does not.
LeaveExcludes(type) == type \in {"L4", "URLOP"}

\* deriveExclusion: an approved leave, then the time of onboarding.
Excluded(e, w, l, minDays) == LeaveExcludes(l.leave) \/ (w < HiredAt[e] + minDays /\ w + 1 > HiredAt[e])

Tenure(e, w) == IF w + 1 > HiredAt[e] THEN w + 1 - HiredAt[e] ELSE 0

\* computeSnapshot's row, with the config of the employee's unit; the dimensions
\* that need the other employees or windows are left for finalizeWindow.
SnapshotOf(e, w, cfg) ==
    LET l == work[w][e]
        timeliness == Timeliness(l.hits, l.done)
        quality == Quality(l.complaints, l.done)
    IN  [done       |-> l.done,
         timeliness |-> timeliness,
         quality    |-> quality,
         composite  |-> CompositeScore([performance |-> Null, timeliness |-> timeliness,
                                        quality |-> quality, development |-> Null], cfg),
         slope      |-> Null,
         confidence |-> Confidence(l.done, Tenure(e, w), cfg.minDays),
         excluded   |-> Excluded(e, w, l, cfg.minDays),
         configHash |-> cfg]

Put(f, k, x) == [y \in DOMAIN f \cup {k} |-> IF y = k THEN x ELSE f[y]]

\* As Upserted, but an update leaves the confidence of the row alone.
UpsertedKeepsConfidence(old, new) ==
    IF old = NoRow THEN new ELSE [new EXCEPT !.confidence = old.confidence]

\* The row the upsert leaves: every column is written again.
Upserted(old, new) == new

ComputeSnapshot(p, e) ==
    LET k == <<e, pass[p].win>> IN
    /\ pass[p].at = "compute"
    /\ e \in pass[p].people
    /\ pass' = [pass EXCEPT
         ![p].people = @ \ {e},
         ![p].draft = Put(@, k, Upserted(View(p)[k], SnapshotOf(e, pass[p].win, EffectiveConfig(PeerKey[e].unit)))),
         ![p].at = IF pass[p].people = {e} THEN "finalize" ELSE @]
    /\ UNCHANGED <<dataVars, configVars, resultVars, acked, brainLeft>>

\* A stored row that is part of the trend: neither leave nor onboarding, and a score.
Counted(r) == r # NoRow /\ ~r.excluded /\ r.composite # Null

\* The composites of e's counted windows before w, oldest first.
PriorPoints(rows, e, w) ==
    LET before[v \in 0..w] ==
          IF v = 0 THEN <<>>
          ELSE IF Counted(rows[<<e, v - 1>>])
               THEN Append(before[v - 1], The(rows[<<e, v - 1>>].composite))
               ELSE before[v - 1]
    IN  before[w]

\* finalizeWindow for one row of the window, given all the rows.
Finalized(rows, e, w, cfg) ==
    LET row == rows[<<e, w>>]
        current == {x \in People : rows[<<x, w>>] # NoRow}
        ladder == Ladder(e, current, PeerKey)
        level == Level(ladder, cfg.minPeers)
        performance == {Percentile(row.done, ladder[level], [x \in current |-> rows[<<x, w>>].done])}
        Dims(development) == [performance |-> performance, timeliness |-> row.timeliness,
                              quality |-> row.quality, development |-> development]
        provisional == CompositeScore(Dims(Null), cfg)
        series == PriorPoints(rows, e, w)
                    \o IF row.excluded \/ provisional = Null THEN <<>> ELSE <<The(provisional)>>
        slope == DevelopmentSlope(series, cfg.minWindows)
        development == IF slope = Null THEN Null ELSE {DevelopmentScore(The(slope), cfg.minSlope)}
    IN  [row EXCEPT !.composite = CompositeScore(Dims(development), cfg),
                    !.slope = slope,
                    !.confidence = Penalised(@, level > 1, Cardinality(ladder[level]) >= cfg.minPeers)]

\* finalizeWindow, under the default config; emitRetention reads and returns.
FinalizeWindow(p) ==
    /\ pass[p].at = "finalize"
    /\ LET w == pass[p].win
           rows == View(p)
       IN  pass' = [pass EXCEPT
             ![p].draft = [k \in {<<e, w>> : e \in {x \in People : rows[<<x, w>>] # NoRow}} |->
                             Finalized(rows, k[1], w, EffectiveConfig("DEFAULT"))],
             ![p].at = "recruit"]
    /\ UNCHANGED <<dataVars, configVars, resultVars, acked, brainLeft>>

\* capacityGap: a surplus in one role hides a shortage in another.
CapacityGap(l) == MapThenSumSet(LAMBDA r : staffing[l][r].required - staffing[l][r].assigned,
                                DOMAIN staffing[l])

Average(f, S) == Nearest(MapThenSumSet(LAMBDA k : The(f[k]), S), Cardinality(S))

\* The verdict of emitRecruitment with its material factors.
Verdict(l, rows, cfg) ==
    LET counted == {k \in DOMAIN rows : rows[k] # NoRow /\ ~rows[k].excluded /\ rows[k].quality # Null}
        gap == CapacityGap(l)
        defects == counted # {} /\ Whole - Average([k \in counted |-> rows[k].quality], counted) > cfg.defects * 100
        late == counted # {} /\ Average([k \in counted |-> rows[k].timeliness], counted) < 8000
    IN  [place |-> l, gap |-> gap, defects |-> defects, late |-> late,
         verdict |-> IF gap > 0 THEN "WZNOW" ELSE IF defects \/ late THEN "UTRZYMAJ" ELSE "WSTRZYMAJ"]

\* currentRecommendation: the newest event of the location, 0 when there is none.
HeadOf(l) == Max({i \in DOMAIN reco : reco[i].event.place = l} \cup {0})

\* emitRecruitment: no event when verdict and material factors are those of the head.
EmitRecruitment(p, l) ==
    LET new == Verdict(l, View(p), EffectiveConfig("DEFAULT"))
        head == HeadOf(l)
        unchanged == head # 0 /\ reco[head].event = new
    IN
    /\ pass[p].at = "recruit"
    /\ l \in pass[p].places
    /\ pass' = [pass EXCEPT
         ![p].places = @ \ {l},
         ![p].emitted = IF unchanged THEN @ ELSE Append(@, [event |-> new, replaces |-> head]),
         ![p].at = IF pass[p].places = {l} THEN "commit" ELSE @]
    /\ UNCHANGED <<dataVars, configVars, resultVars, acked, brainLeft>>

Commit(p) ==
    /\ pass[p].at = "commit"
    /\ snapshot' = View(p)
    /\ reco' = reco \o pass[p].emitted
    /\ pass' = [pass EXCEPT ![p] = NoPass]
    /\ UNCHANGED <<dataVars, configVars, acked, brainLeft>>

\* A statement fails, or the process dies: nothing of the pass remains, and run
\* goes on with the next tenant.
Abort(p) ==
    /\ pass[p].at # "idle"
    /\ pass' = [pass EXCEPT ![p] = NoPass]
    /\ UNCHANGED <<dataVars, configVars, resultVars, acked, brainLeft>>

\* acknowledge: stamps the row whatever its place in the chain.
Acknowledge(i) ==
    /\ i \in DOMAIN reco \ acked
    /\ acked' = acked \cup {i}
    /\ UNCHANGED <<dataVars, configVars, resultVars, pass, brainLeft>>

BrainNext ==
    \/ NextWindow
    \/ \E team \in Teams : Operate(team)
    \/ \E l \in Places, s \in Staffings : Replan(l, s)
    \/ \E k \in ConfigKeys, p \in ConfigPatches : PatchUnit(k, p)
    \/ \E c \in ConfigCalls : (\E p \in ConfigPatches : PatchDefault(c, p)) \/ CreateDefault(c) \/ UpdateDefault(c)
    \/ \E p \in Passes :
         \/ Begin(p) \/ FinalizeWindow(p) \/ Commit(p) \/ Abort(p)
         \/ \E e \in People : ComputeSnapshot(p, e)
         \/ \E l \in Places : EmitRecruitment(p, l)
    \/ \E i \in DOMAIN reco : Acknowledge(i)

BrainSpec == BrainInit /\ [][BrainNext]_brainVars

-----------------------------------------------------------------------------
(* Correctness *)

Stages == {"idle", "compute", "finalize", "recruit", "commit"}

BrainShape ==
    /\ brainLeft \in [windows : Nat, passes : Nat, patches : Nat]
    /\ window \in Nat /\ window + brainLeft.windows <= MaxWindow
    /\ DOMAIN snapshot = People \X Windows
    /\ \A i \in DOMAIN reco : reco[i].replaces \in 0..(i - 1)
    /\ DOMAIN pass = Passes
    /\ \A p \in Passes : /\ pass[p] = [f \in DOMAIN NoPass |-> pass[p][f]]
                         /\ pass[p].at \in Stages /\ pass[p].win \in Windows
                         /\ pass[p].people \subseteq People /\ pass[p].places \subseteq Places

BrainTypeOK ==
    /\ BrainShape
    /\ \A k \in ConfigKeys : perfConfig[k] # NoRow => WeightsWhole(perfConfig[k])
    /\ \A k \in DOMAIN snapshot : snapshot[k] # NoRow => snapshot[k].confidence \in 0..Whole
    /\ acked \subseteq DOMAIN reco

(* The recommendations of a location form one line: an event replaces the  *)
(* event before it and differs from it in verdict or material factors,     *)
(* however many instances run the schedule at the same time                *)
(* (emitRecruitment under the advisory lock of runForTenant).              *)
LinearHistory ==
    \A i \in DOMAIN reco :
        /\ reco[i].replaces = Max({j \in 1..(i - 1) : reco[j].event.place = reco[i].event.place} \cup {0})
        /\ reco[i].replaces # 0 => reco[reco[i].replaces].event # reco[i].event

(* A window analysed again is not penalised again: the confidence of a     *)
(* stored row is that of its sample and tenure under the config it was     *)
(* computed with, less at most one fallback and one group-size penalty     *)
(* (computeSnapshot rewrites what finalizeWindow scaled).                  *)
BaseOf(k, row) == Confidence(row.done, Tenure(k[1], k[2]), row.configHash.minDays)
PenalisedRow(k, row) ==
    \E fellBack, meaningful \in BOOLEAN : row.confidence = Penalised(BaseOf(k, row), fellBack, meaningful)

PenalisedOnce == \A k \in DOMAIN snapshot : snapshot[k] # NoRow => PenalisedRow(k, snapshot[k])

\* buildCard and overview: the newest stored row of an employee.
Latest(e) == Max({w \in Windows : snapshot[<<e, w>>] # NoRow} \cup {-1})

MinWindowsAsked == {DefaultConfig.minWindows} \cup
                   {p.minWindows : p \in {q \in ConfigPatches : "minWindows" \in DOMAIN q}}
FewestWindows == Min(MinWindowsAsked)

\* emitRetention: the signal of everybody with a row in the window.
EmitRetention(w) ==
    [e \in {p \in People : snapshot[<<p, w>>] # NoRow} |->
        LET row == snapshot[<<e, w>>]
        IN  RetentionSignal(row.composite, row.slope, row.confidence, EffectiveConfig("DEFAULT").minSlope)]

(* Nobody is reported as a risk on too little history: when an employee's  *)
(* card or the feed of a window says RYZYKO, at least as many windows with *)
(* a score and without leave or onboarding are stored as any config ever   *)
(* asked for (retentionSignal's null slope, developmentSlope,              *)
(* deriveExclusion).                                                       *)
RiskIsKnown ==
    \A e \in People :
        LET known(w) == {v \in 0..w : Counted(snapshot[<<e, v>>])}
            feeds == {w \in Windows : e \in DOMAIN EmitRetention(w)}
        IN  \A w \in feeds \cup ({Latest(e)} \ {-1}) :
               EmitRetention(w)[e] = "RYZYKO" => Cardinality(known(w)) >= FewestWindows

(* A stored row claims no more than was measured: neither its confidence   *)
(* nor the signal read from it (computeSnapshot, finalizeWindow,           *)
(* retentionSignal).                                                       *)
RowsHonest == PenalisedOnce /\ RiskIsKnown

\* The advisory lock.
OnePass == \A p, q \in Passes : pass[p].at # "idle" /\ pass[q].at # "idle" => p = q

\* What a pass with locals k is about to append continues the line of each location.
Continues(k) ==
    \A i \in DOMAIN k.emitted :
        LET new == k.emitted[i]
        IN  /\ new.event.place \notin k.places
            /\ \A j \in DOMAIN k.emitted : k.emitted[j].event.place = new.event.place => i = j
            /\ new.replaces = HeadOf(new.event.place)
            /\ new.replaces # 0 => reco[new.replaces].event # new.event

\* Why LinearHistory holds.
HistoryInv ==
    /\ OnePass
    /\ \A p \in Passes : pass[p].at # "idle" => Continues(pass[p])
    /\ LinearHistory

\* finalizeWindow scales rows that computeSnapshot has just written, every row
\* of the window among them.
Drafted(k) ==
    /\ k.at \in {"compute", "finalize"} =>
          /\ \A x \in DOMAIN k.draft : /\ {"done", "confidence", "configHash"} \subseteq DOMAIN k.draft[x]
                                       /\ k.draft[x].confidence = BaseOf(x, k.draft[x])
          /\ \A e \in People : e \notin k.people => <<e, k.win>> \in DOMAIN k.draft
    /\ k.at = "finalize" => k.people = {}
    /\ k.at \in {"recruit", "commit"} => \A x \in DOMAIN k.draft : PenalisedRow(x, k.draft[x])

\* Why PenalisedOnce holds.
DraftInv == PenalisedOnce /\ \A p \in Passes : Drafted(pass[p])

\* What a signal read from the row of e and w rests on.
Supported(rows, e, w) ==
    LET row == rows[<<e, w>>] IN
    (row # NoRow /\ row.composite # Null /\ row.slope # Null)
      => Cardinality({v \in 0..w : Counted(rows[<<e, v>>])}) >= FewestWindows

IsRow(r) == {"composite", "slope", "excluded"} \subseteq DOMAIN r

\* Every config asks for a number of windows that is known of.
ConfigsInv ==
    /\ DOMAIN perfConfig = ConfigKeys /\ DOMAIN patching = ConfigCalls
    /\ \A k \in ConfigKeys : perfConfig[k] # NoRow =>
         /\ DOMAIN perfConfig[k] = DOMAIN DefaultConfig
         /\ perfConfig[k].minWindows \in MinWindowsAsked
    /\ \A c \in ConfigCalls :
         /\ patching[c] = [at |-> patching[c].at, patch |-> patching[c].patch]
         /\ patching[c].at # "idle" => patching[c].patch \in ConfigPatches
         /\ patching[c].at = "update" => perfConfig["DEFAULT"] # NoRow

\* A pass with locals k writes the newest window there is.
WritesNewest(k) ==
    /\ k.win <= window
    /\ DOMAIN k.draft \subseteq People \X {k.win}
    /\ \A x \in DOMAIN k.draft : IsRow(k.draft[x])
    /\ \A x \in DOMAIN snapshot : snapshot[x] # NoRow => x[2] <= k.win
    /\ k.at \in {"recruit", "commit"} => \A e \in People : Supported(Override(snapshot, k.draft), e, k.win)

\* Why RiskIsKnown holds: what a row was computed from is not changed after it.
RiskInv ==
    /\ ConfigsInv
    /\ \A x \in DOMAIN snapshot : snapshot[x] # NoRow => x[2] <= window /\ IsRow(snapshot[x])
    /\ \A e \in People, w \in Windows : Supported(snapshot, e, w)
    /\ \A p \in Passes : pass[p].at # "idle" => WritesNewest(pass[p])

-----------------------------------------------------------------------------
WholeConfig(f) == DOMAIN f = DOMAIN DefaultConfig /\ WeightsWhole(f) /\ f.minDays \in Nat
Measured(r) == {"done", "configHash"} \subseteq DOMAIN r /\ r.done \in Nat /\ r.configHash.minDays \in Nat

\* Why BrainTypeOK holds: what is configured, done and stored keeps its bounds.
MeasuredInv ==
    /\ \A k \in ConfigKeys : perfConfig[k] # NoRow => WholeConfig(perfConfig[k])
    /\ \A c \in ConfigCalls : patching[c].at # "idle" => WeightsWhole(patching[c].patch)
    /\ DOMAIN work = Windows /\ \A w \in Windows, e \in People : work[w][e].done \in Nat
    /\ \A k \in DOMAIN snapshot : snapshot[k] # NoRow => Measured(snapshot[k])
    /\ \A p \in Passes : \A k \in DOMAIN pass[p].draft : Measured(pass[p].draft[k])
    /\ acked \subseteq DOMAIN reco
=============================================================================
