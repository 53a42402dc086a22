------------------------- MODULE ReplacementsProofs -------------------------
(***************************************************************************)
(* Replacements for every tenant, every set of shifts, proposals, leave    *)
(* requests and concurrent calls: type correctness together with           *)
(* ReplacementInv, from which follow the soundness of consents, of         *)
(* approvals, of leave decisions and of the scans, and, for managers who   *)
(* do not decide one proposal at the same time, that the rows follow       *)
(* ProposalMachine.                                                        *)
(***************************************************************************)
EXTENDS Replacements, WellFoundedInduction, TLAPS

USE TenantAssumption, ProposalAssumption, LeaveAssumption

-----------------------------------------------------------------------------
(* The operators of the model                                              *)

\* A set of naturals has a least element.
LEMMA LeastExists ==
  ASSUME NEW T, T \subseteq Nat, T # {}
  PROVE  \E x \in T : \A y \in T : x <= y
  <1> DEFINE R == OpToRel(<, Nat)
  <1>1. IsWellFoundedOn(R, Nat)
    BY NatLessThanWellFounded
  <1> HIDE DEF R
  <1>2. PICK x \in T : \A y \in T : <<y, x>> \notin R
    BY <1>1, WFMin
  <1>3. ASSUME NEW y \in T PROVE x <= y
    <2>1. <<y, x>> \notin R
      BY <1>2
    <2>2. ~(y < x)
      BY <2>1 DEF R, OpToRel
    <2> QED
      BY <2>2
  <1> QED
    BY <1>3

\* The first candidate of a set is one of the set, and nobody is before it.
LEMMA FirstOf ==
  ASSUME NEW S, S \subseteq Employees
  PROVE  /\ S = {} => First(S) = None
         /\ S # {} => First(S) \in S /\ \A f \in S : Rank[First(S)] <= Rank[f]
  <1>1. CASE S # {}
    <2> DEFINE T == {Rank[e] : e \in S}
    <2>1. PICK x \in T : \A y \in T : x <= y
      <3>1. T \subseteq Nat /\ T # {}
        BY <1>1
      <3> HIDE DEF T
      <3> QED
        BY <3>1, LeastExists
    <2>2. \E e \in S : \A f \in S : Rank[e] <= Rank[f]
      BY <2>1
    <2> QED
      BY <1>1, <2>2 DEF First
  <1> QED
    BY <1>1 DEF First

\* The candidate asked next is a candidate that has not been asked.
LEMMA PickNextOf ==
  ASSUME NEW row \in Row
  PROVE  \/ PickNext(row) = None
         \/ PickNext(row) \in row.cands /\ row.consent[PickNext(row)] = "NOT_ASKED"
  <1> DEFINE S == {e \in row.cands : row.consent[e] = "NOT_ASKED"}
  <1>1. S \subseteq Employees
    BY DEF Row
  <1>2. First(S) = None \/ First(S) \in S
    <2> HIDE DEF S
    <2> QED
      BY <1>1, FirstOf
  <1> QED
    BY <1>2 DEF PickNext

\* The rows of AI_TRANSITIONS the service applies.
LEMMA Transitions ==
  /\ Machine!NextProposalState("DRAFT", "direct_escalate") = "ESCALATED"
  /\ Machine!NextProposalState("DRAFT", "ask_consent") = "PENDING_EMPLOYEE_CONSENT"
  /\ Machine!NextProposalState("PENDING_EMPLOYEE_CONSENT", "expire") = "ESCALATED"
  /\ Machine!NextProposalState("PENDING_EMPLOYEE_CONSENT", "employee_accept") = "EMPLOYEE_AGREED"
  /\ Machine!NextProposalState("EMPLOYEE_AGREED", "submit_to_manager") = "PENDING_MANAGER"
  /\ Machine!NextProposalState("PENDING_EMPLOYEE_CONSENT", "employee_decline_next")
       = "PENDING_EMPLOYEE_CONSENT"
  /\ Machine!NextProposalState("PENDING_EMPLOYEE_CONSENT", "employee_decline_last") = "ESCALATED"
  /\ Machine!NextProposalState("PENDING_MANAGER", "manager_reject") = "REJECTED"
  /\ Machine!NextProposalState("PENDING_MANAGER", "manager_approve") = "APPROVED"
  BY DEF Machine!NextProposalState, Machine!AI_TRANSITIONS, Machine!AiProposalState

\* The candidates the optimizer leaves are employees other than the vacated one.
LEMMA FeasibleType ==
  ASSUME NEW s, NEW e
  PROVE  Feasible(s, e) \subseteq Employees
  BY DEF Feasible, Pool

\* A new proposal asks one of its candidates, escalates, or stays a draft.
LEMMA InitialOf ==
  ASSUME NEW level, NEW cands \in SUBSET Employees
  PROVE  \/ Initial(level, cands) = <<"ESCALATED", None>>
         \/ Initial(level, cands) = <<"DRAFT", None>>
         \/ \E e \in cands : Initial(level, cands) = <<"PENDING_EMPLOYEE_CONSENT", e>>
  <1> DEFINE S == cands \cap HasLogin
  <1>1. First(S) = None \/ First(S) \in cands
    <2>1. S \subseteq Employees /\ S \subseteq cands
      OBVIOUS
    <2> HIDE DEF S
    <2> QED
      BY <2>1, FirstOf
  <1> QED
    BY <1>1, Transitions DEF Initial

LEMMA IdleType == Idle \in CallType /\ NoRow \in Row
  <1>1. NoRow \in Row
    BY DEF NoRow, Row, ConsentState
  <1> QED
    BY <1>1 DEF Idle, CallType, Points

-----------------------------------------------------------------------------
(* What one call's step does to the invariant                              *)

\* The rows only move on: a row keeps what it was made for, and once it is
\* with the manager its candidate stays.
RowsOnward ==
    \A p \in Proposals : prop[p].stage # "ABSENT" =>
        /\ prop'[p].stage # "ABSENT"
        /\ prop'[p].cands = prop[p].cands
        /\ prop'[p].shift = prop[p].shift
        /\ prop'[p].vacated = prop[p].vacated
        /\ prop[p].stage \in Decided =>
               /\ prop'[p].stage \in Decided
               /\ prop'[p].active = prop[p].active
               /\ prop'[p].consent[prop[p].active] = prop[p].consent[prop[p].active]

\* Only the locals of c change, to k.
Moves(c, k) ==
    /\ call'[c] = k
    /\ \A d \in Calls \ {c} : call'[d] = call[d]

LEMMA MoveType ==
  ASSUME TypeOK, NEW c \in Calls, NEW k \in CallType, call' = [call EXCEPT ![c] = k]
  PROVE  call' \in [Calls -> CallType] /\ Moves(c, k)
  <1> HIDE DEF CallType
  <1> QED
    BY DEF TypeOK, Moves

LEMMA ReturnMoves ==
  ASSUME TypeOK, NEW c \in Calls, Return(c)
  PROVE  call' \in [Calls -> CallType] /\ Moves(c, Idle)
  BY IdleType, MoveType DEF Return

\* What a call relies on stays while others move.
LEMMA StillSound ==
  ASSUME RowsOnward, NEW d \in Calls, CallSound(d), call'[d] = call[d]
  PROVE  CallSound(d)'
  <1> DEFINE k == call[d]
             now == prop[k.p]
  <1>1. CASE k.at \in {"ask", "expire", "accept", "decline", "reject", "revet", "commit"}
    <2>1. /\ k.p \in Proposals /\ now.stage # "ABSENT"
          /\ k.row.cands = now.cands /\ k.row.shift = now.shift /\ k.row.vacated = now.vacated
      BY <1>1 DEF CallSound
    <2>2. /\ prop'[k.p].stage # "ABSENT"
          /\ prop'[k.p].cands = now.cands /\ prop'[k.p].shift = now.shift
          /\ prop'[k.p].vacated = now.vacated
          /\ now.stage \in Decided =>
                 /\ prop'[k.p].stage \in Decided
                 /\ prop'[k.p].active = now.active
                 /\ prop'[k.p].consent[now.active] = now.consent[now.active]
      BY <2>1 DEF RowsOnward
    <2> QED
      BY <1>1, <2>1, <2>2 DEF CallSound
  <1>2. CASE k.at \notin {"ask", "expire", "accept", "decline", "reject", "revet", "commit"}
    BY <1>2 DEF CallSound
  <1> QED
    BY <1>1, <1>2

\* A call that is over relies on nothing.
LEMMA IdleSound ==
  ASSUME NEW c \in Calls, call'[c] = Idle
  PROVE  CallSound(c)'
  BY DEF CallSound, Idle

\* One call moves, and has earned what it needs where it goes.
LEMMA CallsSound ==
  ASSUME ReplacementInv, RowsOnward, NEW c \in Calls, NEW k, Moves(c, k), CallSound(c)'
  PROVE  \A d \in Calls : CallSound(d)'
  BY StillSound DEF ReplacementInv, Moves

\* Points of a manager's decision past its checks.
DecidingAt == {"reject", "revet", "commit"}

\* Coordinated managers: a call that begins to decide is alone, and no other
\* call takes the proposal away from one that decides.
LEMMA DecideKept ==
  ASSUME ReplacementInv, NEW c \in Calls, NEW k, Moves(c, k),
         Coordinated /\ k.at \in DecidingAt =>
             /\ prop'[k.p].stage = "PENDING_MANAGER"
             /\ \A d \in Calls \ {c} : call[d].p = k.p => call[d].at \notin DecidingAt,
         \A d \in Calls \ {c} :
             Coordinated /\ call[d].at \in DecidingAt /\ prop[call[d].p].stage = "PENDING_MANAGER"
             /\ (call[c].p = call[d].p => call[c].at \notin DecidingAt) =>
                 prop'[call[d].p].stage = "PENDING_MANAGER"
  PROVE  DecideSound'
  <1> SUFFICES ASSUME Coordinated, NEW d \in Calls, call'[d].at \in DecidingAt
               PROVE  /\ prop'[call'[d].p].stage = "PENDING_MANAGER"
                      /\ \A f \in Calls \ {d} : call'[f].p = call'[d].p => call'[f].at \notin DecidingAt
    BY DEF DecideSound, DecidingAt
  <1>1. DecideSound
    BY DEF ReplacementInv
  <1>2. CASE d = c
    BY <1>2 DEF Moves
  <1>3. CASE d # c
    <2>1. call'[d] = call[d]
      BY <1>3 DEF Moves
    <2>2. /\ prop[call[d].p].stage = "PENDING_MANAGER"
          /\ \A f \in Calls \ {d} : call[f].p = call[d].p => call[f].at \notin DecidingAt
      BY <1>1, <2>1 DEF DecideSound, DecidingAt
    <2>3. prop'[call[d].p].stage = "PENDING_MANAGER"
      BY <1>3, <2>1, <2>2
    <2>4. \A f \in Calls \ {d} : call'[f].p = call[d].p => call'[f].at \notin DecidingAt
      BY <1>3, <2>1, <2>2 DEF Moves
    <2> QED
      BY <2>1, <2>3, <2>4
  <1> QED
    BY <1>2, <1>3

\* Whatever the scans have found is still on its way.
LEMMA ScanKept ==
  ASSUME TypeOK, ReplacementInv, NEW c \in Calls, NEW k, Moves(c, k),
         scanned' = scanned, swallowed \subseteq swallowed',
         \A p \in Proposals : prop[p].shift \in Shifts => prop'[p].shift = prop[p].shift,
         \A l \in LeaveRequests, s \in Shifts : WillPropose(c, l, s) =>
             \/ WillPropose(c, l, s)'
             \/ l \in swallowed'
             \/ \E p \in Proposals : prop'[p].shift = s
  PROVE  ScanSound'
  <1> SUFFICES ASSUME NEW l \in LeaveRequests, NEW s \in Shifts, <<l, s>> \in scanned
               PROVE  \/ l \in swallowed'
                      \/ \E d \in Calls : WillPropose(d, l, s)'
                      \/ \E p \in Proposals : prop'[p].shift = s
    BY DEF ScanSound, TypeOK
  <1>1. \/ l \in swallowed
        \/ \E d \in Calls : WillPropose(d, l, s)
        \/ \E p \in Proposals : prop[p].shift = s
    BY DEF ReplacementInv, ScanSound
  <1>2. \A d \in Calls \ {c} : WillPropose(d, l, s) => WillPropose(d, l, s)'
    BY DEF Moves, WillPropose
  <1> QED
    BY <1>1, <1>2

-----------------------------------------------------------------------------
(* The steps that read                                                     *)

LEMMA ReadStep ==
  ASSUME TypeOK, ReplacementInv, NEW c \in Calls, NEW k \in CallType,
         call' = [call EXCEPT ![c] = k], UNCHANGED <<dbVars, leaveVars>>, CallSound(c)',
         Coordinated /\ k.at \in DecidingAt =>
             /\ prop[k.p].stage = "PENDING_MANAGER"
             /\ \A d \in Calls \ {c} : call[d].p = k.p => call[d].at \notin DecidingAt,
         \A l \in LeaveRequests, s \in Shifts : WillPropose(c, l, s) => WillPropose(c, l, s)'
  PROVE  TypeOK' /\ ReplacementInv'
  <1>1. call' \in [Calls -> CallType] /\ Moves(c, k)
    BY MoveType
  <1>2. TypeOK'
    BY <1>1 DEF TypeOK, dbVars, leaveVars
  <1>3. UNCHANGED <<prop, commits, agreed, status, leaveOf, scanned, swallowed>>
    BY DEF dbVars, leaveVars
  <1>4. \A p \in Proposals : RowSound(p)'
    BY <1>3 DEF ReplacementInv, RowSound
  <1>5. \A d \in Calls : CallSound(d)'
    BY <1>1, <1>3, CallsSound DEF RowsOnward
  <1>6. LeaveSound'
    BY <1>3 DEF ReplacementInv, LeaveSound
  <1>7. ScanSound'
    BY <1>1, <1>3, ScanKept
  <1>8. DecideSound'
    BY <1>1, <1>3, DecideKept
  <1> QED
    BY <1>2, <1>4, <1>5, <1>6, <1>7, <1>8 DEF ReplacementInv

\* A call returns, or throws, without having written.
LEMMA QuitStep ==
  ASSUME TypeOK, ReplacementInv, NEW c \in Calls, Return(c), UNCHANGED <<dbVars, leaveVars>>,
         \A l \in LeaveRequests, s \in Shifts : ~WillPropose(c, l, s)
  PROVE  TypeOK' /\ ReplacementInv'
  <1>1. call'[c] = Idle
    BY ReturnMoves DEF Moves
  <1>2. CallSound(c)'
    BY <1>1, IdleSound
  <1>3. Idle.at \notin DecidingAt
    BY DEF Idle, DecidingAt
  <1> QED
    BY <1>2, <1>3, IdleType, ReadStep DEF Return

\* A call that has found its proposal takes a copy of it along.
LEMMA BeginStep ==
  ASSUME TypeOK, ReplacementInv, NEW c \in Calls, NEW m \in Managers \cup {None},
         NEW p \in Proposals, NEW at \in Points,
         call[c].at = "idle", Begin(c, m, p, at), UNCHANGED <<dbVars, leaveVars>>,
         prop[p].stage # "ABSENT",
         at \notin {"rank", "insert", "flip", "scan", "each"},
         at \in {"accept", "decline"} => prop[p].stage = "PENDING_EMPLOYEE_CONSENT",
         at \in DecidingAt => /\ m \in Managers
                              /\ prop[p].stage = "PENDING_MANAGER"
                              /\ Coordinated => ~Deciding(p),
         at \in {"revet", "commit"} => prop[p].consent[prop[p].active] = "GRANTED"
  PROVE  TypeOK' /\ ReplacementInv'
  <1> DEFINE k == [Idle EXCEPT !.at = at, !.who = m, !.p = p, !.row = prop[p]]
  <1>1. k \in CallType
    BY DEF TypeOK, Idle, CallType
  <1>2. /\ k.at = at /\ k.who = m /\ k.p = p /\ k.row = prop[p] /\ k.todo = {}
        /\ call' = [call EXCEPT ![c] = k]
    BY DEF Idle, Begin
  <1> HIDE DEF k
  <1>3. call'[c] = k
    BY <1>1, <1>2, MoveType DEF Moves
  <1>4. RowSound(p) /\ prop' = prop
    BY DEF ReplacementInv, dbVars
  <1>5. CallSound(c)'
    BY <1>2, <1>3, <1>4 DEF CallSound, RowSound, DecidingAt, Decided
  <1>6. Coordinated /\ k.at \in DecidingAt =>
             /\ prop[k.p].stage = "PENDING_MANAGER"
             /\ \A d \in Calls \ {c} : call[d].p = k.p => call[d].at \notin DecidingAt
    BY <1>2 DEF Deciding, DecidingAt
  <1>7. \A l \in LeaveRequests, s \in Shifts : ~WillPropose(c, l, s)
    BY DEF WillPropose
  <1> QED
    BY <1>1, <1>2, <1>5, <1>6, <1>7, ReadStep

LEMMA ReadSteps ==
  ASSUME TypeOK, ReplacementInv, NEW c \in Calls, NEW p \in Proposals, UNCHANGED leaveVars,
         \/ \E m \in Managers : RequestConsentLoad(c, m, p)
         \/ ReadStale(c, p)
         \/ \E e \in Employees, answer \in {"accept", "decline"} : ConsentLoad(c, e, p, answer)
         \/ \E m \in Managers, approve \in BOOLEAN : DecisionLoad(c, m, p, approve)
  PROVE  TypeOK' /\ ReplacementInv'
  <1>1. CASE \E m \in Managers : RequestConsentLoad(c, m, p)
    BY <1>1, BeginStep DEF RequestConsentLoad, Points, DecidingAt
  <1>2. CASE ReadStale(c, p)
    BY <1>2, BeginStep DEF ReadStale, IsStale, Points, DecidingAt
  <1>3. CASE \E e \in Employees, answer \in {"accept", "decline"} : ConsentLoad(c, e, p, answer)
    BY <1>3, BeginStep DEF ConsentLoad, Points, DecidingAt
  <1>4. CASE \E m \in Managers, approve \in BOOLEAN : DecisionLoad(c, m, p, approve)
    BY <1>4, BeginStep DEF DecisionLoad, Points, DecidingAt
  <1> QED
    BY <1>1, <1>2, <1>3, <1>4

LEMMA CreateReadStep ==
  ASSUME TypeOK, ReplacementInv, NEW c \in Calls, NEW m \in Managers, NEW s \in ByHand,
         CreateRead(c, m, s), UNCHANGED leaveVars
  PROVE  TypeOK' /\ ReplacementInv'
  <1> DEFINE k == [Idle EXCEPT !.at = "rank", !.who = m, !.shift = s, !.vacated = holder[s]]
  <1>1. k \in CallType /\ s \in Shifts /\ holder[s] \in Employees
    BY IdleType DEF TypeOK, Idle, CallType, Points
  <1>2. /\ k.at = "rank" /\ k.shift = s /\ k.vacated = holder[s] /\ k.todo = {}
        /\ call' = [call EXCEPT ![c] = k]
    BY DEF Idle, CreateRead
  <1> HIDE DEF k
  <1>3. call'[c] = k
    BY <1>1, <1>2, MoveType DEF Moves
  <1>4. CallSound(c)'
    BY <1>1, <1>2, <1>3 DEF CallSound
  <1>5. \A l \in LeaveRequests, u \in Shifts : ~WillPropose(c, l, u)
    BY DEF WillPropose, CreateRead
  <1> QED
    BY <1>1, <1>2, <1>4, <1>5, ReadStep DEF CreateRead, DecidingAt

LEMMA CreateRankStep ==
  ASSUME TypeOK, ReplacementInv, NEW c \in Calls, CreateRank(c), UNCHANGED leaveVars
  PROVE  TypeOK' /\ ReplacementInv'
  <1> DEFINE k == [call[c] EXCEPT !.at = "insert",
                                  !.cands = Feasible(call[c].shift, call[c].vacated),
                                  !.level = autonomy[UnitOf[call[c].vacated]]]
  <1>1. /\ call[c].at = "rank" /\ call[c].shift \in Shifts /\ call[c].vacated \in Employees
        /\ call[c].todo # {} => call[c].leaveId \in LeaveRequests
    BY DEF CreateRank, ReplacementInv, CallSound
  <1>2. autonomy[UnitOf[call[c].vacated]] \in Levels
    BY <1>1 DEF TypeOK
  <1>3. k \in CallType
    <2>1. call[c] \in CallType
      BY DEF TypeOK
    <2> QED
      BY <1>2, <2>1, FeasibleType DEF CallType, Points
  <1>4. call' = [call EXCEPT ![c] = k]
    BY DEF CreateRank, TypeOK
  <1>5. /\ k.at = "insert" /\ k.shift = call[c].shift /\ k.vacated = call[c].vacated
        /\ k.todo = call[c].todo /\ k.leaveId = call[c].leaveId
    BY DEF TypeOK, CallType
  <1> HIDE DEF k
  <1>6. call'[c] = k
    BY <1>3, <1>4, MoveType DEF Moves
  <1>7. CallSound(c)'
    BY <1>1, <1>5, <1>6 DEF CallSound
  <1>8. \A l \in LeaveRequests, u \in Shifts : WillPropose(c, l, u) => WillPropose(c, l, u)'
    BY <1>5, <1>6 DEF WillPropose
  <1> QED
    BY <1>3, <1>4, <1>5, <1>7, <1>8, ReadStep DEF CreateRank, DecidingAt

LEMMA RevetStep ==
  ASSUME TypeOK, ReplacementInv, NEW c \in Calls, Revet(c), UNCHANGED leaveVars
  PROVE  TypeOK' /\ ReplacementInv'
  <1>1. call[c].at = "revet" /\ \A l \in LeaveRequests, u \in Shifts : ~WillPropose(c, l, u)
    BY DEF WillPropose, Revet
  <1>2. CASE Return(c)
    BY <1>1, <1>2, QuitStep DEF Revet
  <1>3. CASE ~Return(c)
    <2> DEFINE k == [call[c] EXCEPT !.at = "commit"]
    <2>1. k \in CallType
      <3>1. call[c] \in CallType
        BY DEF TypeOK
      <3> QED
        BY <3>1 DEF CallType, Points
    <2>2. call' = [call EXCEPT ![c] = k]
      BY <1>3 DEF Revet, Return, TypeOK
    <2>3. /\ k.at = "commit" /\ k.p = call[c].p /\ k.row = call[c].row /\ k.who = call[c].who
          /\ k.todo = call[c].todo /\ k.leaveId = call[c].leaveId
      BY DEF TypeOK, CallType
    <2> HIDE DEF k
    <2>4. call'[c] = k /\ prop' = prop
      BY <2>1, <2>2, MoveType DEF Moves, Revet, dbVars
    <2>5. CallSound(c)'
      BY <1>1, <2>3, <2>4 DEF CallSound, ReplacementInv
    <2>6. Coordinated => /\ prop[k.p].stage = "PENDING_MANAGER"
                         /\ \A d \in Calls \ {c} : call[d].p = k.p => call[d].at \notin DecidingAt
      BY <1>1, <2>3 DEF ReplacementInv, DecideSound, DecidingAt
    <2> QED
      BY <1>1, <2>1, <2>2, <2>5, <2>6, ReadStep DEF Revet
  <1> QED
    BY <1>2, <1>3

LEMMA CallFailsStep ==
  ASSUME TypeOK, ReplacementInv, NEW c \in Calls, CallFails(c), UNCHANGED leaveVars
  PROVE  TypeOK' /\ ReplacementInv'
  <1>1. \A l \in LeaveRequests, u \in Shifts : ~WillPropose(c, l, u)
    BY DEF WillPropose, CallFails
  <1> QED
    BY <1>1, QuitStep DEF CallFails

\* LeaveService.decide and cancel, up to the guarded update.
LEMMA LeaveLoadStep ==
  ASSUME TypeOK, ReplacementInv, NEW c \in Calls, NEW l \in LeaveRequests,
         \/ \E m \in Managers, action \in {"approve", "reject"} : DecideLoad(c, m, l, action)
         \/ CancelLoad(c, l)
  PROVE  TypeOK' /\ ReplacementInv'
  <1>1. PICK m \in Managers \cup {None}, action \in {"approve", "reject", "cancel"} :
           BeginLeave(c, m, l, action)
    BY DEF DecideLoad, CancelLoad
  <1>2. call[c].at = "idle" /\ UNCHANGED <<dbVars, leaveVars>>
    BY DEF DecideLoad, CancelLoad
  <1> DEFINE k == [Idle EXCEPT !.at = "flip", !.who = m, !.leaveId = l, !.action = action]
  <1>3. k \in CallType
    BY IdleType DEF Idle, CallType, Points
  <1>4. /\ k.at = "flip" /\ k.leaveId = l /\ k.action = action /\ k.todo = {}
        /\ call' = [call EXCEPT ![c] = k]
    BY <1>1 DEF Idle, BeginLeave
  <1> HIDE DEF k
  <1>5. call'[c] = k
    BY <1>3, <1>4, MoveType DEF Moves
  <1>6. CallSound(c)'
    BY <1>4, <1>5 DEF CallSound
  <1>7. \A r \in LeaveRequests, u \in Shifts : ~WillPropose(c, r, u)
    BY <1>2 DEF WillPropose
  <1> QED
    BY <1>2, <1>3, <1>4, <1>6, <1>7, ReadStep DEF DecidingAt

-----------------------------------------------------------------------------
(* The steps that write a proposal                                         *)

\* A call writes row r for proposal p and is over.
LEMMA WriteStep ==
  ASSUME TypeOK, ReplacementInv, NEW c \in Calls, Return(c),
         \A l \in LeaveRequests, s \in Shifts : ~WillPropose(c, l, s),
         NEW p \in Proposals, NEW r \in Row, prop' = [prop EXCEPT ![p] = r],
         commits' \in [Proposals -> Nat], \A q \in Proposals \ {p} : commits'[q] = commits[q],
         holder' \in [Shifts -> Employees],
         agreed \subseteq agreed', agreed' \subseteq Proposals \X Employees,
         UNCHANGED <<leave, autonomy, leaveVars>>,
         prop[p].stage # "ABSENT", r.stage # "ABSENT",
         r.cands = prop[p].cands, r.shift = prop[p].shift, r.vacated = prop[p].vacated,
         prop[p].stage \in Decided => /\ r.stage \in Decided
                                      /\ r.active = prop[p].active
                                      /\ r.consent = prop[p].consent,
         prop[p].stage = "PENDING_MANAGER" =>
             r.stage = "PENDING_MANAGER" \/ (call[c].p = p /\ call[c].at \in DecidingAt),
         RowSound(p)'
  PROVE  TypeOK' /\ ReplacementInv'
  <1>1. call' \in [Calls -> CallType] /\ Moves(c, Idle)
    BY ReturnMoves
  <1>2. /\ prop' \in [Proposals -> Row] /\ prop'[p] = r
        /\ \A q \in Proposals \ {p} : prop'[q] = prop[q] /\ commits'[q] = commits[q]
    <2> HIDE DEF Row
    <2> QED
      BY DEF TypeOK
  <1>3. TypeOK'
    BY <1>1, <1>2 DEF TypeOK, leaveVars
  <1>4. RowsOnward
    BY <1>2 DEF RowsOnward
  <1>5. \A q \in Proposals : RowSound(q)'
    <2>1. \A q \in Proposals \ {p} : RowSound(q)'
      BY <1>2 DEF ReplacementInv, RowSound
    <2> QED
      BY <2>1
  <1>6. \A d \in Calls : CallSound(d)'
    <2>1. call'[c] = Idle
      BY <1>1 DEF Moves
    <2> QED
      BY <1>1, <1>4, <2>1, CallsSound, IdleSound
  <1>7. LeaveSound'
    BY DEF ReplacementInv, LeaveSound, leaveVars
  <1>8. ScanSound'
    <2>1. \A q \in Proposals : prop[q].shift \in Shifts => prop'[q].shift = prop[q].shift
      BY <1>2
    <2>2. scanned' = scanned /\ swallowed' = swallowed
      BY DEF leaveVars
    <2> QED
      BY <1>1, <2>1, <2>2, ScanKept
  <1>9. DecideSound'
    <2>1. Idle.at \notin DecidingAt
      BY DEF Idle, DecidingAt
    <2>2. \A q \in Proposals : prop[q].stage = "PENDING_MANAGER" =>
             prop'[q].stage = "PENDING_MANAGER" \/ (call[c].p = q /\ call[c].at \in DecidingAt)
      BY <1>2
    <2>3. \A d \in Calls : call[d].at \in DecidingAt => call[d].p \in Proposals
      BY DEF ReplacementInv, CallSound, DecidingAt
    <2> QED
      BY <1>1, <2>1, <2>2, <2>3, DecideKept
  <1> QED
    BY <1>3, <1>5, <1>6, <1>7, <1>8, <1>9 DEF ReplacementInv

\* A row that waits for a candidate, or has not asked one yet, asks the next
\* candidate or is escalated.
AsksOrEscalates(old, new) ==
    /\ old.stage \in {"DRAFT", "PENDING_EMPLOYEE_CONSENT"}
    /\ new.cands = old.cands /\ new.shift = old.shift /\ new.vacated = old.vacated
    /\ \/ new.stage = "ESCALATED" /\ new.active = None
       \/ /\ new.stage = "PENDING_EMPLOYEE_CONSENT"
          /\ new.active \in new.cands /\ new.consent[new.active] = "PENDING"
    /\ \A e \in Employees : new.consent[e] = "GRANTED" => old.consent[e] = "GRANTED"

LEMMA AskOrEscalate ==
  ASSUME TypeOK, ReplacementInv, NEW c \in Calls, Return(c),
         call[c].at \notin {"each", "rank", "insert"},
         NEW p \in Proposals, NEW r \in Row, prop' = [prop EXCEPT ![p] = r],
         AsksOrEscalates(prop[p], r),
         UNCHANGED <<holder, leave, autonomy, commits, agreed, leaveVars>>
  PROVE  TypeOK' /\ ReplacementInv'
  <1>1. RowSound(p) /\ commits' \in [Proposals -> Nat]
    BY DEF ReplacementInv, TypeOK
  <1>2. prop'[p] = r
    <2> HIDE DEF Row
    <2> QED
      BY DEF TypeOK
  <1>3. RowSound(p)'
    BY <1>1, <1>2 DEF RowSound, AsksOrEscalates
  <1>4. /\ holder' \in [Shifts -> Employees] /\ agreed \subseteq agreed'
        /\ agreed' \subseteq Proposals \X Employees
    BY DEF TypeOK
  <1>5. \A l \in LeaveRequests, s \in Shifts : ~WillPropose(c, l, s)
    BY DEF WillPropose
  <1> QED
    BY <1>1, <1>3, <1>4, <1>5, WriteStep DEF Decided, AsksOrEscalates

\* A guarded write that finds the row moved on changes nothing.
LEMMA RequestConsentStep ==
  ASSUME TypeOK, ReplacementInv, NEW c \in Calls, RequestConsent(c), UNCHANGED leaveVars
  PROVE  TypeOK' /\ ReplacementInv'
  <1>1. PICK p \in Proposals : p = call[c].p
    BY DEF RequestConsent, ReplacementInv, CallSound
  <1>2. PICK next : next = PickNext(call[c].row)
    OBVIOUS
  <1>3. /\ call[c].at = "ask" /\ call[c].row.cands = prop[p].cands
        /\ \A l \in LeaveRequests, s \in Shifts : ~WillPropose(c, l, s)
    BY <1>1 DEF RequestConsent, ReplacementInv, CallSound, WillPropose
  <1>4. Return(c) /\ UNCHANGED <<holder, leave, autonomy, commits, agreed, leaveVars>>
    BY DEF RequestConsent
  <1>5. call[c].row \in Row /\ prop[p] \in Row
    <2>1. call[c] \in CallType
      BY DEF TypeOK
    <2> QED
      BY <2>1 DEF TypeOK, CallType
  <1>6. next = None \/ next \in prop[p].cands
    BY <1>2, <1>3, <1>5, PickNextOf
  <1>7. RowSound(p) /\ prop[p].cands \subseteq Employees
    BY <1>5 DEF ReplacementInv, Row
  <1>8. CASE prop[p].stage # "DRAFT"
    BY <1>1, <1>3, <1>4, <1>8, QuitStep DEF RequestConsent, dbVars
  <1>9. CASE prop[p].stage = "DRAFT" /\ next = None
    <2> DEFINE r == [prop[p] EXCEPT !.stage = "ESCALATED"]
    <2>1. r \in Row
      BY <1>5 DEF Row, Machine!AiProposalState
    <2>2. prop' = [prop EXCEPT ![p].stage = "ESCALATED"]
      BY <1>1, <1>2, <1>9, Transitions DEF RequestConsent
    <2>3. prop' = [prop EXCEPT ![p] = r]
      BY <2>2
    <2>4. /\ r.stage = "ESCALATED" /\ r.active = prop[p].active /\ r.consent = prop[p].consent
          /\ r.cands = prop[p].cands /\ r.shift = prop[p].shift /\ r.vacated = prop[p].vacated
      BY <1>5 DEF Row
    <2> HIDE DEF r
    <2>5. prop[p].active = None
      BY <1>7, <1>9 DEF RowSound
    <2>7. AsksOrEscalates(prop[p], r)
      BY <1>1, <1>3, <1>4, <1>9, <2>1, <2>3, <2>4, <2>5 DEF AsksOrEscalates
    <2> QED
      BY <1>1, <1>3, <1>4, <1>9, <2>1, <2>3, <2>4, <2>5, <2>7, AskOrEscalate
  <1>10. CASE prop[p].stage = "DRAFT" /\ next # None
    <2> DEFINE r == [prop[p] EXCEPT !.stage = "PENDING_EMPLOYEE_CONSENT", !.active = next,
                                    !.consent = [@ EXCEPT ![next] = "PENDING"], !.late = FALSE]
    <2>1. next \in prop[p].cands /\ next \in Employees
      BY <1>6, <1>7, <1>10
    <2>2. r \in Row
      BY <1>5, <2>1 DEF Row, Machine!AiProposalState, ConsentState
    <2>3. prop' = [prop EXCEPT ![p].stage = "PENDING_EMPLOYEE_CONSENT", ![p].active = next,
                               ![p].consent = [@ EXCEPT ![next] = "PENDING"], ![p].late = FALSE]
      BY <1>1, <1>2, <1>10, Transitions DEF RequestConsent
    <2>4. prop' = [prop EXCEPT ![p] = r]
      BY <2>3
    <2>5. /\ r.stage = "PENDING_EMPLOYEE_CONSENT" /\ r.active = next
          /\ r.consent = [prop[p].consent EXCEPT ![next] = "PENDING"]
          /\ r.cands = prop[p].cands /\ r.shift = prop[p].shift /\ r.vacated = prop[p].vacated
      BY <1>5 DEF Row
    <2> HIDE DEF r
    <2>6. /\ r.consent[next] = "PENDING"
          /\ \A e \in Employees : r.consent[e] = "GRANTED" => prop[p].consent[e] = "GRANTED"
      BY <1>5, <2>1, <2>5 DEF Row
    <2>7. AsksOrEscalates(prop[p], r)
      BY <1>1, <1>3, <1>4, <1>10, <2>1, <2>2, <2>4, <2>5, <2>6 DEF AsksOrEscalates
    <2> QED
      BY <1>1, <1>3, <1>4, <1>10, <2>1, <2>2, <2>4, <2>5, <2>6, <2>7, AskOrEscalate
  <1> QED
    BY <1>8, <1>9, <1>10

LEMMA ExpireIfStaleStep ==
  ASSUME TypeOK, ReplacementInv, NEW c \in Calls, ExpireIfStale(c), UNCHANGED leaveVars
  PROVE  TypeOK' /\ ReplacementInv'
  <1>1. PICK p \in Proposals : p = call[c].p
    BY DEF ExpireIfStale, ReplacementInv, CallSound
  <1>2. /\ call[c].at = "expire"
        /\ \A l \in LeaveRequests, s \in Shifts : ~WillPropose(c, l, s)
    BY DEF ExpireIfStale, WillPropose
  <1>3. Return(c) /\ UNCHANGED <<holder, leave, autonomy, commits, agreed, leaveVars>>
    BY DEF ExpireIfStale
  <1>4. prop[p] \in Row
    BY DEF TypeOK
  <1>5. CASE prop[p].stage # "PENDING_EMPLOYEE_CONSENT"
    BY <1>1, <1>2, <1>3, <1>5, QuitStep DEF ExpireIfStale, dbVars
  <1>6. CASE prop[p].stage = "PENDING_EMPLOYEE_CONSENT"
    <2> DEFINE r == [prop[p] EXCEPT !.stage = "ESCALATED", !.active = None]
    <2>1. r \in Row
      BY <1>4 DEF Row, Machine!AiProposalState
    <2>2. prop' = [prop EXCEPT ![p].stage = "ESCALATED", ![p].active = None]
      BY <1>1, <1>6, Transitions DEF ExpireIfStale
    <2>3. prop' = [prop EXCEPT ![p] = r]
      BY <2>2
    <2>4. /\ r.stage = "ESCALATED" /\ r.active = None /\ r.consent = prop[p].consent
          /\ r.cands = prop[p].cands /\ r.shift = prop[p].shift /\ r.vacated = prop[p].vacated
      BY <1>4 DEF Row
    <2> HIDE DEF r
    <2>7. AsksOrEscalates(prop[p], r)
      BY <1>1, <1>2, <1>3, <1>6, <2>1, <2>3, <2>4 DEF AsksOrEscalates
    <2> QED
      BY <1>1, <1>2, <1>3, <1>6, <2>1, <2>3, <2>4, <2>7, AskOrEscalate
  <1> QED
    BY <1>5, <1>6

LEMMA DeclineStep ==
  ASSUME TypeOK, ReplacementInv, NEW c \in Calls, Decline(c), UNCHANGED leaveVars
  PROVE  TypeOK' /\ ReplacementInv'
  <1>1. PICK p \in Proposals : p = call[c].p
    BY DEF Decline, ReplacementInv, CallSound
  <1>2. PICK e, next : e = call[c].row.active /\ next = PickNext(call[c].row)
    OBVIOUS
  <1>3. /\ call[c].at = "decline" /\ call[c].row.cands = prop[p].cands
        /\ e \in prop[p].cands /\ call[c].row.consent[e] = "PENDING"
        /\ \A l \in LeaveRequests, s \in Shifts : ~WillPropose(c, l, s)
    BY <1>1, <1>2 DEF Decline, ReplacementInv, CallSound, WillPropose
  <1>4. Return(c) /\ UNCHANGED <<holder, leave, autonomy, commits, agreed, leaveVars>>
    BY DEF Decline
  <1>5. call[c].row \in Row /\ prop[p] \in Row
    <2>1. call[c] \in CallType
      BY DEF TypeOK
    <2> QED
      BY <2>1 DEF TypeOK, CallType
  <1>6. next = None \/ (next \in prop[p].cands /\ next # e)
    BY <1>2, <1>3, <1>5, PickNextOf
  <1>7. prop[p].cands \subseteq Employees
    BY <1>5 DEF Row
  <1>8. CASE prop[p].stage # "PENDING_EMPLOYEE_CONSENT"
    BY <1>1, <1>3, <1>4, <1>8, QuitStep DEF Decline, dbVars
  <1>9. CASE prop[p].stage = "PENDING_EMPLOYEE_CONSENT" /\ next # None
    <2> DEFINE r == [prop[p] EXCEPT !.stage = "PENDING_EMPLOYEE_CONSENT",
                                    !.consent = [@ EXCEPT ![e] = "DECLINED", ![next] = "PENDING"],
                                    !.active = next]
    <2>1. next \in prop[p].cands /\ next # e /\ {e, next} \subseteq Employees
      BY <1>3, <1>6, <1>7, <1>9
    <2>2. r \in Row
      BY <1>5, <2>1 DEF Row, Machine!AiProposalState, ConsentState
    <2>3. prop' = [prop EXCEPT
                     ![p].stage = "PENDING_EMPLOYEE_CONSENT",
                     ![p].consent = [@ EXCEPT ![e] = "DECLINED", ![next] = "PENDING"],
                     ![p].active = next]
      BY <1>1, <1>2, <1>9, Transitions DEF Decline
    <2>4. prop' = [prop EXCEPT ![p] = r]
      BY <2>3
    <2>5. /\ r.stage = "PENDING_EMPLOYEE_CONSENT" /\ r.active = next
          /\ r.consent = [prop[p].consent EXCEPT ![e] = "DECLINED", ![next] = "PENDING"]
          /\ r.cands = prop[p].cands /\ r.shift = prop[p].shift /\ r.vacated = prop[p].vacated
      BY <1>5 DEF Row
    <2> HIDE DEF r
    <2>6. /\ r.consent[next] = "PENDING"
          /\ \A f \in Employees : r.consent[f] = "GRANTED" => prop[p].consent[f] = "GRANTED"
      BY <1>5, <2>1, <2>5 DEF Row
    <2>7. AsksOrEscalates(prop[p], r)
      BY <1>1, <1>3, <1>4, <1>9, <2>1, <2>2, <2>4, <2>5, <2>6 DEF AsksOrEscalates
    <2> QED
      BY <1>1, <1>3, <1>4, <1>9, <2>1, <2>2, <2>4, <2>5, <2>6, <2>7, AskOrEscalate
  <1>10. CASE prop[p].stage = "PENDING_EMPLOYEE_CONSENT" /\ next = None
    <2> DEFINE r == [prop[p] EXCEPT !.stage = "ESCALATED", !.consent = [@ EXCEPT ![e] = "DECLINED"],
                                    !.active = None]
    <2>1. e \in Employees
      BY <1>3, <1>7
    <2>2. r \in Row
      BY <1>5, <2>1 DEF Row, Machine!AiProposalState, ConsentState
    <2>3. prop' = [prop EXCEPT ![p].stage = "ESCALATED", ![p].consent = [@ EXCEPT ![e] = "DECLINED"],
                               ![p].active = None]
      BY <1>1, <1>2, <1>10, Transitions DEF Decline
    <2>4. prop' = [prop EXCEPT ![p] = r]
      BY <2>3
    <2>5. /\ r.stage = "ESCALATED" /\ r.active = None
          /\ r.consent = [prop[p].consent EXCEPT ![e] = "DECLINED"]
          /\ r.cands = prop[p].cands /\ r.shift = prop[p].shift /\ r.vacated = prop[p].vacated
      BY <1>5 DEF Row
    <2> HIDE DEF r
    <2>6. \A f \in Employees : r.consent[f] = "GRANTED" => prop[p].consent[f] = "GRANTED"
      BY <1>5, <2>1, <2>5 DEF Row
    <2>7. AsksOrEscalates(prop[p], r)
      BY <1>1, <1>10, <2>5, <2>6 DEF AsksOrEscalates
    <2> QED
      BY <1>1, <1>3, <1>4, <1>10, <2>2, <2>4, <2>7, AskOrEscalate
  <1> QED
    BY <1>8, <1>9, <1>10

\* An answer in time goes to the manager, with the candidate's own consent.
LEMMA AcceptStep ==
  ASSUME TypeOK, ReplacementInv, NEW c \in Calls, Accept(c), UNCHANGED leaveVars
  PROVE  TypeOK' /\ ReplacementInv'
  <1>1. PICK p \in Proposals : p = call[c].p
    BY DEF Accept, ReplacementInv, CallSound
  <1>2. PICK e : e = call[c].row.active
    OBVIOUS
  <1>3. /\ call[c].at = "accept" /\ e \in prop[p].cands
        /\ \A l \in LeaveRequests, s \in Shifts : ~WillPropose(c, l, s)
    BY <1>1, <1>2 DEF Accept, ReplacementInv, CallSound, WillPropose
  <1>4. Return(c) /\ UNCHANGED <<holder, leave, autonomy, commits, leaveVars>>
    BY DEF Accept
  <1>5. prop[p] \in Row /\ RowSound(p)
    BY <1>1 DEF TypeOK, ReplacementInv
  <1>6. e \in Employees
    BY <1>3, <1>5 DEF Row
  <1>7. CASE prop[p].stage # "PENDING_EMPLOYEE_CONSENT"
    BY <1>1, <1>3, <1>4, <1>7, QuitStep DEF Accept, dbVars
  <1>8. CASE prop[p].stage = "PENDING_EMPLOYEE_CONSENT"
    <2> DEFINE r == [prop[p] EXCEPT !.consent = [@ EXCEPT ![e] = "GRANTED"],
                                    !.stage = "PENDING_MANAGER"]
    <2>1. r \in Row
      BY <1>5, <1>6 DEF Row, Machine!AiProposalState, ConsentState
    <2>2. /\ prop' = [prop EXCEPT ![p].consent = [@ EXCEPT ![e] = "GRANTED"],
                                  ![p].stage = "PENDING_MANAGER"]
          /\ agreed' = agreed \cup {<<p, e>>}
      BY <1>1, <1>2, <1>8, Transitions DEF Accept
    <2>3. prop' = [prop EXCEPT ![p] = r]
      BY <2>2
    <2>4. /\ r.stage = "PENDING_MANAGER" /\ r.active = prop[p].active
          /\ r.consent = [prop[p].consent EXCEPT ![e] = "GRANTED"]
          /\ r.cands = prop[p].cands /\ r.shift = prop[p].shift /\ r.vacated = prop[p].vacated
      BY <1>5 DEF Row
    <2> HIDE DEF r
    <2>5. \A f \in Employees : r.consent[f] = "GRANTED" => f = e \/ prop[p].consent[f] = "GRANTED"
      BY <1>5, <1>6, <2>4 DEF Row
    <2>6. RowSound(p)'
      <3>1. prop'[p] = r /\ commits' = commits /\ ~(commits[p] > 0)
        <4> HIDE DEF Row
        <4> QED
          BY <1>1, <1>4, <1>5, <1>8, <2>3 DEF TypeOK, RowSound
      <3>2. \A f \in Employees : r.consent[f] = "GRANTED" => <<p, f>> \in agreed'
        BY <1>5, <2>2, <2>5 DEF RowSound
      <3>3. r.shift \in Shifts /\ r.vacated \in Employees /\ r.active \in r.cands
        BY <1>5, <1>8, <2>4 DEF RowSound
      <3> QED
        BY <2>4, <3>1, <3>2, <3>3 DEF RowSound
    <2>7. /\ agreed \subseteq agreed' /\ agreed' \subseteq Proposals \X Employees
          /\ commits' \in [Proposals -> Nat] /\ holder' \in [Shifts -> Employees]
      BY <1>1, <1>4, <1>6, <2>2 DEF TypeOK
    <2> QED
      BY <1>1, <1>3, <1>4, <1>8, <2>1, <2>3, <2>4, <2>6, <2>7, WriteStep DEF Decided
  <1> QED
    BY <1>7, <1>8

\* A rejection leaves everything but the state and the decider.
LEMMA RejectStep ==
  ASSUME TypeOK, ReplacementInv, NEW c \in Calls, Reject(c), UNCHANGED leaveVars
  PROVE  TypeOK' /\ ReplacementInv'
  <1>1. PICK p \in Proposals : p = call[c].p
    BY DEF Reject, ReplacementInv, CallSound
  <1>2. PICK m \in Managers : m = call[c].who
    BY DEF Reject, ReplacementInv, CallSound
  <1>3. /\ call[c].at = "reject" /\ prop[p].stage # "ABSENT"
        /\ \A l \in LeaveRequests, s \in Shifts : ~WillPropose(c, l, s)
    BY <1>1 DEF Reject, ReplacementInv, CallSound, WillPropose
  <1>4. Return(c) /\ UNCHANGED <<holder, leave, autonomy, commits, agreed, leaveVars>>
    BY DEF Reject
  <1>5. prop[p] \in Row /\ RowSound(p)
    BY DEF TypeOK, ReplacementInv
  <1> DEFINE r == [prop[p] EXCEPT !.stage = "REJECTED", !.decidedBy = m]
  <1>6. r \in Row
    BY <1>5 DEF Row, Machine!AiProposalState
  <1>7. prop' = [prop EXCEPT ![p].stage = "REJECTED", ![p].decidedBy = m]
    BY <1>1, <1>2, Transitions DEF Reject
  <1>8. prop' = [prop EXCEPT ![p] = r]
    BY <1>7
  <1>9. /\ r.stage = "REJECTED" /\ r.active = prop[p].active /\ r.consent = prop[p].consent
        /\ r.cands = prop[p].cands /\ r.shift = prop[p].shift /\ r.vacated = prop[p].vacated
    BY <1>5 DEF Row
  <1> HIDE DEF r
  <1>10. RowSound(p)'
    <2>1. prop'[p] = r
      <3> HIDE DEF Row
      <3> QED
        BY <1>8 DEF TypeOK
    <2> QED
      BY <1>3, <1>4, <1>5, <1>9, <2>1 DEF RowSound
  <1>11. /\ agreed \subseteq agreed' /\ agreed' \subseteq Proposals \X Employees
         /\ commits' \in [Proposals -> Nat] /\ holder' \in [Shifts -> Employees]
    BY <1>4 DEF TypeOK
  <1> QED
    BY <1>1, <1>3, <1>4, <1>6, <1>8, <1>9, <1>10, <1>11, WriteStep DEF Decided, DecidingAt

\* What a commit that goes through does: the proposal is still with the manager
\* and about the candidate that was vetted, who takes the vacated shift.
Approves(p, m) ==
    /\ prop[p].stage = "PENDING_MANAGER"
    /\ prop[p].shift \in Shifts
    /\ prop[p].active \in prop[p].cands /\ prop[p].active \in Employees
    /\ prop[p].consent[prop[p].active] = "GRANTED"
    /\ holder[prop[p].shift] = prop[p].vacated
    /\ holder' = [holder EXCEPT ![prop[p].shift] = prop[p].active]
    /\ prop' = [prop EXCEPT ![p].stage = "APPROVED", ![p].decidedBy = m]
    /\ commits' = [commits EXCEPT ![p] = @ + 1]

LEMMA CommitWrites ==
  ASSUME TypeOK, ReplacementInv, NEW c \in Calls, Commit(c)
  PROVE  /\ call[c].p \in Proposals
         /\ \/ UNCHANGED <<holder, prop, commits>>
            \/ call[c].who \in Managers /\ Approves(call[c].p, call[c].who)
  <1> DEFINE p == call[c].p
  <1>1. /\ p \in Proposals /\ call[c].who \in Managers
        /\ call[c].row.shift = prop[p].shift /\ call[c].row.vacated = prop[p].vacated
        /\ call[c].row.active = prop[p].active /\ prop[p].active \in prop[p].cands
        /\ prop[p].consent[prop[p].active] = "GRANTED" /\ prop[p].stage # "ABSENT"
    BY DEF Commit, ReplacementInv, CallSound
  <1>2. prop[p].shift \in Shifts
    BY <1>1 DEF ReplacementInv, RowSound
  <1>3. prop[p].active \in Employees
    <2>1. prop[p] \in Row
      BY <1>1 DEF TypeOK
    <2> QED
      BY <1>1, <2>1 DEF Row
  <1> QED
    BY <1>1, <1>2, <1>3, Transitions DEF Commit, Approves

LEMMA CommitStep ==
  ASSUME TypeOK, ReplacementInv, NEW c \in Calls, Commit(c), UNCHANGED leaveVars
  PROVE  TypeOK' /\ ReplacementInv'
  <1>1. PICK p \in Proposals : p = call[c].p
    BY DEF Commit, ReplacementInv, CallSound
  <1>2. /\ call[c].at = "commit"
        /\ \A l \in LeaveRequests, s \in Shifts : ~WillPropose(c, l, s)
    BY DEF Commit, WillPropose
  <1>3. Return(c) /\ UNCHANGED <<leave, autonomy, agreed, leaveVars>>
    BY DEF Commit
  <1>4. CASE UNCHANGED <<holder, prop, commits>>
    BY <1>2, <1>3, <1>4, QuitStep DEF dbVars
  <1>5. CASE ~UNCHANGED <<holder, prop, commits>>
    <2>1. PICK m \in Managers : Approves(p, m)
      BY <1>1, <1>5, CommitWrites
    <2>2. prop' = [prop EXCEPT ![p].stage = "APPROVED", ![p].decidedBy = m]
      BY <2>1 DEF Approves
    <2>3. prop[p] \in Row /\ RowSound(p)
      BY DEF TypeOK, ReplacementInv
    <2> DEFINE r == [prop[p] EXCEPT !.stage = "APPROVED", !.decidedBy = m]
    <2>4. r \in Row
      BY <2>3 DEF Row, Machine!AiProposalState
    <2>5. prop' = [prop EXCEPT ![p] = r]
      BY <2>2
    <2>6. /\ r.stage = "APPROVED" /\ r.active = prop[p].active /\ r.consent = prop[p].consent
          /\ r.cands = prop[p].cands /\ r.shift = prop[p].shift /\ r.vacated = prop[p].vacated
      BY <2>3 DEF Row
    <2> HIDE DEF r
    <2>7. RowSound(p)'
      <3>1. prop'[p] = r
        <4> HIDE DEF Row
        <4> QED
          BY <2>5 DEF TypeOK
      <3> QED
        BY <1>3, <2>1, <2>3, <2>6, <3>1 DEF RowSound, Approves
    <2>8. /\ agreed \subseteq agreed' /\ agreed' \subseteq Proposals \X Employees
          /\ commits' \in [Proposals -> Nat] /\ holder' \in [Shifts -> Employees]
          /\ \A q \in Proposals \ {p} : commits'[q] = commits[q]
      BY <1>3, <2>1 DEF TypeOK, Approves
    <2> QED
      BY <1>1, <1>2, <1>3, <2>1, <2>4, <2>5, <2>6, <2>7, <2>8, WriteStep
         DEF Decided, DecidingAt, Approves
  <1> QED
    BY <1>4, <1>5

\* Where a finished createReplacement goes: to its client, or on with its scan.
LEMMA AfterCreateIs ==
  ASSUME TypeOK, NEW c \in Calls, call[c].todo # {} => call[c].leaveId \in LeaveRequests
  PROVE  /\ AfterCreate(c) \in CallType
         /\ AfterCreate(c).at \in {"idle", "each"}
         /\ AfterCreate(c).at = "idle" => AfterCreate(c).todo = {} /\ call[c].todo = {}
         /\ AfterCreate(c).at = "each" => /\ AfterCreate(c).todo = call[c].todo
                                          /\ AfterCreate(c).leaveId = call[c].leaveId
                                          /\ call[c].leaveId \in LeaveRequests
  <1>1. CASE call[c].todo = {}
    <2>1. AfterCreate(c) = Idle
      BY <1>1 DEF AfterCreate
    <2> QED
      BY <1>1, <2>1, IdleType DEF Idle
  <1>2. CASE call[c].todo # {}
    <2>1. call[c] \in CallType
      BY DEF TypeOK
    <2>2. AfterCreate(c) = [Idle EXCEPT !.at = "each", !.who = call[c].who,
                                        !.leaveId = call[c].leaveId, !.todo = call[c].todo]
      BY <1>2 DEF AfterCreate
    <2>3. AfterCreate(c) \in CallType
      BY <2>1, <2>2, IdleType DEF CallType, Points, Idle
    <2> QED
      BY <1>2, <2>2, <2>3 DEF Idle
  <1> QED
    BY <1>1, <1>2

LEMMA CreateInsertStep ==
  ASSUME TypeOK, ReplacementInv, NEW c \in Calls, NEW p \in Proposals, CreateInsert(c, p),
         UNCHANGED leaveVars
  PROVE  TypeOK' /\ ReplacementInv'
  <1>1. /\ call[c].at = "insert" /\ prop[p].stage = "ABSENT"
        /\ call[c].shift \in Shifts /\ call[c].vacated \in Employees
        /\ call[c].todo # {} => call[c].leaveId \in LeaveRequests
        /\ UNCHANGED <<holder, leave, autonomy, commits, agreed, leaveVars>>
    BY DEF CreateInsert, ReplacementInv, CallSound
  <1>2. call[c].cands \in SUBSET Employees
    <2>1. call[c] \in CallType
      BY DEF TypeOK
    <2> QED
      BY <2>1 DEF CallType
  <1>3. PICK first : first = Initial(call[c].level, call[c].cands)
    OBVIOUS
  <1>4. \/ first = <<"ESCALATED", None>>
        \/ first = <<"DRAFT", None>>
        \/ \E e \in call[c].cands : first = <<"PENDING_EMPLOYEE_CONSENT", e>>
    BY <1>2, <1>3, InitialOf
  <1> DEFINE r == [NoRow EXCEPT !.stage = first[1], !.active = first[2], !.shift = call[c].shift,
                       !.vacated = call[c].vacated, !.owning = UnitOf[call[c].vacated],
                       !.cands = call[c].cands,
                       !.consent = [e \in Employees |->
                                      IF e = first[2] THEN "PENDING" ELSE "NOT_ASKED"]]
  <1>5. prop' = [prop EXCEPT ![p] = r] /\ call' = [call EXCEPT ![c] = AfterCreate(c)]
    BY <1>3 DEF CreateInsert
  <1>6. /\ r.stage = first[1] /\ r.active = first[2] /\ r.shift = call[c].shift
        /\ r.vacated = call[c].vacated /\ r.cands = call[c].cands
        /\ r.consent = [e \in Employees |-> IF e = first[2] THEN "PENDING" ELSE "NOT_ASKED"]
    BY DEF NoRow
  <1>7. r \in Row
    <2>1. first[1] \in {"ESCALATED", "DRAFT", "PENDING_EMPLOYEE_CONSENT"}
      BY <1>4
    <2>2. first[2] \in Employees \cup {None}
      BY <1>2, <1>4
    <2>3. UnitOf[call[c].vacated] \in Units
      BY <1>1
    <2>4. [e \in Employees |-> IF e = first[2] THEN "PENDING" ELSE "NOT_ASKED"]
            \in [Employees -> ConsentState]
      BY DEF ConsentState
    <2> QED
      BY <1>1, <1>2, <2>1, <2>2, <2>3, <2>4 DEF NoRow, Row, Machine!AiProposalState
  <1> HIDE DEF r
  <1>8. prop' \in [Proposals -> Row] /\ prop'[p] = r /\ \A q \in Proposals \ {p} : prop'[q] = prop[q]
    <2> HIDE DEF Row
    <2> QED
      BY <1>5, <1>7 DEF TypeOK
  <1>9. /\ AfterCreate(c) \in CallType
        /\ AfterCreate(c).at \in {"idle", "each"}
        /\ AfterCreate(c).at = "idle" => AfterCreate(c).todo = {} /\ call[c].todo = {}
        /\ AfterCreate(c).at = "each" => /\ AfterCreate(c).todo = call[c].todo
                                         /\ AfterCreate(c).leaveId = call[c].leaveId
                                         /\ call[c].leaveId \in LeaveRequests
    BY <1>1, AfterCreateIs
  <1>10. PICK k \in CallType : k = AfterCreate(c)
    BY <1>9
  <1>11. call' \in [Calls -> CallType] /\ Moves(c, k)
    BY <1>5, <1>10, MoveType
  <1>12. call'[c] = k
    BY <1>11 DEF Moves
  <1>13. TypeOK'
    BY <1>1, <1>8, <1>11 DEF TypeOK, leaveVars
  <1>14. \A q \in Proposals : RowSound(q)'
    <2>1. \A q \in Proposals \ {p} : RowSound(q)'
      BY <1>1, <1>8 DEF ReplacementInv, RowSound
    <2>2. commits'[p] = 0
      BY <1>1 DEF ReplacementInv, RowSound
    <2>3. \A e \in Employees : r.consent[e] # "GRANTED"
      BY <1>6
    <2>4. r.stage = "PENDING_EMPLOYEE_CONSENT" => r.active \in r.cands /\ r.consent[r.active] = "PENDING"
      <3>1. CASE first[1] = "PENDING_EMPLOYEE_CONSENT"
        <4>1. PICK e \in call[c].cands : first = <<"PENDING_EMPLOYEE_CONSENT", e>>
          BY <1>4, <3>1
        <4>2. e \in Employees /\ first[2] = e
          BY <1>2, <4>1
        <4> QED
          BY <1>6, <4>2
      <3> QED
        BY <1>6, <3>1
    <2>5. r.stage \in {"PENDING_EMPLOYEE_CONSENT", "DRAFT", "ESCALATED"}
          /\ (r.stage # "PENDING_EMPLOYEE_CONSENT" => r.active = None)
      BY <1>4, <1>6
    <2>6. RowSound(p)'
      BY <1>1, <1>6, <1>8, <2>2, <2>3, <2>4, <2>5 DEF RowSound
    <2> QED
      BY <2>1, <2>6
  <1>15. \A d \in Calls : CallSound(d)'
    <2>1. RowsOnward
      BY <1>1, <1>8 DEF RowsOnward
    <2>2. CallSound(c)'
      BY <1>9, <1>10, <1>12 DEF CallSound
    <2> QED
      BY <1>11, <2>1, <2>2, CallsSound
  <1>16. LeaveSound'
    BY <1>1 DEF ReplacementInv, LeaveSound, leaveVars
  <1>17. ScanSound'
    <2>1. \A q \in Proposals : prop[q].shift \in Shifts => prop'[q].shift = prop[q].shift
      <3>1. prop[p].shift = None
        BY <1>1 DEF ReplacementInv, RowSound
      <3> QED
        BY <1>8, <3>1
    <2>2. scanned' = scanned /\ swallowed' = swallowed
      BY <1>1 DEF leaveVars
    <2>3. \A l \in LeaveRequests, s \in Shifts : WillPropose(c, l, s) =>
             WillPropose(c, l, s)' \/ prop'[p].shift = s
      BY <1>6, <1>8, <1>9, <1>10, <1>12 DEF WillPropose
    <2> QED
      BY <1>11, <2>1, <2>2, <2>3, ScanKept
  <1>18. DecideSound'
    <2>1. k.at \notin DecidingAt
      BY <1>9, <1>10 DEF DecidingAt
    <2>2. \A q \in Proposals : prop[q].stage = "PENDING_MANAGER" => prop'[q].stage = "PENDING_MANAGER"
      BY <1>1, <1>8
    <2>3. \A d \in Calls : call[d].at \in DecidingAt => call[d].p \in Proposals
      BY DEF ReplacementInv, CallSound, DecidingAt
    <2> QED
      BY <1>11, <2>1, <2>2, <2>3, DecideKept
  <1> QED
    BY <1>13, <1>14, <1>15, <1>16, <1>17, <1>18 DEF ReplacementInv

-----------------------------------------------------------------------------
(* The rest of the tenant, and leave                                       *)

\* The deadline of a row passes: nothing the invariant is about.
LEMMA DeadlineStep ==
  ASSUME TypeOK, ReplacementInv, NEW p \in Proposals, DeadlinePasses(p), UNCHANGED leaveVars
  PROVE  TypeOK' /\ ReplacementInv'
  <1> DEFINE r == [prop[p] EXCEPT !.late = TRUE]
  <1>1. prop[p] \in Row
    BY DEF TypeOK
  <1>2. /\ r \in Row /\ r.stage = prop[p].stage /\ r.shift = prop[p].shift
        /\ r.vacated = prop[p].vacated /\ r.active = prop[p].active /\ r.cands = prop[p].cands
        /\ r.consent = prop[p].consent
    BY <1>1 DEF Row
  <1>3. prop' = [prop EXCEPT ![p].late = TRUE]
    BY DEF DeadlinePasses
  <1>4. prop' = [prop EXCEPT ![p] = r]
    BY <1>3
  <1> HIDE DEF r
  <1>5. /\ prop' \in [Proposals -> Row]
        /\ prop'[p] = r /\ \A q \in Proposals \ {p} : prop'[q] = prop[q]
    <2> HIDE DEF Row
    <2> QED
      BY <1>2, <1>4 DEF TypeOK
  <1>6. UNCHANGED <<holder, leave, autonomy, commits, call, agreed, leaveVars>>
    BY DEF DeadlinePasses
  <1>7. \A q \in Proposals : /\ prop'[q].stage = prop[q].stage /\ prop'[q].shift = prop[q].shift
                             /\ prop'[q].vacated = prop[q].vacated
                             /\ prop'[q].active = prop[q].active /\ prop'[q].cands = prop[q].cands
                             /\ prop'[q].consent = prop[q].consent
    BY <1>2, <1>5
  <1>8. TypeOK'
    BY <1>5, <1>6 DEF TypeOK, leaveVars
  <1>9. \A q \in Proposals : RowSound(q)'
    BY <1>6, <1>7 DEF ReplacementInv, RowSound
  <1>10. \A d \in Calls : CallSound(d)'
    <2>1. RowsOnward
      BY <1>7 DEF RowsOnward
    <2> QED
      BY <1>6, <2>1, StillSound DEF ReplacementInv
  <1>11. LeaveSound'
    BY <1>6 DEF ReplacementInv, LeaveSound, leaveVars
  <1>12. ScanSound'
    BY <1>6, <1>7 DEF ReplacementInv, ScanSound, WillPropose, leaveVars
  <1>13. DecideSound'
    <2>1. \A d \in Calls : call[d].at \in DecidingAt => call[d].p \in Proposals
      BY DEF ReplacementInv, CallSound, DecidingAt
    <2> QED
      BY <1>6, <1>7, <2>1 DEF ReplacementInv, DecideSound, DecidingAt
  <1> QED
    BY <1>8, <1>9, <1>10, <1>11, <1>12, <1>13 DEF ReplacementInv

\* A planner moves a shift, or the configuration changes: the rows and the
\* calls do not depend on either.
LEMMA PlannerStep ==
  ASSUME TypeOK, ReplacementInv,
         holder' \in [Shifts -> Employees], autonomy' \in [Units -> Levels],
         UNCHANGED <<leave, prop, commits, call, agreed, leaveVars>>
  PROVE  TypeOK' /\ ReplacementInv'
  <1>1. TypeOK'
    BY DEF TypeOK, leaveVars
  <1>2. \A q \in Proposals : RowSound(q)'
    BY DEF ReplacementInv, RowSound
  <1>3. \A d \in Calls : CallSound(d)'
    BY StillSound DEF ReplacementInv, RowsOnward
  <1>4. LeaveSound' /\ ScanSound' /\ DecideSound'
    BY DEF ReplacementInv, LeaveSound, ScanSound, WillPropose, DecideSound, leaveVars
  <1> QED
    BY <1>1, <1>2, <1>3, <1>4 DEF ReplacementInv

LEMMA CreateRequestStep ==
  ASSUME TypeOK, ReplacementInv, NEW l \in LeaveRequests, NEW e \in Employees, CreateRequest(l, e)
  PROVE  TypeOK' /\ ReplacementInv'
  <1>1. UNCHANGED <<holder, leave, autonomy, prop, commits, call, agreed, decider, scanned, swallowed>>
    BY DEF CreateRequest, aiVars
  <1>2. TypeOK'
    BY <1>1 DEF TypeOK, CreateRequest, LeaveStatus
  <1>3. \A q \in Proposals : RowSound(q)'
    BY <1>1 DEF ReplacementInv, RowSound
  <1>4. \A d \in Calls : CallSound(d)'
    BY <1>1, StillSound DEF ReplacementInv, RowsOnward
  <1>5. LeaveSound'
    BY DEF ReplacementInv, LeaveSound, CreateRequest, TypeOK
  <1>6. ScanSound' /\ DecideSound'
    BY <1>1 DEF ReplacementInv, ScanSound, WillPropose, DecideSound
  <1> QED
    BY <1>2, <1>3, <1>4, <1>5, <1>6 DEF ReplacementInv

\* A step of a call of the leave service: the proposals stay.
LEMMA LeaveCallStep ==
  ASSUME TypeOK, ReplacementInv, NEW c \in Calls, NEW k \in CallType,
         call' = [call EXCEPT ![c] = k], k.at \notin DecidingAt,
         UNCHANGED <<holder, autonomy, prop, commits, agreed>>,
         leave' \in [Employees -> SUBSET Days],
         status' \in [LeaveRequests -> LeaveStatus \cup {"ABSENT"}],
         leaveOf' = leaveOf,
         decider' \in [LeaveRequests -> Managers \cup {None}],
         scanned' \subseteq LeaveRequests \X Shifts, swallowed' \subseteq LeaveRequests,
         \A l \in LeaveRequests : status[l] = "ABSENT" => status'[l] = "ABSENT",
         CallSound(c)', ScanSound'
  PROVE  TypeOK' /\ ReplacementInv'
  <1>1. call' \in [Calls -> CallType] /\ Moves(c, k)
    BY MoveType
  <1>2. TypeOK'
    BY <1>1 DEF TypeOK
  <1>3. \A q \in Proposals : RowSound(q)'
    BY DEF ReplacementInv, RowSound
  <1>4. \A d \in Calls : CallSound(d)'
    BY <1>1, CallsSound DEF RowsOnward
  <1>5. LeaveSound'
    BY DEF ReplacementInv, LeaveSound
  <1>6. DecideSound'
    BY <1>1, DecideKept
  <1> QED
    BY <1>2, <1>3, <1>4, <1>5, <1>6 DEF ReplacementInv

\* The guarded update of a request.
LEMMA FlipStep ==
  ASSUME TypeOK, ReplacementInv, NEW c \in Calls, Flip(c)
  PROVE  TypeOK' /\ ReplacementInv'
  <1>1. PICK l \in LeaveRequests : l = call[c].leaveId
    BY DEF Flip, ReplacementInv, CallSound
  <1>2. /\ call[c].at = "flip" /\ call[c].action \in {"approve", "reject", "cancel"}
        /\ \A r \in LeaveRequests, s \in Shifts : ~WillPropose(c, r, s)
    BY DEF Flip, ReplacementInv, CallSound, WillPropose
  <1>3. UNCHANGED <<holder, autonomy, prop, commits, agreed, leaveOf, scanned, swallowed>>
    BY DEF Flip
  <1>4. CASE status[l] # "PENDING"
    <2>1. Return(c) /\ UNCHANGED <<dbVars, leaveVars>>
      BY <1>1, <1>3, <1>4 DEF Flip, dbVars, leaveVars
    <2> QED
      BY <1>2, <2>1, QuitStep
  <1>5. CASE status[l] = "PENDING"
    <2>1. call[c] \in CallType /\ leaveOf[l] \in Employees
      BY <1>5 DEF TypeOK, ReplacementInv, LeaveSound
    <2>2. PICK k \in CallType : /\ call' = [call EXCEPT ![c] = k]
                                /\ k = Idle \/ k = [call[c] EXCEPT !.at = "scan"]
      <3>1. [call[c] EXCEPT !.at = "scan"] \in CallType
        BY <2>1 DEF CallType, Points
      <3> QED
        BY <1>1, <1>5, <3>1, IdleType DEF Flip, TypeOK
    <2>3. k.at \in {"idle", "scan"} /\ k.todo \in {{}, call[c].todo}
          /\ (k.at = "scan" => k.leaveId = l) /\ (k.todo # {} => k.leaveId \in LeaveRequests)
      <3>1. CASE k = Idle
        BY <3>1 DEF Idle
      <3>2. CASE k = [call[c] EXCEPT !.at = "scan"]
        BY <1>1, <2>1, <3>2 DEF CallType
      <3> QED
        BY <2>2, <3>1, <3>2
    <2>4. call'[c] = k /\ Moves(c, k)
      BY <2>2, MoveType DEF Moves
    <2>5. CallSound(c)'
      BY <2>3, <2>4 DEF CallSound
    <2>6. ScanSound'
      BY <1>2, <1>3, <2>4, ScanKept
    <2>7. leave' \in [Employees -> SUBSET Days]
      <3>1. Period[l] \subseteq Days
        OBVIOUS
      <3>2. leave' = leave \/ leave' = [leave EXCEPT ![leaveOf[l]] = @ \cup Period[l]]
        BY <1>1, <1>5 DEF Flip
      <3> QED
        BY <2>1, <3>1, <3>2 DEF TypeOK
    <2>8. /\ status' \in [LeaveRequests -> LeaveStatus \cup {"ABSENT"}]
          /\ \A r \in LeaveRequests : status[r] = "ABSENT" => status'[r] = "ABSENT"
      <3>1. NextLeaveState(call[c].action) \in LeaveStatus
        BY <1>2 DEF NextLeaveState, LeaveStatus
      <3>2. status' = [status EXCEPT ![l] = NextLeaveState(call[c].action)]
        BY <1>1, <1>5 DEF Flip
      <3> QED
        BY <1>5, <3>1, <3>2 DEF TypeOK
    <2>9. decider' \in [LeaveRequests -> Managers \cup {None}]
      <3>1. call[c].who \in Managers \cup {None}
        BY <2>1 DEF CallType
      <3>2. decider' = decider \/ decider' = [decider EXCEPT ![l] = call[c].who]
        BY <1>1, <1>5 DEF Flip
      <3> QED
        BY <3>1, <3>2 DEF TypeOK
    <2>10. scanned' \subseteq LeaveRequests \X Shifts /\ swallowed' \subseteq LeaveRequests
      BY <1>3 DEF TypeOK
    <2>11. k.at \notin DecidingAt
      BY <2>3 DEF DecidingAt
    <2> QED
      BY <1>3, <2>2, <2>5, <2>6, <2>7, <2>8, <2>9, <2>10, <2>11, LeaveCallStep
  <1> QED
    BY <1>4, <1>5

\* The scan finds the vacated shifts, all of which it still has to work on.
LEMMA ScanStep ==
  ASSUME TypeOK, ReplacementInv, NEW c \in Calls, Scan(c)
  PROVE  TypeOK' /\ ReplacementInv'
  <1>1. PICK l \in LeaveRequests : l = call[c].leaveId
    BY DEF Scan, ReplacementInv, CallSound
  <1>2. PICK found : found = Vacated(leaveOf[l], Period[l])
    OBVIOUS
  <1>3. call[c] \in CallType /\ found \subseteq Shifts
    BY <1>2 DEF TypeOK, Vacated, Held
  <1>4. /\ call[c].at = "scan" /\ scanned' = scanned \cup ({l} \X found)
        /\ UNCHANGED <<holder, leave, autonomy, prop, commits, agreed, status, leaveOf, decider,
                       swallowed>>
    BY <1>1, <1>2 DEF Scan, dbVars
  <1>5. PICK k \in CallType : /\ call' = [call EXCEPT ![c] = k]
                              /\ IF found = {} THEN k = Idle
                                 ELSE k = [call[c] EXCEPT !.at = "each", !.todo = found]
    <2>1. [call[c] EXCEPT !.at = "each", !.todo = found] \in CallType
      BY <1>3 DEF CallType, Points
    <2> QED
      BY <1>1, <1>2, <1>3, <2>1, IdleType DEF Scan, TypeOK
  <1>6. /\ found = {} => k = Idle /\ k.at = "idle"
        /\ found # {} => k.at = "each" /\ k.todo = found /\ k.leaveId = l
    <2>1. CASE found = {}
      BY <1>5, <2>1 DEF Idle
    <2>2. CASE found # {}
      BY <1>1, <1>3, <1>5, <2>2 DEF CallType
    <2> QED
      BY <2>1, <2>2
  <1>7. call'[c] = k /\ Moves(c, k)
    BY <1>5, MoveType DEF Moves
  <1>8. CallSound(c)'
    <2>1. CASE found = {}
      BY <1>6, <1>7, <2>1, IdleSound
    <2>2. CASE found # {}
      BY <1>6, <1>7, <2>2 DEF CallSound
    <2> QED
      BY <2>1, <2>2
  <1>9. ScanSound'
    <2> SUFFICES ASSUME NEW r \in LeaveRequests, NEW s \in Shifts, <<r, s>> \in scanned'
                 PROVE  \/ r \in swallowed'
                        \/ \E d \in Calls : WillPropose(d, r, s)'
                        \/ \E p \in Proposals : prop'[p].shift = s
      <3>1. scanned' \subseteq LeaveRequests \X Shifts
        BY <1>3, <1>4 DEF TypeOK
      <3> QED
        BY <3>1 DEF ScanSound
    <2>1. CASE <<r, s>> \in scanned
      <3>1. \/ r \in swallowed
            \/ \E d \in Calls : WillPropose(d, r, s)
            \/ \E p \in Proposals : prop[p].shift = s
        BY <2>1 DEF ReplacementInv, ScanSound
      <3>2. ~WillPropose(c, r, s)
        BY <1>4 DEF WillPropose
      <3>3. \A d \in Calls \ {c} : WillPropose(d, r, s) => WillPropose(d, r, s)'
        BY <1>7 DEF Moves, WillPropose
      <3> QED
        BY <1>4, <3>1, <3>2, <3>3
    <2>2. CASE <<r, s>> \notin scanned
      <3>1. r = l /\ s \in found
        BY <1>4, <2>2
      <3>2. WillPropose(c, r, s)'
        BY <1>6, <1>7, <3>1 DEF WillPropose
      <3> QED
        BY <3>2
    <2> QED
      BY <2>1, <2>2
  <1>10. /\ scanned' \subseteq LeaveRequests \X Shifts /\ swallowed' \subseteq LeaveRequests
         /\ leave' \in [Employees -> SUBSET Days]
         /\ status' \in [LeaveRequests -> LeaveStatus \cup {"ABSENT"}]
         /\ decider' \in [LeaveRequests -> Managers \cup {None}]
    BY <1>3, <1>4 DEF TypeOK
  <1>11. k.at \notin DecidingAt
    BY <1>6 DEF DecidingAt
  <1> QED
    BY <1>4, <1>5, <1>8, <1>9, <1>10, <1>11, LeaveCallStep

\* The loop goes on with a shift, or ends: then its request is swallowed.
LEMMA ScanNextStep ==
  ASSUME TypeOK, ReplacementInv, NEW c \in Calls, NEW s \in Shifts, ScanNext(c, s)
  PROVE  TypeOK' /\ ReplacementInv'
  <1>1. PICK l \in LeaveRequests : l = call[c].leaveId
    BY DEF ScanNext, ReplacementInv, CallSound
  <1>2. call[c] \in CallType /\ holder[s] \in Employees
    BY DEF TypeOK
  <1>3. /\ call[c].at = "each" /\ s \in call[c].todo
        /\ UNCHANGED <<holder, leave, autonomy, prop, commits, agreed, status, leaveOf, decider,
                       scanned>>
    BY DEF ScanNext, dbVars
  <1>4. PICK k \in CallType :
           /\ call' = [call EXCEPT ![c] = k]
           /\ \/ k = Idle /\ swallowed' = swallowed \cup {l}
              \/ /\ k = [call[c] EXCEPT !.at = "rank", !.shift = s, !.vacated = holder[s],
                                        !.todo = @ \ {s}]
                 /\ swallowed' = swallowed
    <2>1. [call[c] EXCEPT !.at = "rank", !.shift = s, !.vacated = holder[s], !.todo = @ \ {s}]
            \in CallType
      BY <1>2 DEF CallType, Points
    <2>2. CASE Return(c) /\ swallowed' = swallowed \cup {l}
      BY <2>2, IdleType DEF Return
    <2>3. CASE ~(Return(c) /\ swallowed' = swallowed \cup {l})
      <3>1. /\ call' = [call EXCEPT ![c].at = "rank", ![c].shift = s, ![c].vacated = holder[s],
                                    ![c].todo = @ \ {s}]
            /\ swallowed' = swallowed
        BY <1>1, <2>3 DEF ScanNext
      <3>2. call' = [call EXCEPT ![c] = [call[c] EXCEPT !.at = "rank", !.shift = s,
                                                        !.vacated = holder[s], !.todo = @ \ {s}]]
        BY <3>1
      <3> QED
        BY <2>1, <3>1, <3>2
    <2> QED
      BY <2>2, <2>3
  <1>5. /\ k.at \in {"idle", "rank"} /\ k.at \notin DecidingAt
        /\ k.at = "idle" => k = Idle /\ l \in swallowed'
        /\ k.at = "rank" => /\ k.shift = s /\ k.vacated = holder[s] /\ k.leaveId = l
                            /\ k.todo = call[c].todo \ {s}
    <2>1. CASE k = Idle /\ swallowed' = swallowed \cup {l}
      BY <2>1 DEF Idle, DecidingAt
    <2>2. CASE k = [call[c] EXCEPT !.at = "rank", !.shift = s, !.vacated = holder[s],
                                   !.todo = @ \ {s}]
      BY <1>1, <1>2, <2>2 DEF CallType, DecidingAt
    <2> QED
      BY <1>4, <2>1, <2>2
  <1>6. call'[c] = k /\ Moves(c, k)
    BY <1>4, MoveType DEF Moves
  <1>7. CallSound(c)'
    <2>1. CASE k = Idle
      BY <1>6, <2>1, IdleSound
    <2>2. CASE k.at = "rank"
      BY <1>2, <1>5, <1>6, <2>2 DEF CallSound
    <2> QED
      BY <1>5, <2>1, <2>2
  <1>8. ScanSound'
    <2>1. \A r \in LeaveRequests, u \in Shifts : WillPropose(c, r, u) =>
             WillPropose(c, r, u)' \/ r \in swallowed'
      BY <1>1, <1>3, <1>5, <1>6 DEF WillPropose
    <2>2. swallowed \subseteq swallowed' /\ scanned' = scanned
          /\ \A p \in Proposals : prop'[p].shift = prop[p].shift
      BY <1>3, <1>4
    <2> QED
      BY <1>6, <2>1, <2>2, ScanKept
  <1>9. /\ scanned' \subseteq LeaveRequests \X Shifts /\ swallowed' \subseteq LeaveRequests
        /\ leave' \in [Employees -> SUBSET Days]
        /\ status' \in [LeaveRequests -> LeaveStatus \cup {"ABSENT"}]
        /\ decider' \in [LeaveRequests -> Managers \cup {None}]
    BY <1>3, <1>4 DEF TypeOK
  <1> QED
    BY <1>3, <1>4, <1>5, <1>7, <1>8, <1>9, LeaveCallStep

LEMMA LeaveCallFailsStep ==
  ASSUME TypeOK, ReplacementInv, NEW c \in Calls, LeaveCallFails(c)
  PROVE  TypeOK' /\ ReplacementInv'
  <1>1. call[c] \in CallType /\ call[c].leaveId \in LeaveRequests
    BY DEF TypeOK, CallType, LeaveCallFails
  <1>2. /\ UNCHANGED <<holder, leave, autonomy, prop, commits, agreed, status, leaveOf, decider,
                       scanned>>
        /\ swallowed' = IF call[c].at = "flip" THEN swallowed
                        ELSE swallowed \cup {call[c].leaveId}
        /\ call' = [call EXCEPT ![c] = Idle]
    BY DEF LeaveCallFails, dbVars, Return
  <1>3. call'[c] = Idle /\ Moves(c, Idle)
    BY <1>2, IdleType, MoveType DEF Moves
  <1>4. CallSound(c)'
    BY <1>3, IdleSound
  <1>5. ScanSound'
    <2>1. \A r \in LeaveRequests, u \in Shifts : WillPropose(c, r, u) => r \in swallowed'
      BY <1>2 DEF WillPropose
    <2>2. swallowed \subseteq swallowed' /\ scanned' = scanned
          /\ \A p \in Proposals : prop'[p].shift = prop[p].shift
      BY <1>2
    <2> QED
      BY <1>3, <2>1, <2>2, ScanKept
  <1>6. /\ scanned' \subseteq LeaveRequests \X Shifts /\ swallowed' \subseteq LeaveRequests
        /\ leave' \in [Employees -> SUBSET Days]
        /\ status' \in [LeaveRequests -> LeaveStatus \cup {"ABSENT"}]
        /\ decider' \in [LeaveRequests -> Managers \cup {None}]
    BY <1>1, <1>2 DEF TypeOK
  <1>7. Idle.at \notin DecidingAt
    BY DEF Idle, DecidingAt
  <1> QED
    BY <1>2, <1>4, <1>5, <1>6, <1>7, IdleType, LeaveCallStep

-----------------------------------------------------------------------------
(* The specification                                                       *)

LEMMA InitInv == Init => TypeOK /\ ReplacementInv
  <1> SUFFICES ASSUME Init PROVE TypeOK /\ ReplacementInv
    OBVIOUS
  <1>1. TypeOK
    <2> HIDE DEF Row, CallType, Idle, NoRow
    <2> QED
      BY IdleType DEF Init, AiInit, LeaveInit, TypeOK
  <1>2. \A p \in Proposals : RowSound(p)
    BY DEF Init, AiInit, RowSound, NoRow
  <1>3. \A c \in Calls : CallSound(c)
    BY DEF Init, AiInit, CallSound, Idle
  <1>4. LeaveSound /\ ScanSound
    BY DEF Init, LeaveInit, LeaveSound, ScanSound
  <1>5. DecideSound
    BY DEF Init, AiInit, DecideSound, Idle
  <1> QED
    BY <1>1, <1>2, <1>3, <1>4, <1>5 DEF ReplacementInv

\* One step per operation of the services.
LEMMA NextInv == TypeOK /\ ReplacementInv /\ [Next]_vars => TypeOK' /\ ReplacementInv'
  <1> SUFFICES ASSUME TypeOK, ReplacementInv, [Next]_vars PROVE TypeOK' /\ ReplacementInv'
    OBVIOUS
  <1>1. ASSUME NEW c \in Calls, ProposalCall(c), UNCHANGED leaveVars
        PROVE  TypeOK' /\ ReplacementInv'
    BY <1>1, ReadSteps, CreateReadStep, CreateRankStep, CreateInsertStep, RequestConsentStep,
       ExpireIfStaleStep, AcceptStep, DeclineStep, RejectStep, RevetStep, CommitStep, CallFailsStep
       DEF ProposalCall
  <1>2. ASSUME NEW p \in Proposals, DeadlinePasses(p), UNCHANGED leaveVars
        PROVE  TypeOK' /\ ReplacementInv'
    BY <1>2, DeadlineStep
  <1>3. ASSUME NEW m \in Managers, NEW u \in Units, NEW level \in Levels,
               UpsertConfig(m, u, level), UNCHANGED leaveVars
        PROVE  TypeOK' /\ ReplacementInv'
    BY <1>3, PlannerStep DEF UpsertConfig, TypeOK
  <1>4. ASSUME NEW s \in Shifts, NEW e \in Employees, UpdateShift(s, e)
        PROVE  TypeOK' /\ ReplacementInv'
    BY <1>4, PlannerStep DEF UpdateShift, TypeOK
  <1>5. ASSUME LeaveNext
        PROVE  TypeOK' /\ ReplacementInv'
    BY <1>5, CreateRequestStep, LeaveLoadStep, FlipStep, ScanStep, ScanNextStep, LeaveCallFailsStep
       DEF LeaveNext
  <1>6. CASE UNCHANGED vars
    BY <1>6, PlannerStep DEF vars, aiVars, TypeOK
  <1> QED
    BY <1>1, <1>2, <1>3, <1>4, <1>5, <1>6 DEF Next, AiNext

\* The rows, the calls, the leave requests and the scans are as described, in
\* every reachable state.
THEOREM Invariant == Spec => [](TypeOK /\ ReplacementInv)
  BY InitInv, NextInv, PTL DEF Spec

\* Every variable keeps its type.
THEOREM TypeCorrect == Spec => []TypeOK
  BY Invariant, PTL

\* Nobody is given a shift by a proposal they have not accepted themselves, and
\* a proposal that awaits consent has asked its active candidate.
THEOREM Consents == Spec => []ConsentSound
  <1>1. TypeOK /\ ReplacementInv => ConsentSound
    <2> SUFFICES ASSUME TypeOK, ReplacementInv PROVE ConsentSound
      OBVIOUS
    <2>1. \A p \in Proposals : RowSound(p) /\ prop[p].cands \subseteq Employees
      BY DEF ReplacementInv, TypeOK, Row
    <2>2. ConsentBeforeApproval
      BY <2>1 DEF RowSound, ConsentBeforeApproval
    <2>3. ActiveCandidate
      BY <2>1 DEF RowSound, ActiveCandidate
    <2> QED
      BY <2>2, <2>3 DEF ConsentSound
  <1> QED
    BY <1>1, Invariant, PTL

\* A scan that did not fail leaves a proposal for every shift it has found, or
\* is still at work on it.
THEOREM ScansPropose == Spec => []ScanProposes
  <1>1. ReplacementInv => ScanProposes
    BY DEF ReplacementInv, ScanSound, ScanProposes, WillPropose
  <1> QED
    BY <1>1, Invariant, PTL

\* The calls other than a commit that goes through write no approval.
LEMMA OnlyCommits ==
  ASSUME TypeOK, ReplacementInv, [Next]_vars
  PROVE  \/ commits' = commits
         \/ \E c \in Calls : Commit(c)
  <1>1. CASE AiNext
    <2>1. ASSUME NEW c \in Calls, ProposalCall(c), ~Commit(c) PROVE commits' = commits
      <3>1. ASSUME NEW p \in Proposals,
                   \/ CreateInsert(c, p)
                   \/ \E m \in Managers : RequestConsentLoad(c, m, p)
                   \/ ReadStale(c, p)
                   \/ \E e \in Employees, answer \in {"accept", "decline"} :
                         ConsentLoad(c, e, p, answer)
                   \/ \E m \in Managers, approve \in BOOLEAN : DecisionLoad(c, m, p, approve)
            PROVE  commits' = commits
        BY <3>1 DEF CreateInsert, RequestConsentLoad, ReadStale, ConsentLoad, DecisionLoad, dbVars
      <3>2. CASE RequestConsent(c) \/ ExpireIfStale(c) \/ Accept(c) \/ Decline(c) \/ Reject(c)
        BY <3>2 DEF RequestConsent, ExpireIfStale, Accept, Decline, Reject
      <3>3. CASE Revet(c) \/ CallFails(c) \/ CreateRank(c)
                 \/ \E m \in Managers, s \in ByHand : CreateRead(c, m, s)
        BY <3>3 DEF Revet, CallFails, CreateRank, CreateRead, dbVars
      <3> QED
        BY <2>1, <3>1, <3>2, <3>3 DEF ProposalCall
    <2> QED
      BY <1>1, <2>1 DEF AiNext, DeadlinePasses, UpsertConfig
  <1>2. CASE LeaveNext
    BY <1>2 DEF LeaveNext, CreateRequest, DecideLoad, CancelLoad, Flip, Scan, ScanNext,
        LeaveCallFails, dbVars, aiVars
  <1>3. CASE ~AiNext /\ ~LeaveNext
    BY <1>3 DEF Next, UpdateShift, vars, aiVars
  <1> QED
    BY <1>1, <1>2, <1>3

\* An approval takes the shift from the employee the proposal was made for and
\* gives it to the candidate who has agreed, whoever moves shifts meanwhile.
THEOREM ApprovalsTake == Spec => TakesFromVacated
  <1>1. TypeOK /\ ReplacementInv /\ [Next]_vars =>
          \A p \in Proposals : commits'[p] # commits[p] =>
             /\ holder[prop[p].shift] = prop[p].vacated
             /\ holder'[prop[p].shift] = prop[p].active
    <2> SUFFICES ASSUME TypeOK, ReplacementInv, [Next]_vars, NEW p \in Proposals,
                        commits'[p] # commits[p]
                 PROVE  holder[prop[p].shift] = prop[p].vacated
                        /\ holder'[prop[p].shift] = prop[p].active
      OBVIOUS
    <2>1. PICK c \in Calls : Commit(c)
      BY OnlyCommits
    <2>2. /\ call[c].p \in Proposals
          /\ \/ UNCHANGED <<holder, prop, commits>>
             \/ call[c].who \in Managers /\ Approves(call[c].p, call[c].who)
      BY <2>1, CommitWrites
    <2>3. Approves(call[c].p, call[c].who)
      BY <2>2
    <2>4. call[c].p = p
      BY <2>2, <2>3 DEF Approves, TypeOK
    <2> QED
      BY <2>3, <2>4 DEF Approves, TypeOK
  <1> QED
    BY <1>1, Invariant, PTL DEF Spec, TakesFromVacated

\* Of the decisions on a leave request one counts.
THEOREM DecidedOnce == Spec => LeaveDecidedOnce
  <1>1. TypeOK /\ ReplacementInv /\ [Next]_vars =>
          \A l \in LeaveRequests : status[l] \notin {"ABSENT", "PENDING"} =>
             status'[l] = status[l] /\ decider'[l] = decider[l]
    <2> SUFFICES ASSUME TypeOK, ReplacementInv, [Next]_vars, NEW l \in LeaveRequests,
                        status[l] \notin {"ABSENT", "PENDING"}
                 PROVE  status'[l] = status[l] /\ decider'[l] = decider[l]
      OBVIOUS
    <2>1. ASSUME NEW r \in LeaveRequests, NEW e \in Employees, CreateRequest(r, e)
          PROVE  status'[l] = status[l] /\ decider'[l] = decider[l]
      BY <2>1 DEF CreateRequest, TypeOK
    <2>2. ASSUME NEW c \in Calls, Flip(c)
          PROVE  status'[l] = status[l] /\ decider'[l] = decider[l]
      BY <2>2 DEF Flip, TypeOK
    <2>3. ASSUME UNCHANGED <<status, decider>>
          PROVE  status'[l] = status[l] /\ decider'[l] = decider[l]
      BY <2>3
    <2>4. CASE LeaveNext
      BY <2>1, <2>2, <2>3, <2>4 DEF LeaveNext, DecideLoad, CancelLoad, Scan, ScanNext,
          LeaveCallFails, leaveVars
    <2> QED
      BY <2>3, <2>4 DEF Next, UpdateShift, vars, leaveVars
  <1> QED
    BY <1>1, Invariant, PTL DEF Spec, LeaveDecidedOnce

-----------------------------------------------------------------------------
(* The rows follow packages/shared/src/ai-grafik.ts                        *)

\* The pairs of states the writes of the service persist.
LEMMA ServiceWrites ==
  {<<"ABSENT", "DRAFT">>, <<"ABSENT", "ESCALATED">>, <<"ABSENT", "PENDING_EMPLOYEE_CONSENT">>,
   <<"DRAFT", "ESCALATED">>, <<"DRAFT", "PENDING_EMPLOYEE_CONSENT">>,
   <<"PENDING_EMPLOYEE_CONSENT", "ESCALATED">>,
   <<"PENDING_EMPLOYEE_CONSENT", "PENDING_EMPLOYEE_CONSENT">>,
   <<"PENDING_EMPLOYEE_CONSENT", "PENDING_MANAGER">>,
   <<"PENDING_MANAGER", "REJECTED">>, <<"PENDING_MANAGER", "APPROVED">>} \subseteq Machine!Writes
  <1>1. \A t \in Machine!AI_TRANSITIONS : <<t[1], t[3]>> \in Machine!Writes
    BY DEF Machine!Writes
  <1>2. \A t \in Machine!AI_TRANSITIONS : t[1] = "DRAFT" => <<"ABSENT", t[3]>> \in Machine!Writes
    BY DEF Machine!Writes
  <1>3. /\ <<"DRAFT", "ask_consent", "PENDING_EMPLOYEE_CONSENT">> \in Machine!AI_TRANSITIONS
        /\ <<"DRAFT", "direct_escalate", "ESCALATED">> \in Machine!AI_TRANSITIONS
        /\ <<"PENDING_EMPLOYEE_CONSENT", "expire", "ESCALATED">> \in Machine!AI_TRANSITIONS
        /\ <<"PENDING_EMPLOYEE_CONSENT", "employee_decline_next", "PENDING_EMPLOYEE_CONSENT">>
             \in Machine!AI_TRANSITIONS
        /\ <<"PENDING_MANAGER", "manager_reject", "REJECTED">> \in Machine!AI_TRANSITIONS
        /\ <<"PENDING_MANAGER", "manager_approve", "APPROVED">> \in Machine!AI_TRANSITIONS
    BY DEF Machine!AI_TRANSITIONS
  <1>4. {<<"PENDING_EMPLOYEE_CONSENT", "PENDING_MANAGER">>, <<"ABSENT", "DRAFT">>}
          \subseteq Machine!Writes
    BY DEF Machine!Writes
  <1> QED
    BY <1>1, <1>2, <1>3, <1>4

\* A write to one row is a step of the machine.
LEMMA RowWritten ==
  ASSUME NEW p \in Proposals, NEW from, NEW to, <<from, to>> \in Machine!Writes,
         prop[p].stage = from, prop'[p].stage = to,
         \A q \in Proposals \ {p} : prop'[q].stage = prop[q].stage,
         commits' = IF to = "APPROVED" THEN [commits EXCEPT ![p] = @ + 1] ELSE commits
  PROVE  Machine!Next
  <1>1. stage[p] = from /\ stage' = [stage EXCEPT ![p] = to]
    BY DEF stage
  <1>2. Machine!Write(p, from, to)
    BY <1>1 DEF Machine!Write
  <1> QED
    BY <1>2 DEF Machine!Next

\* A row's state is written, or none is.
Writes(p) ==
    \/ prop' = prop /\ commits' = commits
    \/ /\ <<prop[p].stage, prop'[p].stage>> \in Machine!Writes
       /\ \A q \in Proposals \ {p} : prop'[q].stage = prop[q].stage
       /\ commits' = IF prop'[p].stage = "APPROVED" THEN [commits EXCEPT ![p] = @ + 1] ELSE commits

LEMMA WritesFollow ==
  ASSUME NEW p \in Proposals, Writes(p)
  PROVE  Machine!Next \/ UNCHANGED <<stage, commits>>
  BY RowWritten DEF Writes, stage

\* The answers, deadlines and escalations are guarded on the state.
LEMMA GuardedWrites ==
  ASSUME TypeOK, ReplacementInv, NEW c \in Calls,
         RequestConsent(c) \/ ExpireIfStale(c) \/ Accept(c) \/ Decline(c)
  PROVE  \E p \in Proposals : Writes(p)
  <1>1. PICK p \in Proposals : p = call[c].p
    BY DEF RequestConsent, ExpireIfStale, Accept, Decline, ReplacementInv, CallSound
  <1>2. prop \in [Proposals -> Row] /\ commits' = commits
    BY DEF TypeOK, RequestConsent, ExpireIfStale, Accept, Decline
  <1>3. prop[p] \in [stage : Machine!AiProposalState \cup {"ABSENT"}, shift : Shifts \cup {None},
                     vacated : Employees \cup {None}, owning : Units \cup {None},
                     cands : SUBSET Employees, active : Employees \cup {None},
                     consent : [Employees -> ConsentState], late : BOOLEAN,
                     decidedBy : Managers \cup {None}]
    BY <1>2 DEF Row
  <1>4. CASE RequestConsent(c)
    <2>1. prop' # prop => /\ prop[p].stage = "DRAFT"
                          /\ prop'[p].stage \in {"ESCALATED", "PENDING_EMPLOYEE_CONSENT"}
                          /\ \A q \in Proposals \ {p} : prop'[q] = prop[q]
      BY <1>1, <1>2, <1>3, <1>4, Transitions DEF RequestConsent
    <2> QED
      BY <1>2, <2>1, ServiceWrites DEF Writes
  <1>5. CASE ExpireIfStale(c)
    <2>1. prop' # prop => /\ prop[p].stage = "PENDING_EMPLOYEE_CONSENT"
                          /\ prop'[p].stage = "ESCALATED"
                          /\ \A q \in Proposals \ {p} : prop'[q] = prop[q]
      BY <1>1, <1>2, <1>3, <1>5, Transitions DEF ExpireIfStale
    <2> QED
      BY <1>2, <2>1, ServiceWrites DEF Writes
  <1>6. CASE Accept(c)
    <2>1. prop' # prop => /\ prop[p].stage = "PENDING_EMPLOYEE_CONSENT"
                          /\ prop'[p].stage = "PENDING_MANAGER"
                          /\ \A q \in Proposals \ {p} : prop'[q] = prop[q]
      BY <1>1, <1>2, <1>3, <1>6, Transitions DEF Accept
    <2> QED
      BY <1>2, <2>1, ServiceWrites DEF Writes
  <1>7. CASE Decline(c)
    <2>1. prop' # prop => /\ prop[p].stage = "PENDING_EMPLOYEE_CONSENT"
                          /\ prop'[p].stage \in {"ESCALATED", "PENDING_EMPLOYEE_CONSENT"}
                          /\ \A q \in Proposals \ {p} : prop'[q] = prop[q]
      BY <1>1, <1>2, <1>3, <1>7, Transitions DEF Decline
    <2> QED
      BY <1>2, <2>1, ServiceWrites DEF Writes
  <1> QED
    BY <1>4, <1>5, <1>6, <1>7

\* A decision is not guarded on the state when it rejects: what keeps it on the
\* table is that managers do not decide one proposal at the same time.
LEMMA DecisionWrites ==
  ASSUME Coordinated, TypeOK, ReplacementInv, NEW c \in Calls, Reject(c) \/ Commit(c)
  PROVE  \E p \in Proposals : Writes(p)
  <1>1. prop \in [Proposals -> Row] /\ commits \in [Proposals -> Nat]
    BY DEF TypeOK
  <1>2. CASE Reject(c)
    <2>1. PICK p \in Proposals : p = call[c].p
      BY <1>2 DEF Reject, ReplacementInv, CallSound
    <2>2. prop[p].stage = "PENDING_MANAGER"
      BY <1>2, <2>1 DEF Reject, ReplacementInv, DecideSound
    <2>3. /\ prop' = [prop EXCEPT ![p].stage = "REJECTED", ![p].decidedBy = call[c].who]
          /\ commits' = commits
      BY <1>2, <2>1, Transitions DEF Reject
    <2>4. prop'[p].stage = "REJECTED" /\ \A q \in Proposals \ {p} : prop'[q] = prop[q]
      BY <1>1, <2>3 DEF Row
    <2> QED
      BY <2>2, <2>3, <2>4, ServiceWrites DEF Writes
  <1>3. CASE Commit(c)
    <2>1. /\ call[c].p \in Proposals
          /\ \/ UNCHANGED <<holder, prop, commits>>
             \/ call[c].who \in Managers /\ Approves(call[c].p, call[c].who)
      BY <1>3, CommitWrites
    <2>2. CASE UNCHANGED <<holder, prop, commits>>
      BY <2>1, <2>2 DEF Writes
    <2>3. CASE call[c].who \in Managers /\ Approves(call[c].p, call[c].who)
      <3>1. PICK p \in Proposals, m \in Managers : p = call[c].p /\ m = call[c].who /\ Approves(p, m)
        BY <2>1, <2>3
      <3>2. prop'[p].stage = "APPROVED" /\ \A q \in Proposals \ {p} : prop'[q] = prop[q]
        BY <1>1, <3>1 DEF Row, Approves
      <3> QED
        BY <3>1, <3>2, ServiceWrites DEF Writes, Approves
    <2> QED
      BY <2>1, <2>2, <2>3
  <1> QED
    BY <1>2, <1>3

\* A new row starts as a draft, with its first candidate asked, or escalated.
LEMMA CreateWrites ==
  ASSUME TypeOK, ReplacementInv, NEW c \in Calls, NEW p \in Proposals, CreateInsert(c, p)
  PROVE  Writes(p)
  <1>1. PICK first : first = Initial(call[c].level, call[c].cands)
    OBVIOUS
  <1>2. first[1] \in {"ESCALATED", "DRAFT", "PENDING_EMPLOYEE_CONSENT"}
    <2>1. call[c] \in CallType
      BY DEF TypeOK
    <2>2. call[c].cands \in SUBSET Employees
      BY <2>1 DEF CallType
    <2> QED
      BY <1>1, <2>2, InitialOf
  <1>3. /\ prop[p].stage = "ABSENT" /\ commits' = commits
        /\ prop'[p].stage = first[1] /\ \A q \in Proposals \ {p} : prop'[q] = prop[q]
    BY <1>1 DEF CreateInsert, TypeOK, NoRow
  <1> QED
    BY <1>2, <1>3, ServiceWrites DEF Writes

\* Every step of the service is one of the machine, or leaves its state alone.
LEMMA MachineNext ==
  ASSUME Coordinated
  PROVE  TypeOK /\ ReplacementInv /\ [Next]_vars => [Machine!Next]_<<stage, commits>>
  <1> SUFFICES ASSUME TypeOK, ReplacementInv, [Next]_vars
               PROVE  Machine!Next \/ UNCHANGED <<stage, commits>>
    OBVIOUS
  <1>1. ASSUME NEW c \in Calls, ProposalCall(c)
        PROVE  (\E p \in Proposals : Writes(p)) \/ UNCHANGED <<prop, commits>>
    <2>1. ASSUME NEW p \in Proposals,
                 \/ \E m \in Managers : RequestConsentLoad(c, m, p)
                 \/ ReadStale(c, p)
                 \/ \E e \in Employees, answer \in {"accept", "decline"} :
                       ConsentLoad(c, e, p, answer)
                 \/ \E m \in Managers, approve \in BOOLEAN : DecisionLoad(c, m, p, approve)
          PROVE  UNCHANGED <<prop, commits>>
      BY <2>1 DEF RequestConsentLoad, ReadStale, ConsentLoad, DecisionLoad, dbVars
    <2>2. CASE Revet(c) \/ CallFails(c) \/ CreateRank(c)
               \/ \E m \in Managers, s \in ByHand : CreateRead(c, m, s)
      BY <2>2 DEF Revet, CallFails, CreateRank, CreateRead, dbVars
    <2> QED
      BY <1>1, <2>1, <2>2, CreateWrites, GuardedWrites, DecisionWrites DEF ProposalCall
  <1>2. ASSUME NEW p \in Proposals, DeadlinePasses(p)
        PROVE  Writes(p) \/ UNCHANGED <<stage, commits>>
    <2>1. \A q \in Proposals : prop'[q].stage = prop[q].stage
      BY <1>2 DEF DeadlinePasses, TypeOK, Row
    <2> QED
      BY <1>2, <2>1 DEF DeadlinePasses, stage
  <1>3. UNCHANGED <<prop, commits>> => UNCHANGED <<stage, commits>>
    BY DEF stage
  <1>4. CASE AiNext
    BY <1>1, <1>2, <1>3, <1>4, WritesFollow DEF AiNext, UpsertConfig
  <1>5. CASE LeaveNext
    <2>1. UNCHANGED <<prop, commits>>
      BY <1>5 DEF LeaveNext, CreateRequest, DecideLoad, CancelLoad, Flip, Scan, ScanNext,
         LeaveCallFails, dbVars, aiVars
    <2> QED
      BY <1>3, <2>1
  <1>6. CASE ~AiNext /\ ~LeaveNext
    <2>1. UNCHANGED <<prop, commits>>
      BY <1>6 DEF Next, UpdateShift, vars, aiVars
    <2> QED
      BY <1>3, <2>1
  <1> QED
    BY <1>4, <1>5, <1>6

\* Where managers do not decide one proposal at the same time, the rows follow
\* the transition table and every approval is audited once, whatever deadlines,
\* answers, planners and scans race.
THEOREM Refinement ==
  ASSUME Coordinated
  PROVE  Spec => ImplementsMachine
  <1>1. Init => Machine!Init
    BY DEF Init, AiInit, Machine!Init, stage, NoRow
  <1>2. TypeOK /\ ReplacementInv /\ [Next]_vars => [Machine!Next]_<<stage, commits>>
    BY MachineNext
  <1> QED
    BY <1>1, <1>2, Invariant, PTL DEF Spec, ImplementsMachine, Machine!Spec
=============================================================================
