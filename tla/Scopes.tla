------------------------------- MODULE Scopes -------------------------------
(***************************************************************************)
(* Who sees which rows.  Every service of the tenant runtime codes its     *)
(* row scope several times over: in the list, in the read by id and in the *)
(* guards of the operations.  A caller a is                                *)
(*   [global |-> HR or ADMIN_KLIENTA, manages |-> units, self |-> {} or    *)
(*    {employee}],                                                         *)
(* a tenant w is [staff, unit, swaps, proposals], and a leave request, an  *)
(* access grant, a profile and a shift are named by their employee.        *)
(***************************************************************************)
CONSTANT Nobody     \* the target of a swap that is given away

InUnits(w, units) == {e \in w.staff : w.unit[e] \in units}
Parties(s) == {s.requester, s.target} \ {Nobody}

(* LeaveService: list({ mine, unitId }), getById, and the guard of decide *)

LeaveList(w, a, mine, filter) ==
    LET Narrowed(units) == IF filter = {} THEN units ELSE units \cap filter IN
    IF mine THEN a.self
    ELSE IF a.global THEN InUnits(w, Narrowed({w.unit[e] : e \in w.staff}))
    ELSE IF a.manages # {} THEN InUnits(w, Narrowed(a.manages))
    ELSE a.self

\* Variant: a manager outside of the unit falls through to the own request.
LeaveGetByIdFallsThrough(w, a) ==
    {e \in w.staff : a.global \/ w.unit[e] \in a.manages \/ e \in a.self}

LeaveGetById(w, a) ==
    {e \in w.staff : a.global \/ IF a.manages # {} THEN w.unit[e] \in a.manages ELSE e \in a.self}

LeaveDecidable(w, a) == {e \in w.staff \ a.self : a.global \/ w.unit[e] \in a.manages}

(* ShiftSwapService: list({ mine }), assertRequester, assertTarget and     *)
(* assertManager                                                           *)

SwapList(w, a, mine) ==
    LET own == {s \in w.swaps : s.requester \in a.self \/ s.target \in a.self} IN
    IF mine THEN own
    ELSE own \cup {s \in w.swaps : a.global \/ \E e \in Parties(s) : w.unit[e] \in a.manages}

SwapOwn(w, a) == {s \in w.swaps : Parties(s) \cap a.self # {}}
SwapDecidable(w, a) == {s \in w.swaps : a.global \/ \A e \in Parties(s) : w.unit[e] \in a.manages}

(* EmployeesService: resolveScopeUnits under list and getById *)

ScopeUnits(w, a) == IF a.manages # {} THEN a.manages ELSE {w.unit[e] : e \in a.self}
EmployeeList(w, a) == {e \in w.staff : a.global \/ w.unit[e] \in ScopeUnits(w, a)}
EmployeeGetById(w, a) == {e \in w.staff : a.global \/ w.unit[e] \in ScopeUnits(w, a)}

(* AccessService: list and getById; GrafikService: listShifts, getShift *)

AccessList(w, a) == IF a.global THEN w.staff ELSE InUnits(w, a.manages)
AccessGetById(w, a) == {e \in w.staff : a.global \/ w.unit[e] \in a.manages}
ShiftList(w, a) ==
    IF a.global THEN w.staff ELSE IF a.manages # {} THEN InUnits(w, a.manages) ELSE a.self
GetShift(w, a) == {e \in w.staff : a.global \/ w.unit[e] \in a.manages}

(* AiProposalService: list({ mine }), getById, for proposals that await    *)
(* the active candidate's consent                                          *)

MyActivePending(w, a) == {p \in w.proposals : p.active \in a.self}

ProposalList(w, a, mine) ==
    IF a.global \/ a.manages # {} THEN {p \in w.proposals : a.global \/ p.owningUnit \in a.manages}
    ELSE IF mine THEN MyActivePending(w, a) ELSE {}

ProposalGetById(w, a) ==
    {p \in w.proposals : a.global \/ p.owningUnit \in a.manages} \cup MyActivePending(w, a)

-----------------------------------------------------------------------------
\* What the lists, the lists with mine=true, the reads by id and the guards
\* of the operations let a caller through to, as pairs <<resource, row>>.
Listed(w, a) ==
    ({"leave"} \X LeaveList(w, a, FALSE, {})) \cup ({"swap"} \X SwapList(w, a, FALSE))
    \cup ({"employee"} \X EmployeeList(w, a)) \cup ({"access"} \X AccessList(w, a))
    \cup ({"shift"} \X ShiftList(w, a)) \cup ({"proposal"} \X ProposalList(w, a, FALSE))

Mine(w, a) ==
    ({"leave"} \X LeaveList(w, a, TRUE, {})) \cup ({"swap"} \X SwapList(w, a, TRUE))
    \cup ({"proposal"} \X ProposalList(w, a, TRUE))

Opened(w, a) ==
    ({"leave"} \X LeaveGetById(w, a)) \cup ({"employee"} \X EmployeeGetById(w, a))
    \cup ({"access"} \X AccessGetById(w, a)) \cup ({"shift"} \X GetShift(w, a))
    \cup ({"proposal"} \X ProposalGetById(w, a))

Actable(w, a) ==
    ({"leave"} \X (LeaveDecidable(w, a) \cup a.self)) \cup ({"swap"} \X (SwapOwn(w, a) \cup SwapDecidable(w, a)))
    \cup ({"access"} \X AccessGetById(w, a)) \cup ({"shift"} \X GetShift(w, a))
    \cup ({"proposal"} \X MyActivePending(w, a))
=============================================================================
