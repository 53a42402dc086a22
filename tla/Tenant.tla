------------------------------- MODULE Tenant -------------------------------
(***************************************************************************)
(* The people of one tenant: employees in organisational units, and the    *)
(* users who act on them.  HR and the tenant's administrator act across    *)
(* every unit, a manager on the units of their MANAGER roles               *)
(* (tenant-runtime/rbac/unit-scope.ts).                                    *)
(***************************************************************************)
CONSTANTS
    Employees, Units, Managers,
    UnitOf,       \* employee.unitId
    GlobalRoles,  \* the managers whose token carries HR or ADMIN_KLIENTA
    Manages,      \* units of a manager's MANAGER roles
    EmployeeOf,   \* the employee record of a manager's login, or None
    None          \* SQL NULL

ASSUME TenantAssumption ==
    /\ None \notin Employees \cup Units \cup Managers
    /\ UnitOf \in [Employees -> Units]
    /\ GlobalRoles \subseteq Managers
    /\ Manages \in [Managers -> SUBSET Units]
    /\ EmployeeOf \in [Managers -> Employees \cup {None}]

\* isGlobal || managedUnitIds(...).includes(unitId)
InScope(m, u) == m \in GlobalRoles \/ u \in Manages[m]
=============================================================================
