---------------------------- MODULE Organisation ----------------------------
(***************************************************************************)
(* The tenant's master data: company settings and the tree of              *)
(* organizational units (ustawienia), employees (employees, employeePii,   *)
(* encryption), access grants (dostepy) and the onboarding checklist.      *)
(*                                                                         *)
(* A call that reads, decides and writes is one action per awaited access; *)
(* the database's constraints (the singleton index, the foreign keys, the  *)
(* unique indexes) are checked in the write that they guard.  Audit rows   *)
(* are written last and read by no code: they are left out.                *)
(***************************************************************************)
EXTENDS Naturals, FiniteSets

CONSTANTS
    Units,        \* ids an organizational unit may get
    FirstUnits,   \* units the tenant starts with, none below another
    NoUnit,       \* SQL NULL in parent_id
    Staff,        \* ids an employee may get
    FirstStaff,   \* employees the tenant starts with: id -> [unit, pesel]
    Pesels,       \* national identity numbers
    GrantIds,     \* ids an access grant may get
    Serials,      \* serial numbers of cards and keys
    Managed,      \* the units of the unit-bound manager (managedUnitIds)
    Checks,       \* items of the onboarding checklist
    OrgCalls,     \* HTTP calls in progress at the same time
    MaxOrgCalls   \* bound: calls that are started

ASSUME OrganisationAssumption ==
    /\ FirstUnits \subseteq Units
    /\ Managed \subseteq Units
    /\ DOMAIN FirstStaff \subseteq Staff
    /\ \A e \in DOMAIN FirstStaff : FirstStaff[e].unit \in FirstUnits /\ FirstStaff[e].pesel \in Pesels
    /\ \A e, f \in DOMAIN FirstStaff : FirstStaff[e].pesel = FirstStaff[f].pesel => e = f
    /\ NoUnit \notin Units
    /\ MaxOrgCalls \in Nat

VARIABLES
    parentOf,     \* organizational_unit rows: unit -> parent
    company,      \* company_settings rows
    employee,     \* employee rows: id -> [unit, pesel, peselHash]
    ivs,          \* nonces drawn by the cipher so far
    accessGrant,  \* access_grant rows: id -> [holder, serial, status, notes]
    checklist,    \* the items ticked in tenant.onboarding_checklist
    orgCall,      \* locals of the calls in progress
    orgStarted,   \* calls started so far
    orgOverlap    \* whether calls overlap

rowVars == <<parentOf, company, employee, ivs, accessGrant, checklist>>
orgVars == <<rowVars, orgCall, orgStarted, orgOverlap>>

NoOrgCall == [at |-> "idle"]

\* EncryptionService: a fresh nonce makes two ciphertexts of a number differ.
Encrypt(pesel, iv) == [plain |-> pesel, iv |-> iv]
Decrypt(blob) == blob.plain
HmacBlindIndex(pesel) == pesel

OrgInit ==
    /\ parentOf = [u \in FirstUnits |-> NoUnit]
    /\ company = {}
    /\ employee = [e \in DOMAIN FirstStaff |->
                     [unit |-> FirstStaff[e].unit, pesel |-> Encrypt(FirstStaff[e].pesel, 0),
                      peselHash |-> HmacBlindIndex(FirstStaff[e].pesel)]]
    /\ ivs = 1
    /\ accessGrant = <<>>
    /\ checklist = {}
    /\ orgCall = [c \in OrgCalls |-> NoOrgCall]
    /\ orgStarted = 0
    /\ orgOverlap \in BOOLEAN

\* A call starts with locals k; its first read is part of the step.
StartOrgCall(c, k) ==
    /\ orgCall[c] = NoOrgCall
    /\ orgOverlap \/ \A d \in OrgCalls : orgCall[d] = NoOrgCall
    /\ orgStarted < MaxOrgCalls
    /\ orgStarted' = orgStarted + 1
    /\ orgCall' = [orgCall EXCEPT ![c] = k]
    /\ UNCHANGED <<rowVars, orgOverlap>>

EndOrgCall(c) == orgCall' = [orgCall EXCEPT ![c] = NoOrgCall]
Locals(c, at) == orgCall[c] # NoOrgCall /\ orgCall[c].at = at
With(f, k, v) == [x \in DOMAIN f \cup {k} |-> IF x = k THEN v ELSE f[x]]

-----------------------------------------------------------------------------
(* SettingsService: the company *)

\* A name as it is sent: left out, only spaces, or something.  The validator
\* refuses "".
SentName == {"absent", "spaces", "Acme", "Bolt"}
Trim(name) == IF name \in {"absent", "spaces"} THEN "" ELSE name
Merge(row, k) == [name   |-> IF k.name = "absent" THEN row.name ELSE k.name,
                  region |-> IF k.region = "absent" THEN row.region ELSE k.region]

\* upsertCompany: findFirst, then one of two writes.
UpsertCompany(c, name, region) ==
    /\ IF company = {} THEN Trim(name) # "" ELSE name # "absent" \/ region # "absent"
    /\ StartOrgCall(c, [at |-> IF company = {} THEN "createCompany" ELSE "updateCompany",
                        name |-> name, region |-> region])

\* create; when the index has a row already (P2002) the row is updated instead.
CreateCompany(c) ==
    /\ Locals(c, "createCompany")
    /\ \/ /\ company = {}
          /\ company' = {Merge([name |-> "", region |-> "EU-Central"],
                               [orgCall[c] EXCEPT !.name = Trim(@)])}
          /\ EndOrgCall(c)
       \/ /\ company # {}
          /\ orgCall' = [orgCall EXCEPT ![c].at = "updateCompany"]
          /\ UNCHANGED company
    /\ UNCHANGED <<parentOf, employee, ivs, accessGrant, checklist, orgStarted, orgOverlap>>

UpdateCompany(c) ==
    /\ Locals(c, "updateCompany")
    /\ company' = {Merge(row, orgCall[c]) : row \in company}
    /\ EndOrgCall(c)
    /\ UNCHANGED <<parentOf, employee, ivs, accessGrant, checklist, orgStarted, orgOverlap>>

-----------------------------------------------------------------------------
(* SettingsService: units *)

\* createUnit: one insert; the foreign key refuses a parent that does not exist.
CreateUnit(u, p) ==
    /\ orgStarted < MaxOrgCalls
    /\ orgStarted' = orgStarted + 1
    /\ u \notin DOMAIN parentOf
    /\ p \in DOMAIN parentOf \cup {NoUnit}
    /\ parentOf' = With(parentOf, u, p)
    /\ UNCHANGED <<company, employee, ivs, accessGrant, checklist, orgCall, orgOverlap>>

\* Variant: the walk up the chain is left out.
UpdateUnitUnchecked(c, u, p) ==
    /\ u \in DOMAIN parentOf
    /\ p # u
    /\ StartOrgCall(c, [at |-> "reparent", unit |-> u, parent |-> p, cursor |-> p])

\* updateUnit with a parentId: the unit is read, a self-parent is refused, the
\* walk starts at the proposed parent.
UpdateUnit(c, u, p) ==
    /\ u \in DOMAIN parentOf
    /\ p # u
    /\ StartOrgCall(c, [at |-> IF p = NoUnit THEN "reparent" ELSE "walk",
                        unit |-> u, parent |-> p, cursor |-> p])

\* One findUnique of the walk: a missing unit, and the moved unit itself, end it.
WalkUp(c) ==
    LET k == orgCall[c] IN
    /\ Locals(c, "walk")
    /\ IF k.cursor \notin DOMAIN parentOf \/ k.cursor = k.unit THEN EndOrgCall(c)
       ELSE LET up == parentOf[k.cursor] IN
            orgCall' = [orgCall EXCEPT ![c].cursor = up,
                                       ![c].at = IF up = NoUnit THEN "reparent" ELSE "walk"]
    /\ UNCHANGED <<rowVars, orgStarted, orgOverlap>>

\* organizationalUnit.update, in a transaction that locks nothing it has read.
Reparent(c) ==
    /\ Locals(c, "reparent")
    /\ orgCall[c].parent \in DOMAIN parentOf \cup {NoUnit}
    /\ parentOf' = [parentOf EXCEPT ![orgCall[c].unit] = orgCall[c].parent]
    /\ EndOrgCall(c)
    /\ UNCHANGED <<company, employee, ivs, accessGrant, checklist, orgStarted, orgOverlap>>

-----------------------------------------------------------------------------
(* EmployeesService, employeePii and the cipher *)

\* encryptEmployeePesel
EncryptEmployeePesel(pesel) ==
    [pesel |-> Encrypt(pesel, ivs), peselHash |-> HmacBlindIndex(pesel)]

\* The unique index on pesel_hash.
HashTaken(e, hash) == \E f \in DOMAIN employee \ {e} : employee[f].peselHash = hash

\* create and update: one write each, refused by the unit's key and the index.
SaveEmployee(e, u, enc) ==
    /\ orgStarted < MaxOrgCalls
    /\ orgStarted' = orgStarted + 1
    /\ u \in DOMAIN parentOf
    /\ ~HashTaken(e, enc.peselHash)
    /\ employee' = With(employee, e, [unit |-> u, pesel |-> enc.pesel, peselHash |-> enc.peselHash])
    /\ UNCHANGED <<parentOf, company, accessGrant, checklist, orgCall, orgOverlap>>

CreateEmployee(e, u, pesel) ==
    /\ e \notin DOMAIN employee
    /\ SaveEmployee(e, u, EncryptEmployeePesel(pesel))
    /\ ivs' = ivs + 1

UpdateEmployee(e, u, pesel) ==
    /\ e \in DOMAIN employee
    /\ SaveEmployee(e, u, EncryptEmployeePesel(pesel))
    /\ ivs' = ivs + 1

\* An update without a pesel keeps the ciphertext and its index.
MoveEmployee(e, u) ==
    /\ e \in DOMAIN employee
    /\ SaveEmployee(e, u, employee[e])
    /\ UNCHANGED ivs

-----------------------------------------------------------------------------
(* AccessService *)

\* assertUnitScope: HR and administrators act on every unit, a manager on the
\* managed ones.
InUnitScope(global, e) == global \/ (e \in DOMAIN employee /\ employee[e].unit \in Managed)

\* issue: the employee is read for the scope, the insert comes later.
Issue(c, global, g, e, serial) ==
    /\ g \notin DOMAIN accessGrant
    /\ InUnitScope(global, e)
    /\ StartOrgCall(c, [at |-> "insertGrant", grant |-> g, holder |-> e, serial |-> serial])

\* accessGrant.create: the employee's key, and one ACTIVE grant per serial.
InsertGrant(c) ==
    LET k == orgCall[c] IN
    /\ Locals(c, "insertGrant")
    /\ IF \/ k.grant \in DOMAIN accessGrant
          \/ k.holder \notin DOMAIN employee
          \/ \E h \in DOMAIN accessGrant : accessGrant[h].status = "ACTIVE"
                                           /\ accessGrant[h].serial = k.serial
       THEN UNCHANGED accessGrant
       ELSE accessGrant' = With(accessGrant, k.grant,
                             [holder |-> k.holder, serial |-> k.serial, status |-> "ACTIVE", notes |-> {}])
    /\ EndOrgCall(c)
    /\ UNCHANGED <<parentOf, company, employee, ivs, checklist, orgStarted, orgOverlap>>

\* revoke: the grant, its notes and its holder's unit are read.
Revoke(c, global, g) ==
    /\ g \in DOMAIN accessGrant
    /\ InUnitScope(global, accessGrant[g].holder)
    /\ accessGrant[g].status = "ACTIVE"
    /\ StartOrgCall(c, [at |-> "flip", grant |-> g, notes |-> accessGrant[g].notes \cup {c}])

\* updateMany where status is ACTIVE: the later of two revocations gets a 409.
FlipGrant(c) ==
    LET k == orgCall[c] IN
    /\ Locals(c, "flip")
    /\ IF accessGrant[k.grant].status = "ACTIVE"
       THEN accessGrant' = [accessGrant EXCEPT ![k.grant].status = "REVOKED",
                                               ![k.grant].notes = k.notes]
       ELSE UNCHANGED accessGrant
    /\ EndOrgCall(c)
    /\ UNCHANGED <<parentOf, company, employee, ivs, checklist, orgStarted, orgOverlap>>

-----------------------------------------------------------------------------
(* OnboardingController *)

\* update: the body is an instance of OnboardingDto (ValidationPipe with
\* transform), whose class fields are own properties under the ES2022 target.
\* The ones that were not sent are undefined: spread over the stored list they
\* hide its items, and the loop over the undefined values deletes those.
ReadChecklist(c, ticks, unticks) ==
    /\ ticks \cap unticks = {}
    /\ StartOrgCall(c, [at |-> "writeChecklist", sent |-> ticks \cup unticks, merged |-> ticks])

WriteChecklist(c) ==
    /\ Locals(c, "writeChecklist")
    /\ checklist' = orgCall[c].merged
    /\ EndOrgCall(c)
    /\ UNCHANGED <<parentOf, company, employee, ivs, accessGrant, orgStarted, orgOverlap>>

\* A call breaks off before its next access.
OrgCallFails(c) ==
    /\ orgCall[c] # NoOrgCall
    /\ EndOrgCall(c)
    /\ UNCHANGED <<rowVars, orgStarted, orgOverlap>>

OrgNext ==
    \/ \E c \in OrgCalls :
        \/ \E name \in SentName, region \in {"absent", "EU-West"} : UpsertCompany(c, name, region)
        \/ CreateCompany(c)
        \/ UpdateCompany(c)
        \/ \E u \in Units, p \in Units \cup {NoUnit} : UpdateUnit(c, u, p)
        \/ WalkUp(c)
        \/ Reparent(c)
        \/ \E global \in BOOLEAN, g \in GrantIds, e \in Staff, s \in Serials : Issue(c, global, g, e, s)
        \/ InsertGrant(c)
        \/ \E global \in BOOLEAN, g \in GrantIds : Revoke(c, global, g)
        \/ FlipGrant(c)
        \/ \E ticks, unticks \in SUBSET Checks : ReadChecklist(c, ticks, unticks)
        \/ WriteChecklist(c)
        \/ OrgCallFails(c)
    \/ \E u \in Units, p \in Units \cup {NoUnit} : CreateUnit(u, p)
    \/ \E e \in Staff, u \in Units, p \in Pesels : CreateEmployee(e, u, p) \/ UpdateEmployee(e, u, p)
    \/ \E e \in Staff, u \in Units : MoveEmployee(e, u)

OrgSpec == OrgInit /\ [][OrgNext]_orgVars

-----------------------------------------------------------------------------
(* Properties                                                              *)

Parents == Units \cup {NoUnit}

\* The locals of a call, by what it does next.
OrgCallType ==
    {NoOrgCall}
    \cup [at : {"createCompany", "updateCompany"}, name : SentName, region : {"absent", "EU-West"}]
    \cup [at : {"walk", "reparent"}, unit : Units, parent : Parents, cursor : Parents]
    \cup [at : {"insertGrant"}, grant : GrantIds, holder : Staff, serial : Serials]
    \cup [at : {"flip"}, grant : GrantIds, notes : SUBSET OrgCalls]
    \cup [at : {"writeChecklist"}, sent : SUBSET Checks, merged : SUBSET Checks]

OrgTypeOK ==
    /\ DOMAIN parentOf \subseteq Units
    /\ parentOf \in [DOMAIN parentOf -> DOMAIN parentOf \cup {NoUnit}]
    /\ company = {} \/ \E n \in SentName \cup {""}, r \in {"EU-Central", "EU-West"} :
                          company = {[name |-> n, region |-> r]}
    /\ DOMAIN employee \subseteq Staff
    /\ employee \in [DOMAIN employee -> [unit : DOMAIN parentOf, pesel : [plain : Pesels, iv : Nat],
                                          peselHash : Pesels]]
    /\ ivs \in Nat
    /\ DOMAIN accessGrant \subseteq GrantIds
    /\ accessGrant \in [DOMAIN accessGrant -> [holder : Staff, serial : Serials, status : {"ACTIVE", "REVOKED"},
                                                notes : SUBSET OrgCalls]]
    /\ checklist \subseteq Checks
    /\ orgCall \in [OrgCalls -> OrgCallType]
    /\ orgStarted \in 0..MaxOrgCalls
    /\ orgOverlap \in BOOLEAN

\* Every chain of parents ends at a root: no set of units is closed under
\* taking parents.
UnitsFormTree ==
    \A S \in SUBSET DOMAIN parentOf : (\A u \in S : parentOf[u] \in S) => S = {}

\* The walk of updateUnit keeps the units a tree, whatever is moved, created or
\* broken off in which order, as long as two moves do not overlap.
TreeUnlessOverlap == orgOverlap \/ UnitsFormTree

\* However first and later saves race, a company once configured has a name.
CompanyNamed == \A row \in company : row.name # ""

\* No two employees have the same PESEL, though no two ciphertexts of it are
\* equal (the blind index).
OnePersonPerPesel ==
    \A e, f \in DOMAIN employee :
        Decrypt(employee[e].pesel) = Decrypt(employee[f].pesel) => e = f

\* The rows of a company fit together however its settings and people are
\* edited (UstawieniaService, EmployeesService).
CompanyKept == TreeUnlessOverlap /\ CompanyNamed /\ OnePersonPerPesel

\* Keys absent from a partial update are preserved (OnboardingController.update):
\* between saves that do not overlap, only the items sent change.
ChecklistMerged ==
    [][orgOverlap \/ \A k \in (checklist \ checklist') \cup (checklist' \ checklist) :
          \E c \in OrgCalls : Locals(c, "writeChecklist") /\ k \in orgCall[c].sent]_orgVars

\* A set of units that loses no parent except that of u.
ClosedBut(u, S) == \A v \in S \ {u} : parentOf[v] \in S

\* What the walk of updateUnit knows: its cursor is above the proposed parent on
\* a way that does not pass the moved unit; at the top no such way leads down.
WalkKnows(k) ==
    /\ k.at \in {"walk", "reparent"} => k.unit \in DOMAIN parentOf
    /\ k.at = "walk" =>
          \A S \in SUBSET DOMAIN parentOf : ClosedBut(k.unit, S) /\ k.parent \in S => k.cursor \in S
    /\ k.at = "walk" => k.cursor = k.parent \/ k.parent \in DOMAIN parentOf
    /\ k.at = "reparent" => k.parent \in DOMAIN parentOf \cup {NoUnit}
    /\ k.at = "reparent" => \A S \in SUBSET DOMAIN parentOf : ClosedBut(k.unit, S) => k.parent \notin S

OneOrgCall == \A c, d \in OrgCalls : orgCall[c] # NoOrgCall /\ orgCall[d] # NoOrgCall => c = d

TreeInv == ~orgOverlap => OneOrgCall /\ UnitsFormTree /\ \A c \in OrgCalls : WalkKnows(orgCall[c])

\* A first save has a name, and no save carries the empty one.
NameInv == CompanyNamed /\ \A c \in OrgCalls : Locals(c, "createCompany") => Trim(orgCall[c].name) # ""

\* The index column follows the ciphertext, and the index is unique.
HashInv ==
    /\ \A e \in DOMAIN employee : employee[e].peselHash = employee[e].pesel.plain
    /\ \A e, f \in DOMAIN employee : employee[e].peselHash = employee[f].peselHash => e = f

\* Why CompanyKept holds.
OrgInv == TreeInv /\ NameInv /\ HashInv
=============================================================================
