------------------------------- MODULE Users -------------------------------
(***************************************************************************)
(* Users and roles of a tenant (apps/tenant-runtime/src/users).            *)
(*                                                                         *)
(* Every change is written twice: to Keycloak, whose realm roles become    *)
(* the claims of the next token, and to the tenant's user and user_role    *)
(* tables.  A call is one action per awaited access to either store.  The  *)
(* mutations of administrators run in a SERIALIZABLE transaction, which    *)
(* covers the tables and not Keycloak.                                     *)
(***************************************************************************)
EXTENDS Naturals, FiniteSets

CONSTANTS
    Logins,       \* people, by e-mail address
    Grants,       \* pairs <<role, unit>> that administrators grant and revoke
    Admins,       \* administrators the tenant starts with
    UserCalls,    \* HTTP calls in progress at the same time
    Regimes,      \* how the administrators work: see regime
    MaxUserCalls, \* bound: calls that are started
    Anywhere      \* SQL NULL in user_role.unit_id: not bound to a unit

\* ROLE_RANK
RoleRank == [PRACOWNIK |-> 0, MANAGER |-> 1, HR |-> 2, ADMIN_KLIENTA |-> 3]
Role == DOMAIN RoleRank
Admin == "ADMIN_KLIENTA"

ASSUME UsersAssumption ==
    /\ Admins \subseteq Logins /\ Admins # {}
    /\ \A g \in Grants : g[1] \in Role
    /\ Regimes \subseteq [overlap : BOOLEAN, repair : BOOLEAN, promote : BOOLEAN, grants : SUBSET Grants]
    /\ MaxUserCalls \in Nat

VARIABLES
    account,      \* user row: "ABSENT", "ACTIVE" or "INACTIVE"
    userRoles,    \* user_role rows <<user, role, unit>>
    login,        \* the Keycloak user: "ABSENT", "ENABLED" or "DISABLED"
    realmRoles,   \* realm roles mapped to the Keycloak user
    claims,       \* hrobot_roles of the token a user holds
    userCall,     \* locals of the calls in progress
    started,      \* calls started so far
    regime        \* overlap: calls overlap; repair: reconcile runs with fix;
                  \* promote: administrators are appointed meanwhile;
                  \* grants: the grants they deal with

usersVars == <<account, userRoles, login, realmRoles, claims, userCall, started, regime>>

NoUserCall == [at |-> "idle", user |-> "", role |-> "", unit |-> Anywhere, op |-> "",
               created |-> FALSE, tx |-> FALSE, doomed |-> FALSE, todo |-> {}]

UsersInit ==
    /\ account = [u \in Logins |-> IF u \in Admins THEN "ACTIVE" ELSE "ABSENT"]
    /\ userRoles = Admins \X {Admin} \X {Anywhere}
    /\ login = [u \in Logins |-> IF u \in Admins THEN "ENABLED" ELSE "ABSENT"]
    /\ realmRoles = [u \in Logins |-> IF u \in Admins THEN {Admin} ELSE {}]
    /\ claims = realmRoles
    /\ userCall = [c \in UserCalls |-> NoUserCall]
    /\ started = 0
    /\ regime \in Regimes

storeVars == <<account, userRoles, login, realmRoles, claims>>

RolesOf(u) == {r[2] : r \in {x \in userRoles : x[1] = u}}

\* The set the last-admin guard counts: any ADMIN_KLIENTA row of an active user.
ActiveAdmins == {u \in Logins : account[u] = "ACTIVE" /\ Admin \in RolesOf(u)}

\* Whose calls pass the claim of the token, then requireRealAdmin.
RealAdmins == {a \in ActiveAdmins : Admin \in claims[a]}

\* A call of an administrator may start: it overlaps others only where the regime says so.
MayStart(c) ==
    /\ userCall[c].at = "idle"
    /\ RealAdmins # {}
    /\ regime.overlap \/ \A d \in UserCalls : userCall[d].at = "idle"
    /\ started < MaxUserCalls

\* It starts; what it needs is read in the same step.
StartUserCall(c, u, at, op, g, read) ==
    /\ started' = started + 1
    /\ userCall' = [userCall EXCEPT ![c] =
                      [NoUserCall EXCEPT !.at = at, !.user = u, !.op = op, !.role = g[1], !.unit = g[2],
                                          !.todo = read]]
    /\ UNCHANGED <<storeVars, regime>>

GoTo(c, at) == userCall' = [userCall EXCEPT ![c].at = at]
EndUserCall(c) == userCall' = [userCall EXCEPT ![c] = NoUserCall]

\* assertGlobalAdminGrant
GlobalAdminGrant(g) == g[1] = Admin => g[2] = Anywhere

-----------------------------------------------------------------------------
(* invite *)

Invite(c, u, g) ==
    /\ GlobalAdminGrant(g)
    /\ g[1] = Admin => regime.promote
    /\ account[u] = "ABSENT"
    /\ StartUserCall(c, u, "createLogin", "invite", g, {})

\* KeycloakAdminService.createUser: a 409 resolves to the login that exists.
CreateLogin(c) ==
    LET u == userCall[c].user IN
    /\ userCall[c].at = "createLogin"
    /\ login' = [login EXCEPT ![u] = IF @ = "ABSENT" THEN "ENABLED" ELSE @]
    /\ userCall' = [userCall EXCEPT ![c].at = "createAccount", ![c].created = login[u] = "ABSENT"]
    /\ UNCHANGED <<account, userRoles, realmRoles, claims, started, regime>>

\* user.create; on a duplicate the login this call made is disabled again.
CreateAccount(c) ==
    LET u == userCall[c].user IN
    /\ userCall[c].at = "createAccount"
    /\ \/ /\ account[u] = "ABSENT"
          /\ account' = [account EXCEPT ![u] = "ACTIVE"]
          /\ GoTo(c, "grantRow")
       \/ /\ account[u] # "ABSENT"
          /\ UNCHANGED account
          /\ IF userCall[c].created THEN GoTo(c, "compensate") ELSE EndUserCall(c)
    /\ UNCHANGED <<userRoles, login, realmRoles, claims, started, regime>>

Compensate(c) ==
    /\ userCall[c].at = "compensate"
    /\ login' = [login EXCEPT ![userCall[c].user] = "DISABLED"]
    /\ EndUserCall(c)
    /\ UNCHANGED <<account, userRoles, realmRoles, claims, started, regime>>

(* assignRole, and grant: the row first, then Keycloak *)

AssignRole(c, u, g) ==
    /\ GlobalAdminGrant(g)
    /\ g[1] = Admin => regime.promote
    /\ account[u] # "ABSENT"
    /\ \E a \in RealAdmins : u = a => \E r \in RolesOf(a) : RoleRank[g[1]] <= RoleRank[r]
    /\ StartUserCall(c, u, "grantRow", "assign", g, {})

\* userRole.create; the unique violation of a row that exists is no error.
GrantRow(c) ==
    LET k == userCall[c] IN
    /\ k.at = "grantRow"
    /\ userRoles' = userRoles \cup {<<k.user, k.role, k.unit>>}
    /\ GoTo(c, "grantKeycloak")
    /\ UNCHANGED <<account, login, realmRoles, claims, started, regime>>

\* assignRealmRole
GrantKeycloak(c) ==
    LET k == userCall[c] IN
    /\ k.at = "grantKeycloak"
    /\ realmRoles' = [realmRoles EXCEPT ![k.user] = @ \cup {k.role}]
    /\ EndUserCall(c)
    /\ UNCHANGED <<account, userRoles, login, claims, started, regime>>

(* revokeRole, and revokeInternal: Keycloak first, then the row *)

RevokeRole(c, u, g) ==
    /\ account[u] # "ABSENT"
    /\ StartUserCall(c, u, IF g[1] = Admin THEN "guard" ELSE "siblings", "revoke", g, {})

\* Variant: the guard is left out.
GuardAnybody(c) ==
    /\ userCall[c].at = "guard"
    /\ userCall' = [userCall EXCEPT ![c].tx = TRUE,
                       ![c].at = IF userCall[c].op = "revoke" THEN "siblings" ELSE "disable"]
    /\ UNCHANGED <<storeVars, started, regime>>

\* guardedAdminMutation: the transaction opens with the count of the admins.
Guard(c) ==
    LET k == userCall[c] IN
    /\ k.at = "guard"
    /\ IF Cardinality(ActiveAdmins) <= 1 /\ k.user \in ActiveAdmins
       THEN EndUserCall(c)
       ELSE userCall' = [userCall EXCEPT ![c].tx = TRUE,
                            ![c].at = IF k.op = "revoke" THEN "siblings" ELSE "disable"]
    /\ UNCHANGED <<storeVars, started, regime>>

\* count({ userId, role, unitId: { not: unitId } }): in SQL a NULL is not
\* unequal to a unit, so a global grant is no sibling of a unit's.
Siblings(u, role, unit) ==
    {r \in userRoles : r[1] = u /\ r[2] = role /\ r[3] # unit /\ r[3] # Anywhere}

\* Variant: the realm role goes only while another unit's grant is left.
CountSiblingsInverted(c) ==
    LET k == userCall[c] IN
    /\ k.at = "siblings"
    /\ GoTo(c, IF Siblings(k.user, k.role, k.unit) # {} THEN "revokeKeycloak" ELSE "revokeRow")
    /\ UNCHANGED <<storeVars, started, regime>>

CountSiblings(c) ==
    LET k == userCall[c] IN
    /\ k.at = "siblings"
    /\ GoTo(c, IF Siblings(k.user, k.role, k.unit) = {} THEN "revokeKeycloak" ELSE "revokeRow")
    /\ UNCHANGED <<storeVars, started, regime>>

\* removeRealmRole
RevokeKeycloak(c) ==
    LET k == userCall[c] IN
    /\ k.at = "revokeKeycloak"
    /\ realmRoles' = [realmRoles EXCEPT ![k.user] = @ \ {k.role}]
    /\ GoTo(c, "revokeRow")
    /\ UNCHANGED <<account, userRoles, login, claims, started, regime>>

\* A commit that changes the administrators makes the serializable transactions
\* that have read them abort (P2034).
EndTransaction(c, changed) ==
    userCall' = [d \in UserCalls |->
                   IF d = c THEN NoUserCall
                   ELSE [userCall[d] EXCEPT !.doomed = @ \/ (userCall[d].tx /\ userCall[c].tx /\ changed)]]

\* userRole.deleteMany, and the commit.
RevokeRow(c) ==
    LET k == userCall[c]
        gone == {r \in userRoles : r[1] = k.user /\ r[2] = k.role /\ r[3] = k.unit}
    IN
    /\ k.at = "revokeRow"
    /\ userRoles' = IF k.doomed THEN userRoles ELSE userRoles \ gone
    /\ EndTransaction(c, ~k.doomed /\ gone # {})
    /\ UNCHANGED <<account, login, realmRoles, claims, started, regime>>

(* deactivate *)

\* Whether the guard is needed is read before it.
Deactivate(c, u) ==
    /\ account[u] # "ABSENT"
    /\ StartUserCall(c, u, IF Admin \in RolesOf(u) THEN "guard" ELSE "disable", "deactivate",
                     <<"", Anywhere>>, {})

\* setEnabled(false)
DisableLogin(c) ==
    /\ userCall[c].at = "disable"
    /\ login' = [login EXCEPT ![userCall[c].user] = "DISABLED"]
    /\ GoTo(c, "deactivateRow")
    /\ UNCHANGED <<account, userRoles, realmRoles, claims, started, regime>>

DeactivateRow(c) ==
    LET k == userCall[c] IN
    /\ k.at = "deactivateRow"
    /\ account' = IF k.doomed THEN account ELSE [account EXCEPT ![k.user] = "INACTIVE"]
    /\ EndTransaction(c, ~k.doomed /\ account[k.user] = "ACTIVE")
    /\ UNCHANGED <<userRoles, login, realmRoles, claims, started, regime>>

(* reconcile, for one user *)

\* The user's rows are read first,
Reconcile(c, u) ==
    /\ account[u] # "ABSENT"
    /\ StartUserCall(c, u, "compare", "reconcile", <<"", Anywhere>>, RolesOf(u))

\* Keycloak's roles after them; db_only findings are those to repair.
Compare(c) ==
    LET k == userCall[c]
        dbOnly == k.todo \ realmRoles[k.user]
    IN
    /\ k.at = "compare"
    /\ IF regime.repair /\ dbOnly # {}
       THEN userCall' = [userCall EXCEPT ![c].at = "repair", ![c].todo = dbOnly]
       ELSE EndUserCall(c)
    /\ UNCHANGED <<storeVars, started, regime>>

\* userRole.deleteMany({ userId, role }) of one finding.
Repair(c) ==
    LET k == userCall[c] IN
    /\ k.at = "repair"
    /\ \E role \in k.todo :
        /\ userRoles' = {r \in userRoles : ~(r[1] = k.user /\ r[2] = role)}
        /\ IF k.todo = {role} THEN EndUserCall(c)
           ELSE userCall' = [userCall EXCEPT ![c].todo = @ \ {role}]
    /\ UNCHANGED <<account, login, realmRoles, claims, started, regime>>

-----------------------------------------------------------------------------
\* An awaited request to a store fails, or the pod dies.  A transaction rolls
\* back, what Keycloak has done stays, a failed user.create is compensated.
UserCallFails(c) ==
    /\ userCall[c].at # "idle"
    /\ IF userCall[c].at = "createAccount" /\ userCall[c].created
       THEN GoTo(c, "compensate") ELSE EndUserCall(c)
    /\ UNCHANGED <<storeVars, started, regime>>

\* Keycloak issues a token, or refuses to.
RefreshToken(u) ==
    /\ claims' = [claims EXCEPT ![u] = IF login[u] = "ENABLED" THEN realmRoles[u] ELSE {}]
    /\ claims' # claims
    /\ UNCHANGED <<account, userRoles, login, realmRoles, userCall, started, regime>>

StartsUserCall(c) ==
    /\ MayStart(c)
    /\ \E u \in Logins :
         \/ \E g \in regime.grants : Invite(c, u, g) \/ AssignRole(c, u, g) \/ RevokeRole(c, u, g)
         \/ Deactivate(c, u)
         \/ Reconcile(c, u)

UserCallStep(c) ==
    \/ CreateLogin(c) \/ CreateAccount(c) \/ Compensate(c)
    \/ GrantRow(c) \/ GrantKeycloak(c)
    \/ Guard(c) \/ CountSiblings(c) \/ RevokeKeycloak(c) \/ RevokeRow(c)
    \/ DisableLogin(c) \/ DeactivateRow(c)
    \/ Compare(c) \/ Repair(c)
    \/ UserCallFails(c)

UsersNext ==
    \/ \E c \in UserCalls : StartsUserCall(c) \/ UserCallStep(c)
    \/ \E u \in Logins : RefreshToken(u)

UsersSpec == UsersInit /\ [][UsersNext]_usersVars

-----------------------------------------------------------------------------
(* Properties                                                              *)

GrantUnits == {g[2] : g \in Grants} \cup {Anywhere}

Granting == {"createLogin", "createAccount", "compensate", "grantRow", "grantKeycloak"}
Revoking == {"siblings", "revokeKeycloak", "revokeRow"}
Deactivating == {"disable", "deactivateRow"}
UserPoint == {"idle", "guard", "compare", "repair"} \cup Granting \cup Revoking \cup Deactivating

UserCallType ==
    [at : UserPoint, user : Logins \cup {""}, role : Role \cup {""}, unit : GrantUnits,
     op : {"", "invite", "assign", "revoke", "deactivate", "reconcile"},
     created : BOOLEAN, tx : BOOLEAN, doomed : BOOLEAN, todo : SUBSET Role]

UsersTypeOK ==
    /\ account \in [Logins -> {"ABSENT", "ACTIVE", "INACTIVE"}]
    /\ userRoles \subseteq Logins \X Role \X GrantUnits
    /\ login \in [Logins -> {"ABSENT", "ENABLED", "DISABLED"}]
    /\ realmRoles \in [Logins -> SUBSET Role]
    /\ claims \in [Logins -> SUBSET Role]
    /\ userCall \in [UserCalls -> UserCallType]
    /\ started \in 0..MaxUserCalls
    /\ regime \in Regimes

\* No realm role without its row: a privilege in tokens that no table shows.
KeycloakOnly == \E u \in Logins : realmRoles[u] \ RolesOf(u) # {}

\* However calls break off between the two stores, the order of their writes
\* leaves no realm role without its row, as long as calls do not overlap.
NoPrivilegeLeft == regime.overlap \/ ~KeycloakOnly

\* A kc_only finding never arises from the class's own writes (reconcile).
NeverKeycloakOnly == ~KeycloakOnly

\* Racing revocations and deactivations, some of them breaking off, never leave
\* a tenant without an active administrator in its tables.
LastAdminStays ==
    regime.repair \/ (regime.overlap /\ regime.promote) \/ ActiveAdmins # {}

-----------------------------------------------------------------------------
(* The inductive invariants                                                *)

\* What the locals of a call stand for.
UserCallSound(c) ==
    LET k == userCall[c] IN
    /\ k.at = "idle" => ~k.tx
    /\ k.at # "idle" => k.user \in Logins
    /\ k.at \in Granting \cup Revoking \/ k.op = "revoke" => k.role \in Role
    /\ k.at = "guard" => ~k.tx
    /\ k.at \in Granting /\ ~regime.promote => k.role # Admin
    /\ k.at \in Revoking /\ ~k.tx => k.role # Admin
    /\ k.at = "repair" => regime.repair

\* What call c writes to one store is covered by what it wrote to the other.
Covered(c) ==
    LET k == userCall[c] IN
    /\ k.at = "grantKeycloak" => k.role \in RolesOf(k.user)
    /\ k.at = "revokeRow" => k.role \notin realmRoles[k.user] \/ Siblings(k.user, k.role, k.unit) # {}
    /\ k.at = "repair" => k.todo \cap realmRoles[k.user] = {}

\* Calls one after the other.
InSequence ==
    /\ \A c, d \in UserCalls : userCall[c].at # "idle" /\ userCall[d].at # "idle" => c = d
    /\ \A u \in Logins : realmRoles[u] \subseteq RolesOf(u)
    /\ \A c \in UserCalls : Covered(c)

SequenceInv == ~regime.overlap => InSequence

\* Nobody becomes an administrator while calls overlap, and no reconcile repairs.
Calm == ~regime.repair /\ ~(regime.overlap /\ regime.promote)

\* A transaction that is not doomed has found an administrator who stays; a
\* call without one takes nothing from an administrator.
AdminInv ==
    Calm =>
      /\ ActiveAdmins # {}
      /\ \A c \in UserCalls :
           LET k == userCall[c] IN
           /\ k.tx /\ ~k.doomed => k.user \notin ActiveAdmins \/ ActiveAdmins \ {k.user} # {}
           /\ k.at \in Deactivating /\ ~k.tx => Admin \notin RolesOf(k.user)
      /\ ~regime.promote => \A u \in Logins : Admin \in RolesOf(u) => account[u] # "ABSENT"

UsersInv == (\A c \in UserCalls : UserCallSound(c)) /\ SequenceInv /\ AdminInv
=============================================================================
