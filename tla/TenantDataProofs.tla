-------------------------- MODULE TenantDataProofs --------------------------
(***************************************************************************)
(* Proofs about the rows of a tenant: its master data (Organisation),      *)
(* where the units stay a tree, the company a name and the employees their *)
(* numbers; what the nightly analysis appends to them (StrategicBrain),    *)
(* where the recommendations of a location form one line and no confidence *)
(* is scaled twice, a risk is reported of known histories only and every   *)
(* score and confidence keeps its bounds; and the                          *)
(* schedule (Grafik), where a solve replaces what it made itself and adds  *)
(* no shift that cannot be worked.                                         *)
(***************************************************************************)
EXTENDS Organisation, StrategicBrain, Grafik, SequenceTheorems, FiniteSetTheorems, TLAPS

OrgOK == OrgTypeOK /\ OrgInv

\* The locals of a call are those of what it does next.
LEMMA CallShapes ==
  ASSUME NEW k \in OrgCallType
  PROVE  /\ k.at \in {"createCompany", "updateCompany"} =>
               k.name \in SentName /\ k.region \in {"absent", "EU-West"}
               /\ k \in [at : {"createCompany", "updateCompany"}, name : SentName, region : {"absent", "EU-West"}]
         /\ k.at \in {"walk", "reparent"} =>
               k.unit \in Units /\ k.parent \in Parents /\ k.cursor \in Parents
               /\ k \in [at : {"walk", "reparent"}, unit : Units, parent : Parents, cursor : Parents]
         /\ k.at = "insertGrant" => k.grant \in GrantIds /\ k.holder \in Staff /\ k.serial \in Serials
         /\ k.at = "flip" => k.grant \in GrantIds /\ k.notes \in SUBSET OrgCalls
         /\ k.at = "writeChecklist" => k.merged \in SUBSET Checks
  <1>1. CASE k = NoOrgCall
    BY <1>1 DEF NoOrgCall
  <1>2. CASE k \in [at : {"createCompany", "updateCompany"}, name : SentName, region : {"absent", "EU-West"}]
    BY <1>2 DEF OrgCallType
  <1>3. CASE k \in [at : {"walk", "reparent"}, unit : Units, parent : Parents, cursor : Parents]
    BY <1>3
  <1>4. CASE k \in [at : {"insertGrant"}, grant : GrantIds, holder : Staff, serial : Serials]
    BY <1>4
  <1>5. CASE k \in [at : {"flip"}, grant : GrantIds, notes : SUBSET OrgCalls]
    BY <1>5
  <1>6. CASE k \in [at : {"writeChecklist"}, sent : SUBSET Checks, merged : SUBSET Checks]
    BY <1>6
  <1> QED
    BY <1>1, <1>2, <1>3, <1>4, <1>5, <1>6 DEF OrgCallType

LEMMA IdleCall == NoOrgCall \in OrgCallType /\ NoOrgCall.at = "idle" /\ WalkKnows(NoOrgCall)
  BY DEF NoOrgCall, OrgCallType, WalkKnows

LEMMA InitOrganisation == OrgInit => OrgOK
  <1> SUFFICES ASSUME OrgInit PROVE OrgOK
    OBVIOUS
  <1>1. /\ parentOf = [u \in FirstUnits |-> NoUnit] /\ company = {} /\ ivs = 1
        /\ employee = [e \in DOMAIN FirstStaff |->
                     [unit |-> FirstStaff[e].unit, pesel |-> Encrypt(FirstStaff[e].pesel, 0),
                      peselHash |-> HmacBlindIndex(FirstStaff[e].pesel)]]
        /\ accessGrant = <<>> /\ checklist = {} /\ orgCall = [c \in OrgCalls |-> NoOrgCall]
        /\ orgStarted = 0 /\ orgOverlap \in BOOLEAN
    BY DEF OrgInit
  <1>2. /\ DOMAIN parentOf = FirstUnits /\ FirstUnits \subseteq Units /\ NoUnit \notin Units
        /\ parentOf \in [DOMAIN parentOf -> DOMAIN parentOf \cup {NoUnit}]
    BY <1>1, OrganisationAssumption
  <1>3. /\ DOMAIN employee \subseteq Staff
        /\ employee \in [DOMAIN employee -> [unit : DOMAIN parentOf, pesel : [plain : Pesels, iv : Nat],
                                             peselHash : Pesels]]
    BY <1>1, <1>2, OrganisationAssumption DEF Encrypt, HmacBlindIndex
  <1>4. DOMAIN accessGrant = {} /\ accessGrant \in [DOMAIN accessGrant ->
            [holder : Staff, serial : Serials, status : {"ACTIVE", "REVOKED"}, notes : SUBSET OrgCalls]]
    BY <1>1
  <1>5. orgCall \in [OrgCalls -> OrgCallType] /\ orgStarted \in 0..MaxOrgCalls
    BY <1>1, IdleCall, OrganisationAssumption
  <1>6. OrgTypeOK
    BY <1>1, <1>2, <1>3, <1>4, <1>5 DEF OrgTypeOK
  <1>7. UnitsFormTree
    BY <1>1, <1>2 DEF UnitsFormTree
  <1>8. TreeInv
    BY <1>1, <1>7, IdleCall DEF TreeInv, OneOrgCall
  <1>9. NameInv
    BY <1>1, IdleCall DEF NameInv, CompanyNamed, Locals
  <1>10. HashInv
    BY <1>1, OrganisationAssumption DEF HashInv, Encrypt, HmacBlindIndex
  <1> QED
    BY <1>6, <1>8, <1>9, <1>10 DEF OrgOK, OrgInv

\* A step of a call, or a call's first, that moves no unit.
LEMMA TreeSame ==
  ASSUME OrgTypeOK, TreeInv, parentOf' = parentOf, orgOverlap' = orgOverlap,
         NEW c \in OrgCalls, NEW k, orgCall' = [orgCall EXCEPT ![c] = k], orgOverlap \/ WalkKnows(k),
         ~orgOverlap /\ orgCall[c] = NoOrgCall /\ k # NoOrgCall => \A d \in OrgCalls : orgCall[d] = NoOrgCall
  PROVE  TreeInv'
  <1> SUFFICES ASSUME ~orgOverlap PROVE TreeInv'
    BY DEF TreeInv
  <1>1. OneOrgCall /\ UnitsFormTree /\ \A d \in OrgCalls : WalkKnows(orgCall[d])
    BY DEF TreeInv
  <1>2. \A d \in OrgCalls : orgCall'[d] = IF d = c THEN k ELSE orgCall[d]
    BY DEF OrgTypeOK
  <1>3. OneOrgCall'
    BY <1>1, <1>2 DEF OneOrgCall
  <1>4. UnitsFormTree'
    BY <1>1 DEF UnitsFormTree
  <1>5. ASSUME NEW d \in OrgCalls PROVE WalkKnows(orgCall[d])'
    <2>1. PICK x : x = orgCall'[d] /\ WalkKnows(x)
      BY <1>1, <1>2
    <2> QED
      BY <2>1 DEF WalkKnows, ClosedBut
  <1> QED
    BY <1>3, <1>4, <1>5 DEF TreeInv

\* A step that only changes the locals of a call.
LEMMA CallStep ==
  ASSUME OrgOK, UNCHANGED <<rowVars, orgOverlap>>, orgStarted' \in 0..MaxOrgCalls,
         NEW c \in OrgCalls, NEW k \in OrgCallType, orgCall' = [orgCall EXCEPT ![c] = k], orgOverlap \/ WalkKnows(k),
         k.at = "createCompany" => Trim(k.name) # "",
         ~orgOverlap /\ orgCall[c] = NoOrgCall /\ k # NoOrgCall => \A d \in OrgCalls : orgCall[d] = NoOrgCall
  PROVE  OrgOK'
  <1>1. OrgTypeOK /\ TreeInv /\ NameInv /\ HashInv
    BY DEF OrgOK, OrgInv
  <1>2. UNCHANGED <<parentOf, company, employee, ivs, accessGrant, checklist, orgOverlap>>
    BY DEF rowVars
  <1>3. orgCall' \in [OrgCalls -> OrgCallType] /\ \A d \in OrgCalls : orgCall'[d] = IF d = c THEN k ELSE orgCall[d]
    BY <1>1 DEF OrgTypeOK
  <1>4. OrgTypeOK'
    BY <1>1, <1>2, <1>3 DEF OrgTypeOK
  <1>5. TreeInv'
    BY <1>1, <1>2, TreeSame
  <1>6. NameInv'
    BY <1>1, <1>2, <1>3 DEF NameInv, CompanyNamed, Locals
  <1>7. HashInv'
    BY <1>1, <1>2 DEF HashInv
  <1> QED
    BY <1>4, <1>5, <1>6, <1>7 DEF OrgOK, OrgInv

LEMMA OneMoreCall ==
  ASSUME NEW n \in 0..MaxOrgCalls, n < MaxOrgCalls
  PROVE  n + 1 \in 0..MaxOrgCalls
  BY OrganisationAssumption

\* The first step of a call.
LEMMA CallStarts ==
  ASSUME OrgOK, NEW c \in OrgCalls, NEW k \in OrgCallType, StartOrgCall(c, k), WalkKnows(k),
         k.at = "createCompany" => Trim(k.name) # ""
  PROVE  OrgOK'
  <1>0. orgStarted \in 0..MaxOrgCalls /\ orgStarted < MaxOrgCalls /\ orgStarted' = orgStarted + 1
    BY DEF StartOrgCall, OrgOK, OrgTypeOK
  <1>1. orgStarted' \in 0..MaxOrgCalls
    BY <1>0, OneMoreCall
  <1> QED
    BY <1>1, CallStep DEF StartOrgCall

\* A step that ends a call and writes rows that are no units.
LEMMA CallWrites ==
  ASSUME OrgOK, NEW c \in OrgCalls, EndOrgCall(c), UNCHANGED <<parentOf, employee, orgOverlap>>
  PROVE  /\ TreeInv' /\ HashInv' /\ orgCall' \in [OrgCalls -> OrgCallType]
         /\ CompanyNamed' => NameInv'
  <1>1. OrgTypeOK /\ TreeInv /\ NameInv /\ HashInv
    BY DEF OrgOK, OrgInv
  <1>2. orgCall' = [orgCall EXCEPT ![c] = NoOrgCall]
    BY DEF EndOrgCall
  <1>3. /\ orgCall' \in [OrgCalls -> OrgCallType]
        /\ \A d \in OrgCalls : orgCall'[d] = IF d = c THEN NoOrgCall ELSE orgCall[d]
    BY <1>1, <1>2, IdleCall DEF OrgTypeOK
  <1>4. TreeInv'
    BY <1>1, <1>2, IdleCall, TreeSame
  <1>5. HashInv'
    BY <1>1 DEF HashInv
  <1>6. CompanyNamed' => NameInv'
    BY <1>1, <1>3, IdleCall DEF NameInv, Locals
  <1> QED
    BY <1>3, <1>4, <1>5, <1>6

LEMMA UpsertCompanyOrg ==
  ASSUME OrgOK, NEW c \in OrgCalls, NEW name \in SentName, NEW region \in {"absent", "EU-West"},
         UpsertCompany(c, name, region)
  PROVE  OrgOK'
  <1>1. PICK k : k = [at |-> IF company = {} THEN "createCompany" ELSE "updateCompany",
                      name |-> name, region |-> region]
    OBVIOUS
  <1>2. k \in OrgCallType /\ WalkKnows(k)
    BY <1>1 DEF OrgCallType, WalkKnows
  <1>3. k.at = "createCompany" => Trim(k.name) # ""
    BY <1>1 DEF UpsertCompany
  <1>4. StartOrgCall(c, k)
    BY <1>1 DEF UpsertCompany
  <1> QED
    BY <1>2, <1>3, <1>4, CallStarts

\* One of two first saves creates the row; the other one's name is kept, or its own.
LEMMA CreateCompanyOrg ==
  ASSUME OrgOK, NEW c \in OrgCalls, CreateCompany(c)
  PROVE  OrgOK'
  <1>1. OrgTypeOK /\ NameInv
    BY DEF OrgOK, OrgInv
  <1>2. PICK k \in OrgCallType : k = orgCall[c] /\ k.at = "createCompany" /\ Trim(k.name) # ""
    BY <1>1 DEF CreateCompany, Locals, OrgTypeOK, NameInv
  <1>3. /\ k.name \in SentName /\ k.region \in {"absent", "EU-West"}
        /\ k = [at |-> k.at, name |-> k.name, region |-> k.region]
        /\ [k EXCEPT !.at = "updateCompany"] = [at |-> "updateCompany", name |-> k.name, region |-> k.region]
    <2>1. /\ k \in [at : {"createCompany", "updateCompany"}, name : SentName, region : {"absent", "EU-West"}]
          /\ k.name \in SentName /\ k.region \in {"absent", "EU-West"}
      BY <1>2, CallShapes
    <2>2. [k EXCEPT !.at = "updateCompany"] = [at |-> "updateCompany", name |-> k.name, region |-> k.region]
      BY <2>1
    <2> QED
      BY <2>1, <2>2
  <1>4. ASSUME company = {}, EndOrgCall(c),
               company' = {Merge([name |-> "", region |-> "EU-Central"], [k EXCEPT !.name = Trim(@)])}
        PROVE  OrgOK'
    <2>1. /\ company' = {Merge([name |-> "", region |-> "EU-Central"], [k EXCEPT !.name = Trim(@)])}
          /\ UNCHANGED <<parentOf, employee, ivs, accessGrant, checklist, orgStarted, orgOverlap>>
      BY <1>4 DEF CreateCompany
    <2>2. PICK n, r : n = Trim(k.name) /\ r = IF k.region = "absent" THEN "EU-Central" ELSE k.region
      OBVIOUS
    <2>3. n \in {"Acme", "Bolt"} /\ r \in {"EU-Central", "EU-West"}
      BY <1>2, <1>3, <2>2 DEF Trim, SentName
    <2>4. PICK j : j = [k EXCEPT !.name = Trim(@)]
      OBVIOUS
    <2>5. j.name = n /\ j.region = k.region
      BY <1>3, <2>2, <2>4
    <2>6. company' = {[name |-> n, region |-> r]}
      BY <2>1, <2>2, <2>3, <2>4, <2>5 DEF Merge
    <2>7. CompanyNamed'
      <3>1. \A row \in company' : row.name = n
        BY <2>6
      <3> QED
        BY <2>3, <3>1 DEF CompanyNamed
    <2>8. \E x \in SentName \cup {""}, y \in {"EU-Central", "EU-West"} : company' = {[name |-> x, region |-> y]}
      BY <2>3, <2>6 DEF SentName
    <2>9. OrgTypeOK'
      BY <1>1, <1>4, <2>1, <2>8, CallWrites DEF OrgTypeOK
    <2> QED
      BY <1>4, <2>1, <2>7, <2>9, CallWrites DEF OrgOK, OrgInv
  <1>5. ASSUME orgCall' = [orgCall EXCEPT ![c].at = "updateCompany"], UNCHANGED company PROVE OrgOK'
    <2>1. PICK j : j = [k EXCEPT !.at = "updateCompany"]
      OBVIOUS
    <2>2. j.at = "updateCompany" /\ j \in OrgCallType
      <3>1. j = [at |-> "updateCompany", name |-> k.name, region |-> k.region]
        BY <1>3, <2>1
      <3> QED
        BY <1>3, <3>1 DEF OrgCallType
    <2>3. orgCall' = [orgCall EXCEPT ![c] = j] /\ WalkKnows(j) /\ orgCall[c] # NoOrgCall
      BY <1>2, <1>5, <2>1, <2>2, IdleCall DEF WalkKnows
    <2>4. UNCHANGED <<rowVars, orgStarted, orgOverlap>>
      BY <1>5 DEF CreateCompany, rowVars
    <2>5. orgStarted' \in 0..MaxOrgCalls
      BY <1>1, <2>4 DEF OrgTypeOK
    <2> QED
      BY <2>2, <2>3, <2>4, <2>5, CallStep
  <1> QED
    BY <1>2, <1>4, <1>5 DEF CreateCompany

LEMMA NameOfRow ==
  ASSUME NEW x, NEW y, NEW rows, rows = {[name |-> x, region |-> y]}
  PROVE  \A row \in rows : row.name = x
  OBVIOUS

LEMMA UpdateCompanyOrg ==
  ASSUME OrgOK, NEW c \in OrgCalls, UpdateCompany(c)
  PROVE  OrgOK'
  <1>1. OrgTypeOK /\ NameInv
    BY DEF OrgOK, OrgInv
  <1>2. PICK k \in OrgCallType : k = orgCall[c] /\ k.at = "updateCompany"
    BY <1>1 DEF UpdateCompany, Locals, OrgTypeOK
  <1>3. k.name \in SentName /\ k.region \in {"absent", "EU-West"}
    BY <1>2, CallShapes
  <1>4. /\ company' = {Merge(row, k) : row \in company} /\ EndOrgCall(c)
        /\ UNCHANGED <<parentOf, employee, ivs, accessGrant, checklist, orgStarted, orgOverlap>>
    BY <1>2 DEF UpdateCompany
  <1>5. CASE company = {}
    <2>1. company' = {}
      BY <1>4, <1>5
    <2>2. OrgTypeOK' /\ CompanyNamed'
      BY <1>1, <1>4, <2>1, CallWrites DEF OrgTypeOK, CompanyNamed
    <2> QED
      BY <1>4, <2>2, CallWrites DEF OrgOK, OrgInv
  <1>6. ASSUME NEW n \in SentName \cup {""}, NEW r \in {"EU-Central", "EU-West"},
               company = {[name |-> n, region |-> r]}
        PROVE  OrgOK'
    <2>1. n # ""
      BY <1>1, <1>6 DEF NameInv, CompanyNamed
    <2>2. PICK x, y : x = (IF k.name = "absent" THEN n ELSE k.name) /\ y = (IF k.region = "absent" THEN r ELSE k.region)
      OBVIOUS
    <2>3. x \in SentName /\ x # "" /\ y \in {"EU-Central", "EU-West"}
      BY <1>3, <2>1, <2>2 DEF SentName
    <2>4. company' = {[name |-> x, region |-> y]}
      <3>1. company' = {Merge([name |-> n, region |-> r], k)}
        BY <1>4, <1>6
      <3>2. Merge([name |-> n, region |-> r], k) = [name |-> x, region |-> y]
        BY <2>2 DEF Merge
      <3> QED
        BY <3>1, <3>2
    <2>5. CompanyNamed'
      <3>1. \A row \in company' : row.name = x
        BY <2>4, NameOfRow
      <3> QED
        BY <2>3, <3>1 DEF CompanyNamed
    <2>6. \E v \in SentName \cup {""}, w \in {"EU-Central", "EU-West"} : company' = {[name |-> v, region |-> w]}
      BY <2>3, <2>4
    <2>7. OrgTypeOK'
      BY <1>1, <1>4, <2>6, CallWrites DEF OrgTypeOK
    <2> QED
      BY <1>4, <2>5, <2>7, CallWrites DEF OrgOK, OrgInv
  <1> QED
    BY <1>1, <1>5, <1>6 DEF OrgTypeOK

LEMMA UpdateUnitOrg ==
  ASSUME OrgOK, NEW c \in OrgCalls, NEW u \in Units, NEW p \in Units \cup {NoUnit}, UpdateUnit(c, u, p)
  PROVE  OrgOK'
  <1>1. PICK k : k = [at |-> IF p = NoUnit THEN "reparent" ELSE "walk", unit |-> u, parent |-> p, cursor |-> p]
    OBVIOUS
  <1>2. u \in DOMAIN parentOf /\ StartOrgCall(c, k)
    BY <1>1 DEF UpdateUnit
  <1>3. k \in OrgCallType /\ k.at \in {"walk", "reparent"} /\ k.unit = u /\ k.parent = p /\ k.cursor = p
    BY <1>1 DEF OrgCallType, Parents
  <1>4. k.at = "reparent" => p = NoUnit /\ NoUnit \notin Units /\ DOMAIN parentOf \subseteq Units
    BY <1>1, OrganisationAssumption DEF OrgOK, OrgTypeOK
  <1>5. WalkKnows(k)
    BY <1>2, <1>3, <1>4 DEF WalkKnows
  <1> QED
    BY <1>2, <1>3, <1>5, CallStarts

\* One read up the chain: from the cursor the way goes on to its parent.
LEMMA WalkUpOrg ==
  ASSUME OrgOK, NEW c \in OrgCalls, WalkUp(c)
  PROVE  OrgOK'
  <1>1. OrgTypeOK /\ TreeInv
    BY DEF OrgOK, OrgInv
  <1>2. PICK k \in OrgCallType : k = orgCall[c] /\ k.at = "walk"
    BY <1>1 DEF WalkUp, Locals, OrgTypeOK
  <1>3. /\ k \in [at : {"walk", "reparent"}, unit : Units, parent : Parents, cursor : Parents]
        /\ k # NoOrgCall
    BY <1>2, CallShapes, IdleCall
  <1>4. UNCHANGED <<rowVars, orgStarted, orgOverlap>> /\ orgStarted' \in 0..MaxOrgCalls
    BY <1>1 DEF WalkUp, OrgTypeOK
  <1>5. CASE k.cursor \notin DOMAIN parentOf \/ k.cursor = k.unit
    <2>1. orgCall' = [orgCall EXCEPT ![c] = NoOrgCall]
      BY <1>2, <1>5 DEF WalkUp, EndOrgCall
    <2> QED
      BY <1>4, <2>1, IdleCall, CallStep
  <1>6. CASE k.cursor \in DOMAIN parentOf /\ k.cursor # k.unit
    <2>1. PICK up : up = parentOf[k.cursor]
      OBVIOUS
    <2>2. PICK j : j = [k EXCEPT !.cursor = up, !.at = IF up = NoUnit THEN "reparent" ELSE "walk"]
      OBVIOUS
    <2>3. orgCall' = [orgCall EXCEPT ![c] = j]
      <3>1. orgCall' = [orgCall EXCEPT ![c].cursor = up, ![c].at = IF up = NoUnit THEN "reparent" ELSE "walk"]
        BY <1>2, <1>6, <2>1 DEF WalkUp
      <3>2. orgCall[c] = k /\ orgCall \in [OrgCalls -> OrgCallType]
        BY <1>1, <1>2 DEF OrgTypeOK
      <3> QED
        BY <2>2, <3>1, <3>2
    <2>4. up \in DOMAIN parentOf \cup {NoUnit} /\ DOMAIN parentOf \subseteq Units /\ NoUnit \notin Units
      BY <1>1, <1>6, <2>1, OrganisationAssumption DEF OrgTypeOK
    <2>5. /\ j.unit = k.unit /\ j.parent = k.parent /\ j.cursor = up
          /\ j.at = IF up = NoUnit THEN "reparent" ELSE "walk"
          /\ j = [at |-> j.at, unit |-> k.unit, parent |-> k.parent, cursor |-> up]
      BY <1>3, <2>2
    <2>6. j \in OrgCallType
      BY <1>3, <2>4, <2>5 DEF OrgCallType, Parents
    <2>7. ~orgOverlap => WalkKnows(k)
      BY <1>1, <1>2 DEF TreeInv
    <2>8. ASSUME ~orgOverlap PROVE WalkKnows(j)
      <3>1. k.unit \in DOMAIN parentOf /\ k.parent \in DOMAIN parentOf
        BY <1>2, <1>6, <2>7, <2>8 DEF WalkKnows
      <3>2. ASSUME NEW S \in SUBSET DOMAIN parentOf, ClosedBut(k.unit, S), k.parent \in S PROVE up \in S
        <4>1. k.cursor \in S
          BY <1>2, <2>7, <2>8, <3>2 DEF WalkKnows
        <4> QED
          BY <1>6, <2>1, <3>2, <4>1 DEF ClosedBut
      <3>3. up = NoUnit => \A S \in SUBSET DOMAIN parentOf : ClosedBut(k.unit, S) => k.parent \notin S
        BY <2>4, <3>2
      <3> QED
        BY <2>5, <3>1, <3>2, <3>3 DEF WalkKnows
    <2>9. j.at # "createCompany"
      BY <2>5
    <2> QED
      BY <1>2, <1>3, <1>4, <2>3, <2>6, <2>8, <2>9, CallStep
  <1> QED
    BY <1>5, <1>6

\* The walk has shown that no way up from the new parent passes the moved unit.
LEMMA ReparentOrg ==
  ASSUME OrgOK, NEW c \in OrgCalls, Reparent(c)
  PROVE  OrgOK'
  <1>1. OrgTypeOK /\ TreeInv /\ NameInv /\ HashInv
    BY DEF OrgOK, OrgInv
  <1>2. PICK k \in OrgCallType : k = orgCall[c] /\ k.at = "reparent"
    BY <1>1 DEF Reparent, Locals, OrgTypeOK
  <1>3. PICK u, p : u = k.unit /\ p = k.parent
    OBVIOUS
  <1>4. /\ p \in DOMAIN parentOf \cup {NoUnit}
        /\ parentOf' = [parentOf EXCEPT ![u] = p] /\ EndOrgCall(c)
        /\ UNCHANGED <<company, employee, ivs, accessGrant, checklist, orgStarted, orgOverlap>>
    BY <1>2, <1>3 DEF Reparent
  <1>5. /\ orgCall' \in [OrgCalls -> OrgCallType]
        /\ \A d \in OrgCalls : orgCall'[d] = IF d = c THEN NoOrgCall ELSE orgCall[d]
    BY <1>1, <1>4, IdleCall DEF OrgTypeOK, EndOrgCall
  <1>6. /\ DOMAIN parentOf' = DOMAIN parentOf /\ DOMAIN parentOf \subseteq Units
        /\ parentOf' \in [DOMAIN parentOf' -> DOMAIN parentOf' \cup {NoUnit}]
        /\ \A v \in DOMAIN parentOf : v # u => parentOf'[v] = parentOf[v]
        /\ u \in DOMAIN parentOf => parentOf'[u] = p
    BY <1>1, <1>4 DEF OrgTypeOK
  <1>7. OrgTypeOK'
    BY <1>1, <1>4, <1>5, <1>6 DEF OrgTypeOK
  <1>8. TreeInv'
    <2> SUFFICES ASSUME ~orgOverlap PROVE TreeInv'
      BY <1>4 DEF TreeInv
    <2>1. OneOrgCall /\ UnitsFormTree /\ WalkKnows(k)
      BY <1>1, <1>2 DEF TreeInv
    <2>2. \A d \in OrgCalls : orgCall'[d] = NoOrgCall
      BY <1>2, <1>5, <2>1, IdleCall DEF OneOrgCall
    <2>3. UnitsFormTree'
      <3> SUFFICES ASSUME NEW S \in SUBSET DOMAIN parentOf, \A v \in S : parentOf'[v] \in S
                   PROVE  S = {}
        BY <1>6 DEF UnitsFormTree
      <3>1. ClosedBut(u, S)
        BY <1>6 DEF ClosedBut
      <3>2. u \notin S
        BY <1>2, <1>3, <1>6, <2>1, <3>1 DEF WalkKnows
      <3>3. \A v \in S : parentOf[v] \in S
        BY <1>6, <3>2
      <3> QED
        BY <2>1, <3>3 DEF UnitsFormTree
    <2>4. ASSUME NEW d \in OrgCalls PROVE WalkKnows(orgCall[d])'
      BY <2>2, <2>4, IdleCall DEF WalkKnows
    <2> QED
      BY <2>2, <2>3, <2>4 DEF TreeInv, OneOrgCall
  <1>9. NameInv'
    BY <1>1, <1>4, <1>5, IdleCall DEF NameInv, CompanyNamed, Locals
  <1>10. HashInv'
    BY <1>1, <1>4 DEF HashInv
  <1> QED
    BY <1>7, <1>8, <1>9, <1>10 DEF OrgOK, OrgInv

\* A new unit is below what was there; it may come while a walk is under way.
LEMMA CreateUnitOrg ==
  ASSUME OrgOK, NEW n \in Units, NEW q \in Units \cup {NoUnit}, CreateUnit(n, q)
  PROVE  OrgOK'
  <1>1. OrgTypeOK /\ TreeInv /\ NameInv /\ HashInv
    BY DEF OrgOK, OrgInv
  <1>2. /\ n \notin DOMAIN parentOf /\ q \in DOMAIN parentOf \cup {NoUnit}
        /\ parentOf' = With(parentOf, n, q)
        /\ UNCHANGED <<company, employee, ivs, accessGrant, checklist, orgCall, orgOverlap>>
        /\ orgStarted < MaxOrgCalls /\ orgStarted' = orgStarted + 1
    BY DEF CreateUnit
  <1>3. /\ DOMAIN parentOf' = DOMAIN parentOf \cup {n}
        /\ \A v \in DOMAIN parentOf : parentOf'[v] = parentOf[v]
        /\ parentOf'[n] = q
    BY <1>2 DEF With
  <1>4. /\ DOMAIN parentOf \subseteq Units /\ NoUnit \notin Units
        /\ \A v \in DOMAIN parentOf : parentOf[v] \in DOMAIN parentOf \cup {NoUnit}
    BY <1>1, OrganisationAssumption DEF OrgTypeOK
  <1>5. parentOf' \in [DOMAIN parentOf' -> DOMAIN parentOf' \cup {NoUnit}]
    <2>1. parentOf' = [x \in DOMAIN parentOf' |-> parentOf'[x]]
      BY <1>2 DEF With
    <2>2. \A v \in DOMAIN parentOf' : parentOf'[v] \in DOMAIN parentOf' \cup {NoUnit}
      BY <1>2, <1>3, <1>4
    <2> QED
      BY <2>1, <2>2
  <1>6. OrgTypeOK'
    <2>1. orgStarted \in 0..MaxOrgCalls
      BY <1>1 DEF OrgTypeOK
    <2>2. orgStarted' \in 0..MaxOrgCalls
      BY <1>2, <2>1, OneMoreCall
    <2>3. employee \in [DOMAIN employee -> [unit : DOMAIN parentOf', pesel : [plain : Pesels, iv : Nat],
                                            peselHash : Pesels]]
      BY <1>1, <1>3 DEF OrgTypeOK
    <2> QED
      BY <1>1, <1>2, <1>3, <1>4, <1>5, <2>2, <2>3 DEF OrgTypeOK
  \* A set that is closed with the new unit was closed without it.
  <1>7. ASSUME NEW u \in DOMAIN parentOf, NEW S \in SUBSET DOMAIN parentOf', \A v \in S \ {u} : parentOf'[v] \in S
        PROVE  S \ {n} \in SUBSET DOMAIN parentOf /\ ClosedBut(u, S \ {n})
    BY <1>2, <1>3, <1>4, <1>7 DEF ClosedBut
  <1>8. TreeInv'
    <2> SUFFICES ASSUME ~orgOverlap PROVE TreeInv'
      BY <1>2 DEF TreeInv
    <2>1. OneOrgCall /\ UnitsFormTree /\ \A d \in OrgCalls : WalkKnows(orgCall[d])
      BY <1>1 DEF TreeInv
    <2>2. UnitsFormTree'
      <3> SUFFICES ASSUME NEW S \in SUBSET DOMAIN parentOf', \A v \in S : parentOf'[v] \in S
                   PROVE  S = {}
        BY DEF UnitsFormTree
      <3>1. S \ {n} \in SUBSET DOMAIN parentOf /\ \A v \in S \ {n} : parentOf[v] \in S \ {n}
        BY <1>2, <1>3, <1>4
      <3>2. S \subseteq {n}
        BY <2>1, <3>1 DEF UnitsFormTree
      <3> QED
        BY <1>2, <1>3, <1>4, <3>2
    <2>3. ASSUME NEW d \in OrgCalls, NEW k, k = orgCall[d] PROVE WalkKnows(k)'
      <3>1. WalkKnows(k)
        BY <2>1, <2>3
      <3>2. ASSUME k.at = "walk", NEW S \in SUBSET DOMAIN parentOf', ClosedBut(k.unit, S)', k.parent \in S
            PROVE  k.cursor \in S
        <4>1. CASE k.cursor = k.parent
          BY <3>2, <4>1
        <4>2. CASE k.parent \in DOMAIN parentOf
          <5>1. S \ {n} \in SUBSET DOMAIN parentOf /\ ClosedBut(k.unit, S \ {n}) /\ k.parent \in S \ {n}
            BY <1>2, <1>7, <3>1, <3>2, <4>2 DEF WalkKnows, ClosedBut
          <5> QED
            BY <3>1, <3>2, <5>1 DEF WalkKnows
        <4> QED
          BY <3>1, <3>2, <4>1, <4>2 DEF WalkKnows
      <3>3. ASSUME k.at = "reparent", NEW S \in SUBSET DOMAIN parentOf', ClosedBut(k.unit, S)', k.parent \in S
            PROVE  FALSE
        <4>1. k.parent \in DOMAIN parentOf
          BY <1>2, <1>3, <1>4, <3>1, <3>3 DEF WalkKnows
        <4>2. S \ {n} \in SUBSET DOMAIN parentOf /\ ClosedBut(k.unit, S \ {n}) /\ k.parent \in S \ {n}
          BY <1>2, <1>7, <3>1, <3>3, <4>1 DEF WalkKnows, ClosedBut
        <4> QED
          BY <3>1, <3>3, <4>2 DEF WalkKnows
      <3>4. /\ k.at \in {"walk", "reparent"} => k.unit \in DOMAIN parentOf'
            /\ k.at = "walk" => k.cursor = k.parent \/ k.parent \in DOMAIN parentOf'
            /\ k.at = "reparent" => k.parent \in DOMAIN parentOf' \cup {NoUnit}
        BY <1>3, <3>1 DEF WalkKnows
      <3> QED
        BY <3>2, <3>3, <3>4 DEF WalkKnows
    <2>4. OneOrgCall' /\ \A d \in OrgCalls : WalkKnows(orgCall[d])'
      BY <1>2, <2>1, <2>3 DEF OneOrgCall
    <2> QED
      BY <2>2, <2>4 DEF TreeInv
  <1>9. NameInv' /\ HashInv'
    BY <1>1, <1>2 DEF NameInv, CompanyNamed, Locals, HashInv
  <1> QED
    BY <1>6, <1>8, <1>9 DEF OrgOK, OrgInv

\* One write of an employee: the index refuses a number that another one has.
LEMMA SaveEmployeeOrg ==
  ASSUME OrgOK, NEW e \in Staff, NEW u \in Units, NEW enc, SaveEmployee(e, u, enc),
         enc.pesel \in [plain : Pesels, iv : Nat], enc.peselHash = enc.pesel.plain,
         ivs' \in Nat
  PROVE  OrgOK'
  <1>1. OrgTypeOK /\ TreeInv /\ NameInv /\ HashInv
    BY DEF OrgOK, OrgInv
  <1>2. PICK row : row = [unit |-> u, pesel |-> enc.pesel, peselHash |-> enc.peselHash]
    OBVIOUS
  <1>3. /\ u \in DOMAIN parentOf /\ ~HashTaken(e, enc.peselHash)
        /\ employee' = With(employee, e, row)
        /\ UNCHANGED <<parentOf, company, accessGrant, checklist, orgCall, orgOverlap>>
        /\ orgStarted < MaxOrgCalls /\ orgStarted' = orgStarted + 1
    BY <1>2 DEF SaveEmployee
  <1>4. /\ DOMAIN employee' = DOMAIN employee \cup {e}
        /\ \A f \in DOMAIN employee : f # e => employee'[f] = employee[f]
        /\ employee'[e] = row /\ employee' = [f \in DOMAIN employee' |-> employee'[f]]
    BY <1>3 DEF With
  <1>5. row \in [unit : DOMAIN parentOf, pesel : [plain : Pesels, iv : Nat], peselHash : Pesels]
    BY <1>2, <1>3
  <1>6. employee' \in [DOMAIN employee' -> [unit : DOMAIN parentOf, pesel : [plain : Pesels, iv : Nat],
                                            peselHash : Pesels]]
    <2>1. \A f \in DOMAIN employee : employee[f] \in [unit : DOMAIN parentOf, pesel : [plain : Pesels, iv : Nat],
                                                      peselHash : Pesels]
      BY <1>1 DEF OrgTypeOK
    <2> QED
      BY <1>4, <1>5, <2>1
  <1>7. OrgTypeOK'
    <2>1. DOMAIN employee' \subseteq Staff
      BY <1>1, <1>4 DEF OrgTypeOK
    <2>2. orgStarted' \in 0..MaxOrgCalls
      <3>1. orgStarted \in 0..MaxOrgCalls
        BY <1>1 DEF OrgTypeOK
      <3> QED
        BY <1>3, <3>1, OneMoreCall
    <2> QED
      BY <1>1, <1>3, <1>6, <2>1, <2>2 DEF OrgTypeOK
  <1>8. TreeInv'
    <2>1. OneOrgCall' = OneOrgCall /\ UnitsFormTree' = UnitsFormTree
      BY <1>3 DEF OneOrgCall, UnitsFormTree
    <2>2. \A k : WalkKnows(k)' = WalkKnows(k)
      BY <1>3 DEF WalkKnows, ClosedBut
    <2>3. \A d \in OrgCalls : WalkKnows(orgCall[d]) => WalkKnows(orgCall[d])'
      BY <1>3, <2>2
    <2> QED
      BY <1>1, <1>3, <2>1, <2>3 DEF TreeInv
  <1>9. NameInv'
    BY <1>1, <1>3 DEF NameInv, CompanyNamed, Locals
  <1>10. HashInv'
    <2>1. row.peselHash = row.pesel.plain /\ row.peselHash = enc.peselHash
      BY <1>2
    <2>2. \A f \in DOMAIN employee \ {e} : employee[f].peselHash # row.peselHash
      BY <1>3, <2>1 DEF HashTaken
    <2>3. \A f \in DOMAIN employee' : f = e \/ (f \in DOMAIN employee \ {e} /\ employee'[f] = employee[f])
      BY <1>4
    <2>4. \A f \in DOMAIN employee' : employee'[f].peselHash = employee'[f].pesel.plain
      BY <1>1, <1>4, <2>1, <2>3 DEF HashInv
    <2>5. ASSUME NEW f \in DOMAIN employee', NEW g \in DOMAIN employee',
                 employee'[f].peselHash = employee'[g].peselHash
          PROVE  f = g
      <3>1. CASE f = e /\ g # e
        BY <1>4, <2>2, <2>3, <2>5, <3>1
      <3>2. CASE f # e /\ g = e
        BY <1>4, <2>2, <2>3, <2>5, <3>2
      <3>3. CASE f # e /\ g # e
        BY <1>1, <2>3, <2>5, <3>3 DEF HashInv
      <3> QED
        BY <3>1, <3>2, <3>3
    <2> QED
      BY <2>4, <2>5 DEF HashInv
  <1> QED
    BY <1>7, <1>8, <1>9, <1>10 DEF OrgOK, OrgInv

LEMMA EmployeesOrg ==
  ASSUME OrgOK, NEW e \in Staff, NEW u \in Units, NEW p \in Pesels,
         CreateEmployee(e, u, p) \/ UpdateEmployee(e, u, p) \/ MoveEmployee(e, u)
  PROVE  OrgOK'
  <1>1. OrgTypeOK /\ HashInv /\ ivs \in Nat
    BY DEF OrgOK, OrgInv, OrgTypeOK
  <1>2. ASSUME SaveEmployee(e, u, EncryptEmployeePesel(p)), ivs' = ivs + 1 PROVE OrgOK'
    <2>1. PICK enc : enc = EncryptEmployeePesel(p)
      OBVIOUS
    <2>2. enc.pesel = [plain |-> p, iv |-> ivs] /\ enc.peselHash = p
      BY <2>1 DEF EncryptEmployeePesel, Encrypt, HmacBlindIndex
    <2>3. enc.pesel \in [plain : Pesels, iv : Nat] /\ enc.peselHash = enc.pesel.plain /\ ivs' \in Nat
      BY <1>1, <1>2, <2>2
    <2> QED
      BY <1>2, <2>1, <2>3, SaveEmployeeOrg
  <1>3. ASSUME e \in DOMAIN employee, SaveEmployee(e, u, employee[e]), UNCHANGED ivs PROVE OrgOK'
    <2>1. PICK enc : enc = employee[e]
      OBVIOUS
    <2>2. enc.pesel \in [plain : Pesels, iv : Nat] /\ enc.peselHash = enc.pesel.plain
      BY <1>1, <1>3, <2>1 DEF OrgTypeOK, HashInv
    <2> QED
      BY <1>1, <1>3, <2>1, <2>2, SaveEmployeeOrg
  <1> QED
    BY <1>2, <1>3 DEF CreateEmployee, UpdateEmployee, MoveEmployee

LEMMA GrantsOrg ==
  ASSUME OrgOK, NEW c \in OrgCalls, InsertGrant(c) \/ FlipGrant(c)
  PROVE  OrgOK'
  <1>1. OrgTypeOK /\ NameInv
    BY DEF OrgOK, OrgInv
  <1>2. PICK k \in OrgCallType : k = orgCall[c]
    BY <1>1 DEF OrgTypeOK
  <1>3. EndOrgCall(c) /\ UNCHANGED <<parentOf, company, employee, ivs, checklist, orgStarted, orgOverlap>>
    BY DEF InsertGrant, FlipGrant
  <1>4. TreeInv' /\ HashInv' /\ NameInv' /\ orgCall' \in [OrgCalls -> OrgCallType]
    <2>1. CompanyNamed'
      BY <1>1, <1>3 DEF NameInv, CompanyNamed
    <2> QED
      BY <1>3, <2>1, CallWrites
  <1>5. /\ DOMAIN accessGrant \subseteq GrantIds
        /\ \A g \in DOMAIN accessGrant : accessGrant[g] \in
              [holder : Staff, serial : Serials, status : {"ACTIVE", "REVOKED"}, notes : SUBSET OrgCalls]
    BY <1>1 DEF OrgTypeOK
  <1>6. /\ DOMAIN accessGrant' \subseteq GrantIds
        /\ accessGrant' \in [DOMAIN accessGrant' ->
              [holder : Staff, serial : Serials, status : {"ACTIVE", "REVOKED"}, notes : SUBSET OrgCalls]]
    <2>1. CASE UNCHANGED accessGrant
      BY <1>1, <2>1 DEF OrgTypeOK
    <2>2. CASE InsertGrant(c) /\ accessGrant' # accessGrant
      <3>1. PICK row : row = [holder |-> k.holder, serial |-> k.serial, status |-> "ACTIVE", notes |-> {}]
        OBVIOUS
      <3>2. k.at = "insertGrant" /\ accessGrant' = With(accessGrant, k.grant, row)
        BY <1>2, <2>2, <3>1 DEF InsertGrant, Locals
      <3>3. /\ k.grant \in GrantIds
            /\ row \in [holder : Staff, serial : Serials, status : {"ACTIVE", "REVOKED"}, notes : SUBSET OrgCalls]
        BY <3>1, <3>2, CallShapes
      <3> QED
        BY <1>5, <3>2, <3>3 DEF With
    <2>3. CASE FlipGrant(c) /\ accessGrant' # accessGrant
      <3>1. k.at = "flip" /\ accessGrant' = [accessGrant EXCEPT ![k.grant].status = "REVOKED",
                                                                ![k.grant].notes = k.notes]
        BY <1>2, <2>3 DEF FlipGrant, Locals
      <3>2. k.notes \in SUBSET OrgCalls
        BY <3>1, CallShapes
      <3>3. DOMAIN accessGrant' = DOMAIN accessGrant
        BY <3>1
      <3>4. ASSUME NEW g \in DOMAIN accessGrant
            PROVE  accessGrant'[g] \in
                     [holder : Staff, serial : Serials, status : {"ACTIVE", "REVOKED"}, notes : SUBSET OrgCalls]
        <4>1. CASE g # k.grant
          BY <1>5, <3>1, <4>1
        <4>2. CASE g = k.grant
          <5>1. accessGrant'[g] = [accessGrant[g] EXCEPT !.status = "REVOKED", !.notes = k.notes]
            BY <3>1, <4>2
          <5>2. accessGrant[g] \in [holder : Staff, serial : Serials, status : {"ACTIVE", "REVOKED"},
                                    notes : SUBSET OrgCalls]
            BY <1>5
          <5> QED
            BY <3>2, <5>1, <5>2
        <4> QED
          BY <4>1, <4>2
      <3>5. accessGrant' = [g \in DOMAIN accessGrant' |-> accessGrant'[g]]
        BY <3>1
      <3> QED
        BY <1>5, <3>3, <3>4, <3>5
    <2> QED
      BY <2>1, <2>2, <2>3
  <1>7. OrgTypeOK'
    BY <1>1, <1>3, <1>4, <1>6 DEF OrgTypeOK
  <1> QED
    BY <1>4, <1>7 DEF OrgOK, OrgInv

LEMMA WriteChecklistOrg ==
  ASSUME OrgOK, NEW c \in OrgCalls, WriteChecklist(c)
  PROVE  OrgOK'
  <1>1. OrgTypeOK /\ NameInv
    BY DEF OrgOK, OrgInv
  <1>2. PICK k \in OrgCallType : k = orgCall[c] /\ k.at = "writeChecklist"
    BY <1>1 DEF OrgTypeOK, WriteChecklist, Locals
  <1>3. /\ checklist' = k.merged /\ EndOrgCall(c)
        /\ UNCHANGED <<parentOf, company, employee, ivs, accessGrant, orgStarted, orgOverlap>>
    BY <1>2 DEF WriteChecklist
  <1>4. checklist' \subseteq Checks
    BY <1>2, <1>3, CallShapes
  <1>5. CompanyNamed'
    BY <1>1, <1>3 DEF NameInv, CompanyNamed
  <1>6. OrgTypeOK'
    BY <1>1, <1>3, <1>4, CallWrites DEF OrgTypeOK
  <1> QED
    BY <1>3, <1>5, <1>6, CallWrites DEF OrgOK, OrgInv

\* The first steps of the calls that move no unit.
LEMMA StartsOrg ==
  ASSUME OrgOK, NEW c \in OrgCalls,
         \/ \E global \in BOOLEAN, g \in GrantIds, e \in Staff, s \in Serials : Issue(c, global, g, e, s)
         \/ \E global \in BOOLEAN, g \in GrantIds : Revoke(c, global, g)
         \/ \E ticks, unticks \in SUBSET Checks : ReadChecklist(c, ticks, unticks)
  PROVE  OrgOK'
  <1>1. ASSUME NEW k, StartOrgCall(c, k), k \in OrgCallType, k.at \in {"insertGrant", "flip", "writeChecklist"}
        PROVE  OrgOK'
    <2>1. WalkKnows(k)
      BY <1>1 DEF WalkKnows
    <2> QED
      BY <1>1, <2>1, CallStarts
  <1>2. ASSUME NEW global \in BOOLEAN, NEW g \in GrantIds, NEW e \in Staff, NEW s \in Serials, Issue(c, global, g, e, s)
        PROVE  OrgOK'
    BY <1>1, <1>2 DEF Issue, OrgCallType
  <1>3. ASSUME NEW global \in BOOLEAN, NEW g \in GrantIds, Revoke(c, global, g) PROVE OrgOK'
    <2>1. PICK n : n = accessGrant[g].notes \cup {c}
      OBVIOUS
    <2>2. accessGrant[g] \in [holder : Staff, serial : Serials, status : {"ACTIVE", "REVOKED"}, notes : SUBSET OrgCalls]
      BY <1>3 DEF Revoke, OrgOK, OrgTypeOK
    <2>3. n \in SUBSET OrgCalls
      BY <2>1, <2>2
    <2>4. StartOrgCall(c, [at |-> "flip", grant |-> g, notes |-> n])
      BY <1>3, <2>1 DEF Revoke
    <2> QED
      BY <1>1, <2>3, <2>4 DEF OrgCallType
  <1>4. ASSUME NEW ticks \in SUBSET Checks, NEW unticks \in SUBSET Checks, ReadChecklist(c, ticks, unticks)
        PROVE  OrgOK'
    <2>1. PICK sent : sent = ticks \cup unticks
      OBVIOUS
    <2>2. StartOrgCall(c, [at |-> "writeChecklist", sent |-> sent, merged |-> ticks]) /\ sent \in SUBSET Checks
      BY <1>4, <2>1 DEF ReadChecklist
    <2> QED
      BY <1>1, <2>2 DEF OrgCallType
  <1> QED
    BY <1>2, <1>3, <1>4

LEMMA OrgCallFailsOrg ==
  ASSUME OrgOK, NEW c \in OrgCalls, OrgCallFails(c)
  PROVE  OrgOK'
  <1>1. orgCall' = [orgCall EXCEPT ![c] = NoOrgCall] /\ UNCHANGED <<rowVars, orgStarted, orgOverlap>>
    BY DEF OrgCallFails, EndOrgCall
  <1>2. orgStarted' \in 0..MaxOrgCalls
    BY <1>1 DEF OrgOK, OrgTypeOK
  <1> QED
    BY <1>1, <1>2, IdleCall, CallStep

LEMMA NextOrganisation ==
  ASSUME OrgOK, [OrgNext]_orgVars
  PROVE  OrgOK'
  <1>1. CASE UNCHANGED orgVars
    <2>1. UNCHANGED <<parentOf, company, employee, ivs, accessGrant, checklist, orgCall, orgStarted, orgOverlap>>
      BY <1>1 DEF orgVars, rowVars
    <2>2. OrgTypeOK'
      BY <2>1 DEF OrgOK, OrgTypeOK
    <2>3. OrgInv'
      <3>1. \A k : WalkKnows(k)' = WalkKnows(k)
        BY <2>1 DEF WalkKnows, ClosedBut
      <3>2. \A d \in OrgCalls : WalkKnows(orgCall[d]) => WalkKnows(orgCall[d])'
        BY <2>1, <3>1
      <3> QED
        BY <2>1, <3>2 DEF OrgOK, OrgInv, TreeInv, NameInv, HashInv, OneOrgCall, UnitsFormTree, CompanyNamed, Locals
    <2> QED
      BY <2>2, <2>3 DEF OrgOK
  <1>2. ASSUME NEW e \in Staff, NEW u \in Units, NEW p \in Pesels,
               CreateEmployee(e, u, p) \/ UpdateEmployee(e, u, p) PROVE OrgOK'
    BY <1>2, EmployeesOrg
  <1>3. ASSUME NEW e \in Staff, NEW u \in Units, MoveEmployee(e, u) PROVE OrgOK'
    <2>1. employee[e].pesel.plain \in Pesels
      BY <1>3 DEF MoveEmployee, OrgOK, OrgTypeOK
    <2> QED
      BY <1>3, <2>1, EmployeesOrg
  <1>4. ASSUME NEW c \in OrgCalls,
               \/ \E name \in SentName, region \in {"absent", "EU-West"} : UpsertCompany(c, name, region)
               \/ CreateCompany(c) \/ UpdateCompany(c)
        PROVE  OrgOK'
    BY <1>4, UpsertCompanyOrg, CreateCompanyOrg, UpdateCompanyOrg
  <1>5. ASSUME NEW c \in OrgCalls,
               \/ \E u \in Units, p \in Units \cup {NoUnit} : UpdateUnit(c, u, p)
               \/ WalkUp(c) \/ Reparent(c)
        PROVE  OrgOK'
    BY <1>5, UpdateUnitOrg, WalkUpOrg, ReparentOrg
  <1>6. ASSUME NEW u \in Units, NEW p \in Units \cup {NoUnit}, CreateUnit(u, p) PROVE OrgOK'
    BY <1>6, CreateUnitOrg
  <1>7. ASSUME OrgNext PROVE OrgOK'
    BY <1>2, <1>3, <1>4, <1>5, <1>6, <1>7, StartsOrg, GrantsOrg, WriteChecklistOrg, OrgCallFailsOrg DEF OrgNext
  <1> QED
    BY <1>1, <1>7

\* A walk that is not overlapped by another call proves that its move closes no
\* cycle; the company's name and the index of the numbers hold in any order.
THEOREM OrganisationCorrect == OrgSpec => [](OrgTypeOK /\ OrgInv)
  <1>1. OrgOK /\ [OrgNext]_orgVars => OrgOK'
    BY NextOrganisation
  <1>2. OrgOK <=> OrgTypeOK /\ OrgInv
    BY DEF OrgOK
  <1> QED
    BY InitOrganisation, <1>1, <1>2, PTL DEF OrgSpec

\* The units are a tree unless moves overlap, a configured company has a name,
\* and no two employees have one number.
THEOREM CompanyStaysWhole == OrgSpec => []CompanyKept
  <1>1. OrgTypeOK /\ OrgInv => CompanyKept
    BY DEF OrgTypeOK, OrgInv, CompanyKept, TreeInv, TreeUnlessOverlap, NameInv, HashInv, OnePersonPerPesel, Decrypt
  <1> QED
    BY <1>1, OrganisationCorrect, PTL

(***************************************************************************)
(* The nightly analysis.  First the maximum of a set of naturals, by       *)
(* well-founded induction on finite sets, and sequences of any elements.   *)
(***************************************************************************)
HasMax(S) == \E x \in S : \A y \in S : x >= y

LEMMA FiniteMax ==
  ASSUME NEW S \in SUBSET Nat, IsFiniteSet(S), S # {}
  PROVE  HasMax(S)
  <1>1. PICK F : F = FiniteSubsetsOf(Nat)
    OBVIOUS
  <1>2. PICK R : R = StrictSubsetOrdering(Nat)
    OBVIOUS
  <1>3. IsWellFoundedOn(R, F)
    BY <1>1, <1>2, FS_StrictSubsetOrderingWellFounded
  <1>4. PICK T : T = {U \in F : U # {} /\ ~HasMax(U)}
    OBVIOUS
  <1>5. SUFFICES ASSUME T # {} PROVE FALSE
    BY <1>1, <1>4 DEF FiniteSubsetsOf
  <1>6. PICK U \in T : \A V \in T : <<V, U>> \notin R
    BY <1>3, <1>4, <1>5, WFMin
  <1>7. U \in SUBSET Nat /\ IsFiniteSet(U) /\ ~HasMax(U)
    BY <1>1, <1>4 DEF FiniteSubsetsOf
  <1>8. PICK x \in U : TRUE
    BY <1>4
  <1>9. U \ {x} \in F /\ <<U \ {x}, U>> \in R
    BY <1>1, <1>2, <1>7, <1>8, FS_RemoveElement DEF FiniteSubsetsOf, StrictSubsetOrdering
  <1>10. U \ {x} = {} \/ HasMax(U \ {x})
    BY <1>4, <1>6, <1>9
  <1>11. CASE U \ {x} = {}
    BY <1>7, <1>8, <1>11 DEF HasMax
  <1>12. CASE HasMax(U \ {x})
    <2>1. PICK m \in U \ {x} : \A y \in U \ {x} : m >= y
      BY <1>12 DEF HasMax
    <2>2. \A y \in U : (IF m >= x THEN m ELSE x) >= y
      BY <1>7, <1>8, <2>1
    <2> QED
      BY <1>7, <1>8, <2>1, <2>2 DEF HasMax
  <1> QED
    BY <1>10, <1>11, <1>12

LEMMA MaxOf ==
  ASSUME NEW n \in Nat, NEW S \in SUBSET (0..n), S # {}
  PROVE  Max(S) \in S
  <1>1. S \in SUBSET Nat /\ IsFiniteSet(S)
    <2>1. IsFiniteSet(0..n) /\ 0..n \subseteq Nat
      BY FS_Interval
    <2> QED
      BY <2>1, FS_Subset
  <1>2. HasMax(S)
    BY <1>1, FiniteMax
  <1> QED
    BY <1>2 DEF Max, HasMax

\* A sequence, whatever its elements.
IsSeq(s) == \E S : s \in Seq(S)

LEMMA SeqAnyWider ==
  ASSUME NEW S, NEW T, NEW s \in Seq(S)
  PROVE  s \in Seq(S \cup T)
  <1>1. PICK n \in Nat : s \in [1..n -> S]
    BY SeqDef
  <1>2. s \in [1..n -> S \cup T]
    BY <1>1
  <1> QED
    BY <1>1, <1>2, SeqDef

LEMMA LenAny ==
  ASSUME NEW s, IsSeq(s)
  PROVE  Len(s) \in Nat /\ DOMAIN s = 1..Len(s)
  <1>1. PICK S : s \in Seq(S)
    BY DEF IsSeq
  <1> QED
    BY <1>1, LenProperties

\* r is s with x, or with the sequence t, at its end.
Extended(s, x, r) ==
  /\ IsSeq(r) /\ Len(r) = Len(s) + 1 /\ r[Len(s) + 1] = x
  /\ \A i \in 1..Len(s) : r[i] = s[i]
Joined(s, t, r) ==
  /\ IsSeq(r) /\ Len(r) = Len(s) + Len(t)
  /\ \A i \in 1..Len(s) : r[i] = s[i]
  /\ \A i \in 1..Len(t) : r[Len(s) + i] = t[i]

LEMMA AppendAny ==
  ASSUME NEW s, IsSeq(s), NEW x
  PROVE  Extended(s, x, Append(s, x))
  <1>1. PICK S : s \in Seq(S)
    BY DEF IsSeq
  <1>2. PICK T : T = S \cup {x}
    OBVIOUS
  <1>3. s \in Seq(T) /\ x \in T
    BY <1>1, <1>2, SeqAnyWider
  <1>4. Append(s, x) \in Seq(T)
    BY <1>3, AppendProperties
  <1> QED
    BY <1>3, <1>4, AppendProperties DEF IsSeq, Extended

LEMMA ConcatAny ==
  ASSUME NEW s, IsSeq(s), NEW t, IsSeq(t)
  PROVE  Joined(s, t, s \o t)
  <1>1. PICK S : s \in Seq(S)
    BY DEF IsSeq
  <1>2. PICK T : t \in Seq(T)
    BY DEF IsSeq
  <1>3. PICK U : U = S \cup T
    OBVIOUS
  <1>4. s \in Seq(U) /\ t \in Seq(T \cup S) /\ T \cup S = U
    BY <1>1, <1>2, <1>3, SeqAnyWider
  <1>5. t \in Seq(U)
    BY <1>4
  <1>6. PICK r : r = s \o t
    OBVIOUS
  <1>7. /\ r \in Seq(U) /\ Len(r) = Len(s) + Len(t)
        /\ \A i \in 1..(Len(s) + Len(t)) : r[i] = IF i <= Len(s) THEN s[i] ELSE t[i - Len(s)]
    BY <1>4, <1>5, <1>6, ConcatProperties
  <1>8. Len(s) \in Nat /\ Len(t) \in Nat
    BY LenAny
  <1>9. \A i \in 1..Len(s) : r[i] = s[i]
    BY <1>7, <1>8
  <1>10. ASSUME NEW i \in 1..Len(t) PROVE r[Len(s) + i] = t[i]
    <2>1. Len(s) + i \in 1..(Len(s) + Len(t)) /\ ~(Len(s) + i <= Len(s)) /\ (Len(s) + i) - Len(s) = i
      BY <1>8
    <2> QED
      BY <1>7, <2>1
  <1>11. IsSeq(r)
    BY <1>7 DEF IsSeq
  <1>12. Joined(s, t, r)
    BY <1>7, <1>9, <1>10, <1>11 DEF Joined
  <1> QED
    BY <1>6, <1>12

\* The sequences of the analysis are sequences.
BrainSeqs == IsSeq(reco) /\ \A p \in Passes : IsSeq(pass[p].emitted)

BrainOK == BrainShape /\ BrainSeqs /\ HistoryInv /\ DraftInv

LEMMA HeadInReco ==
  ASSUME IsSeq(reco), NEW l, HeadOf(l) # 0
  PROVE  HeadOf(l) \in DOMAIN reco /\ reco[HeadOf(l)].event.place = l
  <1>1. Len(reco) \in Nat /\ DOMAIN reco = 1..Len(reco)
    BY LenAny
  <1>2. PICK S : S = {i \in DOMAIN reco : reco[i].event.place = l} \cup {0}
    OBVIOUS
  <1>3. S \in SUBSET (0..Len(reco)) /\ S # {}
    BY <1>1, <1>2
  <1>4. Max(S) \in S
    BY <1>1, <1>3, MaxOf
  <1> QED
    BY <1>2, <1>4 DEF HeadOf

LEMMA InitBrain == BrainInit => BrainOK
  <1> SUFFICES ASSUME BrainInit PROVE BrainOK
    OBVIOUS
  <1>1. /\ window = 0 /\ snapshot = [k \in People \X Windows |-> NoRow] /\ reco = <<>>
        /\ pass = [p \in Passes |-> NoPass] /\ brainLeft \in BrainBudgets
    BY DEF BrainInit
  <1>2. <<>> \in Seq({}) /\ DOMAIN <<>> = {}
    BY EmptySeq
  <1>3. NoPass.at = "idle" /\ NoPass.win = 0 /\ NoPass.people = {} /\ NoPass.places = {} /\ NoPass.emitted = <<>>
    BY DEF NoPass
  <1>4. BrainSeqs
    BY <1>1, <1>2, <1>3 DEF BrainSeqs, IsSeq
  <1>5. /\ brainLeft \in [windows : Nat, passes : Nat, patches : Nat]
        /\ window \in Nat /\ window + brainLeft.windows <= MaxWindow /\ 0 \in Windows
    <2>1. MaxWindow \in Nat /\ brainLeft \in [windows : 0..MaxWindow, passes : Nat, patches : Nat]
      BY <1>1, BrainAssumption
    <2>2. brainLeft.windows \in 0..MaxWindow
      BY <2>1
    <2> QED
      BY <1>1, <2>1, <2>2 DEF Windows
  <1>6. NoPass = [f \in DOMAIN NoPass |-> NoPass[f]]
    BY DEF NoPass
  <1>7. BrainShape
    BY <1>1, <1>2, <1>3, <1>5, <1>6 DEF BrainShape, Stages
  <1>8. HistoryInv
    BY <1>1, <1>2, <1>3 DEF HistoryInv, OnePass, LinearHistory
  <1>9. DraftInv
    BY <1>1, <1>3 DEF DraftInv, PenalisedOnce, Drafted
  <1> QED
    BY <1>4, <1>7, <1>8, <1>9 DEF BrainOK

\* A step that leaves the passes and what they wrote alone.
LEMMA BrainRest ==
  ASSUME BrainOK, UNCHANGED <<snapshot, reco, pass>>,
         brainLeft' \in [windows : Nat, passes : Nat, patches : Nat],
         window' \in Nat, window' + brainLeft'.windows <= MaxWindow
  PROVE  BrainOK'
  <1>1. BrainShape'
    BY DEF BrainOK, BrainShape
  <1>2. BrainSeqs'
    BY DEF BrainOK, BrainSeqs
  <1>3. \A k : Continues(k)' = Continues(k)
    BY DEF Continues, HeadOf
  <1>4. HistoryInv'
    BY <1>3 DEF BrainOK, HistoryInv, OnePass, LinearHistory
  <1>5. DraftInv'
    BY DEF BrainOK, DraftInv, PenalisedOnce
  <1> QED
    BY <1>1, <1>2, <1>4, <1>5 DEF BrainOK

\* What is spent of a budget.
LEMMA Spent ==
  ASSUME BrainShape, NEW what \in {"windows", "passes", "patches"}, Spend(what)
  PROVE  /\ brainLeft' \in [windows : Nat, passes : Nat, patches : Nat]
         /\ brainLeft'.windows = IF what = "windows" THEN brainLeft.windows - 1 ELSE brainLeft.windows
  <1>1. brainLeft \in [windows : Nat, passes : Nat, patches : Nat]
    BY DEF BrainShape
  <1>2. brainLeft[what] > 0 /\ brainLeft' = [brainLeft EXCEPT ![what] = @ - 1]
    BY DEF Spend
  <1>3. CASE what = "windows"
    BY <1>1, <1>2, <1>3
  <1>4. CASE what = "passes"
    BY <1>1, <1>2, <1>4
  <1>5. CASE what = "patches"
    BY <1>1, <1>2, <1>5
  <1> QED
    BY <1>3, <1>4, <1>5

\* The tenant's operation, its configuration and the acknowledgements.
LEMMA OtherBrain ==
  ASSUME BrainOK,
         \/ NextWindow
         \/ \E team \in Teams : Operate(team)
         \/ \E l \in Places, s \in Staffings : Replan(l, s)
         \/ \E k \in ConfigKeys, p \in ConfigPatches : PatchUnit(k, p)
         \/ \E c \in ConfigCalls : (\E p \in ConfigPatches : PatchDefault(c, p)) \/ CreateDefault(c) \/ UpdateDefault(c)
         \/ \E i \in DOMAIN reco : Acknowledge(i)
  PROVE  BrainOK'
  <1>1. BrainShape
    BY DEF BrainOK
  <1>2. /\ brainLeft \in [windows : Nat, passes : Nat, patches : Nat] /\ brainLeft.windows \in Nat
        /\ window \in Nat /\ window + brainLeft.windows <= MaxWindow /\ MaxWindow \in Nat
    BY <1>1, BrainAssumption DEF BrainShape
  <1>3. ASSUME UNCHANGED <<snapshot, reco, pass, window>>, brainLeft' = brainLeft \/ Spend("patches") PROVE BrainOK'
    BY <1>1, <1>2, <1>3, Spent, BrainRest
  <1>4. ASSUME NextWindow PROVE BrainOK'
    <2>1. Spend("windows") /\ window' = window + 1 /\ UNCHANGED <<snapshot, reco, pass>>
      BY <1>4 DEF NextWindow, resultVars
    <2>2. /\ brainLeft' \in [windows : Nat, passes : Nat, patches : Nat]
          /\ brainLeft'.windows = brainLeft.windows - 1
      BY <1>1, <2>1, Spent
    <2>3. window' \in Nat /\ window' + brainLeft'.windows <= MaxWindow
      BY <1>2, <2>1, <2>2
    <2> QED
      BY <2>1, <2>2, <2>3, BrainRest
  <1>5. ASSUME NEW team \in Teams, Operate(team) PROVE BrainOK'
    BY <1>3, <1>5 DEF Operate, resultVars
  <1>6. ASSUME NEW l \in Places, NEW s \in Staffings, Replan(l, s) PROVE BrainOK'
    BY <1>3, <1>6 DEF Replan, resultVars
  <1>7. ASSUME NEW k \in ConfigKeys, NEW p \in ConfigPatches, PatchUnit(k, p) PROVE BrainOK'
    BY <1>3, <1>7 DEF PatchUnit, dataVars, resultVars
  <1>8. ASSUME NEW c \in ConfigCalls, NEW p \in ConfigPatches, PatchDefault(c, p) PROVE BrainOK'
    BY <1>3, <1>8 DEF PatchDefault, dataVars, resultVars
  <1>9. ASSUME NEW c \in ConfigCalls, CreateDefault(c) \/ UpdateDefault(c) PROVE BrainOK'
    BY <1>3, <1>9 DEF CreateDefault, UpdateDefault, dataVars, resultVars
  <1>10. ASSUME NEW i \in DOMAIN reco, Acknowledge(i) PROVE BrainOK'
    BY <1>3, <1>10 DEF Acknowledge, dataVars, resultVars
  <1> QED
    BY <1>4, <1>5, <1>6, <1>7, <1>8, <1>9, <1>10

\* A step of one pass before it commits.
LEMMA PassStep ==
  ASSUME BrainOK, NEW p \in Passes, NEW x, pass' = [pass EXCEPT ![p] = x], UNCHANGED <<snapshot, reco, window>>,
         brainLeft' \in [windows : Nat, passes : Nat, patches : Nat], brainLeft'.windows = brainLeft.windows,
         x = [f \in DOMAIN NoPass |-> x[f]], x.at \in Stages, x.win \in Windows, x.people \subseteq People,
         x.places \subseteq Places, IsSeq(x.emitted),
         x.at # "idle" /\ pass[p].at = "idle" => \A q \in Passes : pass[q].at = "idle",
         x.at # "idle" => Continues(x), Drafted(x)
  PROVE  BrainOK'
  <1>1. BrainShape /\ BrainSeqs /\ HistoryInv /\ DraftInv
    BY DEF BrainOK
  <1>2. DOMAIN pass' = Passes /\ \A q \in Passes : pass'[q] = IF q = p THEN x ELSE pass[q]
    BY <1>1 DEF BrainShape
  <1>3. BrainShape'
    BY <1>1, <1>2 DEF BrainShape
  <1>4. BrainSeqs'
    BY <1>1, <1>2 DEF BrainSeqs
  <1>5. \A k : Continues(k)' = Continues(k)
    BY DEF Continues, HeadOf
  <1>6. OnePass'
    BY <1>1, <1>2 DEF HistoryInv, OnePass
  <1>7. HistoryInv'
    <2>1. ASSUME NEW q \in Passes, pass'[q].at # "idle" PROVE Continues(pass[q])'
      <3>1. PICK k : k = pass'[q]
        OBVIOUS
      <3>2. Continues(k)
        BY <1>1, <1>2, <2>1, <3>1 DEF HistoryInv
      <3>3. \A l : HeadOf(l)' = HeadOf(l)
        BY DEF HeadOf
      <3> QED
        BY <3>1, <3>2, <3>3 DEF Continues
    <2>2. LinearHistory'
      BY <1>1 DEF HistoryInv, LinearHistory
    <2> QED
      BY <1>6, <2>1, <2>2 DEF HistoryInv
  <1>8. DraftInv'
    BY <1>1, <1>2 DEF DraftInv, PenalisedOnce
  <1> QED
    BY <1>3, <1>4, <1>7, <1>8 DEF BrainOK

\* What the lemmas about a pass need of its locals.
LEMMA PassLocals ==
  ASSUME BrainOK, NEW p \in Passes, NEW k, k = pass[p]
  PROVE  /\ k = [at |-> k.at, win |-> k.win, people |-> k.people, places |-> k.places,
                 draft |-> k.draft, emitted |-> k.emitted]
         /\ k.at \in Stages /\ k.win \in Windows
         /\ k.people \subseteq People /\ k.places \subseteq Places /\ IsSeq(k.emitted)
         /\ k.at # "idle" => Continues(k)
         /\ Drafted(k)
         /\ brainLeft \in [windows : Nat, passes : Nat, patches : Nat]
  <1>1. /\ k = [f \in DOMAIN NoPass |-> k[f]] /\ k.at \in Stages /\ k.win \in Windows
        /\ k.people \subseteq People /\ k.places \subseteq Places
        /\ brainLeft \in [windows : Nat, passes : Nat, patches : Nat]
    BY DEF BrainOK, BrainShape
  <1>2. IsSeq(k.emitted) /\ (k.at # "idle" => Continues(k)) /\ Drafted(k)
    BY DEF BrainOK, BrainSeqs, HistoryInv, DraftInv
  <1>3. DOMAIN NoPass = {"at", "win", "people", "places", "draft", "emitted"}
    BY DEF NoPass
  <1> QED
    BY <1>1, <1>2, <1>3

LEMMA BeginBrain ==
  ASSUME BrainOK, NEW p \in Passes, Begin(p)
  PROVE  BrainOK'
  <1>1. PICK k : k = [NoPass EXCEPT !.at = "compute", !.win = window, !.people = People, !.places = Places]
    OBVIOUS
  <1>2. k = [at |-> "compute", win |-> window, people |-> People, places |-> Places,
             draft |-> <<>>, emitted |-> <<>>]
    BY <1>1 DEF NoPass
  <1>3. /\ pass' = (IF TryLock THEN [pass EXCEPT ![p] = k] ELSE pass)
        /\ UNCHANGED <<snapshot, reco, window>> /\ Spend("passes")
    BY <1>1 DEF Begin, dataVars, resultVars
  <1>4. /\ brainLeft' \in [windows : Nat, passes : Nat, patches : Nat] /\ brainLeft'.windows = brainLeft.windows
        /\ window \in Nat /\ brainLeft.windows \in Nat /\ window + brainLeft.windows <= MaxWindow /\ MaxWindow \in Nat
    BY <1>3, Spent, BrainAssumption DEF BrainOK, BrainShape
  <1>5. window \in Windows
    BY <1>4 DEF Windows
  <1>6. CASE TryLock
    <2>1. <<>> \in Seq({}) /\ DOMAIN <<>> = {}
      BY EmptySeq
    <2>2. k = [f \in DOMAIN NoPass |-> k[f]]
      BY <1>2 DEF NoPass
    <2>3. Continues(k) /\ Drafted(k) /\ IsSeq(k.emitted)
      BY <1>2, <2>1 DEF Continues, Drafted, IsSeq
    <2>4. \A q \in Passes : pass[q].at = "idle"
      BY <1>6 DEF TryLock
    <2> QED
      BY <1>2, <1>3, <1>4, <1>5, <1>6, <2>2, <2>3, <2>4, PassStep DEF Stages
  <1>7. CASE ~TryLock
    BY <1>3, <1>4, <1>7, BrainRest
  <1> QED
    BY <1>6, <1>7

LEMMA ComputeSnapshotBrain ==
  ASSUME BrainOK, NEW p \in Passes, NEW e \in People, ComputeSnapshot(p, e)
  PROVE  BrainOK'
  <1>1. PICK k : k = pass[p]
    OBVIOUS
  <1>2. /\ k = [at |-> k.at, win |-> k.win, people |-> k.people, places |-> k.places,
                draft |-> k.draft, emitted |-> k.emitted]
        /\ k.at \in Stages /\ k.win \in Windows
        /\ k.people \subseteq People /\ k.places \subseteq Places /\ IsSeq(k.emitted)
        /\ k.at # "idle" => Continues(k)
        /\ Drafted(k)
        /\ brainLeft \in [windows : Nat, passes : Nat, patches : Nat]
    BY <1>1, PassLocals
  <1>3. PICK row : row = SnapshotOf(e, k.win, EffectiveConfig(PeerKey[e].unit))
    OBVIOUS
  <1>4. PICK d : d = Put(k.draft, <<e, k.win>>, row)
    OBVIOUS
  <1>5. PICK at : at = IF k.people = {e} THEN "finalize" ELSE k.at
    OBVIOUS
  <1>6. PICK x : x = [k EXCEPT !.people = @ \ {e}, !.draft = d, !.at = at]
    OBVIOUS
  <1>7. k.at = "compute" /\ e \in k.people
    BY <1>1 DEF ComputeSnapshot
  <1>8. pass' = [pass EXCEPT ![p].people = @ \ {e}, ![p].draft = d, ![p].at = at]
    BY <1>1, <1>3, <1>4, <1>5 DEF ComputeSnapshot, Upserted
  <1>9. /\ x.at = at /\ x.win = k.win /\ x.people = k.people \ {e} /\ x.places = k.places
        /\ x.draft = d /\ x.emitted = k.emitted
        /\ x = [f \in {"at", "win", "people", "places", "draft", "emitted"} |-> x[f]]
    BY <1>2, <1>6
  <1>10. pass' = [pass EXCEPT ![p] = x]
    BY <1>1, <1>6, <1>8 DEF BrainOK, BrainShape
  <1>11. UNCHANGED <<snapshot, reco, window, brainLeft>>
    BY DEF ComputeSnapshot, dataVars, resultVars
  <1>12. /\ {"done", "confidence", "configHash"} \subseteq DOMAIN row
         /\ row.confidence = BaseOf(<<e, k.win>>, row)
    BY <1>3 DEF SnapshotOf, BaseOf
  <1>13. DOMAIN d = DOMAIN k.draft \cup {<<e, k.win>>}
         /\ \A y \in DOMAIN d : d[y] = IF y = <<e, k.win>> THEN row ELSE k.draft[y]
    BY <1>4 DEF Put
  <1>14. /\ \A y \in DOMAIN k.draft : /\ {"done", "confidence", "configHash"} \subseteq DOMAIN k.draft[y]
                                      /\ k.draft[y].confidence = BaseOf(y, k.draft[y])
         /\ \A f \in People : f \notin k.people => <<f, k.win>> \in DOMAIN k.draft
    BY <1>2, <1>7 DEF Drafted
  <1>15. \A y \in DOMAIN d : /\ {"done", "confidence", "configHash"} \subseteq DOMAIN d[y]
                             /\ d[y].confidence = BaseOf(y, d[y])
    BY <1>12, <1>13, <1>14
  <1>16. \A f \in People : f \notin k.people \ {e} => <<f, k.win>> \in DOMAIN d
    BY <1>13, <1>14
  <1>17. Drafted(x)
    BY <1>5, <1>7, <1>9, <1>15, <1>16 DEF Drafted
  <1>18. Continues(x)
    BY <1>2, <1>7, <1>9 DEF Continues
  <1>19. x = [f \in DOMAIN NoPass |-> x[f]]
    BY <1>9 DEF NoPass
  <1>20. /\ x.at \in Stages /\ x.win \in Windows /\ x.people \subseteq People /\ x.places \subseteq Places
         /\ IsSeq(x.emitted) /\ pass[p].at # "idle"
    BY <1>1, <1>2, <1>5, <1>7, <1>9 DEF Stages
  <1>21. brainLeft' \in [windows : Nat, passes : Nat, patches : Nat] /\ brainLeft'.windows = brainLeft.windows
    BY <1>2, <1>11
  <1> QED
    BY <1>10, <1>11, <1>17, <1>18, <1>19, <1>20, <1>21, PassStep

LEMMA AbortBrain ==
  ASSUME BrainOK, NEW p \in Passes, Abort(p)
  PROVE  BrainOK'
  <1>1. pass' = [pass EXCEPT ![p] = NoPass] /\ UNCHANGED <<snapshot, reco, window, brainLeft>>
    BY DEF Abort, dataVars, resultVars
  <1>2. /\ NoPass = [f \in DOMAIN NoPass |-> NoPass[f]] /\ NoPass.at = "idle" /\ NoPass.win = 0
        /\ NoPass.people = {} /\ NoPass.places = {} /\ NoPass.emitted = <<>>
    BY DEF NoPass
  <1>3. IsSeq(<<>>)
    BY EmptySeq DEF IsSeq
  <1>4. Drafted(NoPass)
    BY <1>2 DEF Drafted
  <1>5. 0 \in Windows
    BY BrainAssumption DEF Windows
  <1>6. brainLeft' \in [windows : Nat, passes : Nat, patches : Nat] /\ brainLeft'.windows = brainLeft.windows
    BY <1>1 DEF BrainOK, BrainShape
  <1> QED
    BY <1>1, <1>2, <1>3, <1>4, <1>5, <1>6, PassStep DEF Stages

LEMMA FinalizeBrain ==
  ASSUME BrainOK, NEW p \in Passes, FinalizeWindow(p)
  PROVE  BrainOK'
  <1>1. PICK k : k = pass[p]
    OBVIOUS
  <1>2. /\ k = [at |-> k.at, win |-> k.win, people |-> k.people, places |-> k.places,
                draft |-> k.draft, emitted |-> k.emitted]
        /\ k.at \in Stages /\ k.win \in Windows
        /\ k.people \subseteq People /\ k.places \subseteq Places /\ IsSeq(k.emitted)
        /\ k.at # "idle" => Continues(k)
        /\ Drafted(k)
        /\ brainLeft \in [windows : Nat, passes : Nat, patches : Nat]
    BY <1>1, PassLocals
  <1>3. PICK rows : rows = View(p)
    OBVIOUS
  <1>4. PICK cfg : cfg = EffectiveConfig("DEFAULT")
    OBVIOUS
  <1>5. PICK K : K = {<<e, k.win>> : e \in {y \in People : rows[<<y, k.win>>] # NoRow}}
    OBVIOUS
  <1>6. PICK d : d = [y \in K |-> Finalized(rows, y[1], k.win, cfg)]
    OBVIOUS
  <1>7. PICK x : x = [k EXCEPT !.draft = d, !.at = "recruit"]
    OBVIOUS
  <1>8. k.at = "finalize" /\ pass' = [pass EXCEPT ![p].draft = d, ![p].at = "recruit"]
    BY <1>1, <1>3, <1>4, <1>5, <1>6 DEF FinalizeWindow
  <1>9. /\ x.at = "recruit" /\ x.win = k.win /\ x.people = k.people /\ x.places = k.places
        /\ x.draft = d /\ x.emitted = k.emitted
        /\ x = [f \in {"at", "win", "people", "places", "draft", "emitted"} |-> x[f]]
    BY <1>2, <1>7
  <1>10. pass' = [pass EXCEPT ![p] = x]
    BY <1>1, <1>7, <1>8 DEF BrainOK, BrainShape
  <1>11. UNCHANGED <<snapshot, reco, window, brainLeft>>
    BY DEF FinalizeWindow, dataVars, resultVars
  <1>12. ASSUME NEW y \in DOMAIN d PROVE PenalisedRow(y, d[y])
    <2>1. PICK e \in People : y = <<e, k.win>>
      BY <1>5, <1>6, <1>12
    <2>2. PICK row : row = rows[y]
      OBVIOUS
    <2>3. y \in DOMAIN snapshot /\ y \in DOMAIN k.draft
      BY <1>2, <1>8, <2>1 DEF Drafted, BrainOK, BrainShape
    <2>4. row = k.draft[y]
      BY <1>1, <1>3, <2>2, <2>3 DEF View, Override
    <2>5. {"done", "confidence", "configHash"} \subseteq DOMAIN row /\ row.confidence = BaseOf(y, row)
      BY <1>2, <1>8, <2>3, <2>4 DEF Drafted
    <2>6. d[y] = Finalized(rows, e, k.win, cfg)
      BY <1>6, <1>12, <2>1
    <2>7. PICK ladder : ladder = Ladder(e, {z \in People : rows[<<z, k.win>>] # NoRow}, PeerKey)
      OBVIOUS
    <2>8. PICK level : level = Level(ladder, cfg.minPeers)
      OBVIOUS
    <2>9. PICK fellBack \in BOOLEAN : fellBack <=> level > 1
      OBVIOUS
    <2>10. PICK meaningful \in BOOLEAN : meaningful <=> Cardinality(ladder[level]) >= cfg.minPeers
      OBVIOUS
    <2>11. d[y].confidence = Penalised(row.confidence, level > 1, Cardinality(ladder[level]) >= cfg.minPeers)
      BY <2>1, <2>2, <2>5, <2>6, <2>7, <2>8 DEF Finalized
    <2>12. d[y].done = row.done /\ d[y].configHash = row.configHash
      BY <2>1, <2>2, <2>5, <2>6 DEF Finalized
    <2>13. d[y].confidence = Penalised(row.confidence, fellBack, meaningful)
      BY <2>9, <2>10, <2>11
    <2> QED
      BY <2>5, <2>12, <2>13 DEF PenalisedRow, BaseOf
  <1>13. Drafted(x)
    BY <1>9, <1>12 DEF Drafted
  <1>14. Continues(x)
    BY <1>2, <1>8, <1>9 DEF Continues
  <1>15. x = [f \in DOMAIN NoPass |-> x[f]]
    BY <1>9 DEF NoPass
  <1>16. /\ x.at \in Stages /\ x.win \in Windows /\ x.people \subseteq People /\ x.places \subseteq Places
         /\ IsSeq(x.emitted) /\ pass[p].at # "idle"
    BY <1>1, <1>2, <1>8, <1>9 DEF Stages
  <1>17. brainLeft' \in [windows : Nat, passes : Nat, patches : Nat] /\ brainLeft'.windows = brainLeft.windows
    BY <1>2, <1>11
  <1> QED
    BY <1>10, <1>11, <1>13, <1>14, <1>15, <1>16, <1>17, PassStep

LEMMA EmitBrain ==
  ASSUME BrainOK, NEW p \in Passes, NEW l \in Places, EmitRecruitment(p, l)
  PROVE  BrainOK'
  <1>1. PICK k : k = pass[p]
    OBVIOUS
  <1>2. /\ k = [at |-> k.at, win |-> k.win, people |-> k.people, places |-> k.places,
                draft |-> k.draft, emitted |-> k.emitted]
        /\ k.at \in Stages /\ k.win \in Windows
        /\ k.people \subseteq People /\ k.places \subseteq Places /\ IsSeq(k.emitted)
        /\ k.at # "idle" => Continues(k)
        /\ Drafted(k)
        /\ brainLeft \in [windows : Nat, passes : Nat, patches : Nat]
    BY <1>1, PassLocals
  <1>3. PICK new : new = Verdict(l, View(p), EffectiveConfig("DEFAULT"))
    OBVIOUS
  <1>4. PICK head : head = HeadOf(l)
    OBVIOUS
  <1>5. PICK event : event = [event |-> new, replaces |-> head]
    OBVIOUS
  <1>6. PICK unchanged \in BOOLEAN : unchanged <=> (head # 0 /\ reco[head].event = new)
    OBVIOUS
  <1>7. PICK em : em = IF unchanged THEN k.emitted ELSE Append(k.emitted, event)
    OBVIOUS
  <1>8. PICK at : at = IF k.places = {l} THEN "commit" ELSE k.at
    OBVIOUS
  <1>9. PICK x : x = [k EXCEPT !.places = @ \ {l}, !.emitted = em, !.at = at]
    OBVIOUS
  <1>10. k.at = "recruit" /\ l \in k.places
    BY <1>1 DEF EmitRecruitment
  <1>11. pass' = [pass EXCEPT ![p].places = @ \ {l}, ![p].emitted = em, ![p].at = at]
    BY <1>1, <1>3, <1>4, <1>5, <1>6, <1>7, <1>8 DEF EmitRecruitment
  <1>12. /\ x.at = at /\ x.win = k.win /\ x.people = k.people /\ x.places = k.places \ {l}
         /\ x.draft = k.draft /\ x.emitted = em
         /\ x = [f \in {"at", "win", "people", "places", "draft", "emitted"} |-> x[f]]
    BY <1>2, <1>9
  <1>13. pass' = [pass EXCEPT ![p] = x]
    BY <1>1, <1>9, <1>11 DEF BrainOK, BrainShape
  <1>14. UNCHANGED <<snapshot, reco, window, brainLeft>>
    BY DEF EmitRecruitment, dataVars, resultVars
  <1>15. new.place = l
    BY <1>3 DEF Verdict
  <1>16. \A i \in DOMAIN k.emitted :
           /\ k.emitted[i].event.place \notin k.places
           /\ \A j \in DOMAIN k.emitted : k.emitted[j].event.place = k.emitted[i].event.place => i = j
           /\ k.emitted[i].replaces = HeadOf(k.emitted[i].event.place)
           /\ k.emitted[i].replaces # 0 => reco[k.emitted[i].replaces].event # k.emitted[i].event
    BY <1>2, <1>10 DEF Continues
  <1>17. ASSUME unchanged PROVE Continues(x) /\ IsSeq(x.emitted)
    BY <1>2, <1>7, <1>12, <1>16, <1>17 DEF Continues
  <1>18. ASSUME ~unchanged PROVE Continues(x) /\ IsSeq(x.emitted)
    <2>1. PICK n : n = Len(k.emitted) + 1
      OBVIOUS
    <2>2. /\ IsSeq(em) /\ Len(em) = Len(k.emitted) + 1 /\ em[Len(k.emitted) + 1] = event
          /\ \A i \in 1..Len(k.emitted) : em[i] = k.emitted[i]
      <3>1. em = Append(k.emitted, event) /\ IsSeq(k.emitted)
        BY <1>2, <1>7, <1>18
      <3>2. Extended(k.emitted, event, em)
        BY <3>1, AppendAny
      <3> QED
        BY <3>2 DEF Extended
    <2>3. Len(k.emitted) \in Nat /\ DOMAIN k.emitted = 1..Len(k.emitted) /\ DOMAIN em = 1..Len(em)
      BY <1>2, <2>2, LenAny
    <2>4. /\ DOMAIN em = DOMAIN k.emitted \cup {n} /\ n \notin DOMAIN k.emitted /\ em[n] = event
          /\ \A i \in DOMAIN k.emitted : em[i] = k.emitted[i]
      BY <2>1, <2>2, <2>3
    <2>5. /\ event.event.place = l /\ event.replaces = HeadOf(event.event.place)
          /\ event.replaces # 0 => reco[event.replaces].event # event.event
      BY <1>4, <1>5, <1>6, <1>15, <1>18
    <2>6. \A i \in DOMAIN k.emitted : k.emitted[i].event.place # l
      BY <1>10, <1>16
    <2>7. ASSUME NEW i \in DOMAIN em
          PROVE  /\ em[i].event.place \notin k.places \ {l}
                 /\ \A j \in DOMAIN em : em[j].event.place = em[i].event.place => i = j
                 /\ em[i].replaces = HeadOf(em[i].event.place)
                 /\ em[i].replaces # 0 => reco[em[i].replaces].event # em[i].event
      <3>1. CASE i = n
        BY <2>4, <2>5, <2>6, <3>1
      <3>2. CASE i \in DOMAIN k.emitted
        BY <1>16, <2>4, <2>5, <2>6, <3>2
      <3> QED
        BY <2>4, <2>7, <3>1, <3>2
    <2>8. Continues(x)
      BY <1>12, <2>7 DEF Continues
    <2> QED
      BY <1>12, <2>2, <2>8
  <1>19. Continues(x) /\ IsSeq(x.emitted)
    BY <1>17, <1>18
  <1>20. Drafted(x)
    BY <1>2, <1>8, <1>10, <1>12 DEF Drafted
  <1>21. x = [f \in DOMAIN NoPass |-> x[f]]
    BY <1>12 DEF NoPass
  <1>22. /\ x.at \in Stages /\ x.win \in Windows /\ x.people \subseteq People /\ x.places \subseteq Places
         /\ pass[p].at # "idle"
    BY <1>1, <1>2, <1>8, <1>10, <1>12 DEF Stages
  <1>23. brainLeft' \in [windows : Nat, passes : Nat, patches : Nat] /\ brainLeft'.windows = brainLeft.windows
    BY <1>2, <1>14
  <1> QED
    BY <1>13, <1>14, <1>19, <1>20, <1>21, <1>22, <1>23, PassStep

LEMMA CommitBrain ==
  ASSUME BrainOK, NEW p \in Passes, Commit(p)
  PROVE  BrainOK'
  <1>1. PICK k : k = pass[p]
    OBVIOUS
  <1>2. /\ k = [at |-> k.at, win |-> k.win, people |-> k.people, places |-> k.places,
                draft |-> k.draft, emitted |-> k.emitted]
        /\ k.at \in Stages /\ k.win \in Windows
        /\ k.people \subseteq People /\ k.places \subseteq Places /\ IsSeq(k.emitted)
        /\ k.at # "idle" => Continues(k)
        /\ Drafted(k)
        /\ brainLeft \in [windows : Nat, passes : Nat, patches : Nat]
    BY <1>1, PassLocals
  <1>3. /\ k.at = "commit" /\ snapshot' = Override(snapshot, k.draft) /\ reco' = reco \o k.emitted
        /\ pass' = [pass EXCEPT ![p] = NoPass] /\ UNCHANGED <<window, brainLeft>>
    BY <1>1 DEF Commit, View, dataVars
  <1>4. BrainShape /\ BrainSeqs /\ HistoryInv /\ DraftInv
    BY DEF BrainOK
  <1>5. /\ NoPass = [f \in DOMAIN NoPass |-> NoPass[f]] /\ NoPass.at = "idle" /\ NoPass.win = 0
        /\ NoPass.people = {} /\ NoPass.places = {} /\ NoPass.emitted = <<>>
    BY DEF NoPass
  <1>6. DOMAIN pass' = Passes /\ \A q \in Passes : pass'[q] = IF q = p THEN NoPass ELSE pass[q]
    BY <1>3, <1>4 DEF BrainShape
  <1>7. IsSeq(reco) /\ Joined(reco, k.emitted, reco')
    BY <1>2, <1>3, <1>4, ConcatAny DEF BrainSeqs
  <1>8. /\ IsSeq(reco') /\ Len(reco') = Len(reco) + Len(k.emitted)
        /\ \A i \in 1..Len(reco) : reco'[i] = reco[i]
        /\ \A i \in 1..Len(k.emitted) : reco'[Len(reco) + i] = k.emitted[i]
    BY <1>7 DEF Joined
  <1>9. /\ Len(reco) \in Nat /\ DOMAIN reco = 1..Len(reco)
        /\ Len(k.emitted) \in Nat /\ DOMAIN k.emitted = 1..Len(k.emitted)
        /\ DOMAIN reco' = 1..Len(reco')
    BY <1>2, <1>7, <1>8, LenAny
  <1>10. \A i \in DOMAIN k.emitted :
           /\ \A j \in DOMAIN k.emitted : k.emitted[j].event.place = k.emitted[i].event.place => i = j
           /\ k.emitted[i].replaces = HeadOf(k.emitted[i].event.place)
           /\ k.emitted[i].replaces # 0 => reco[k.emitted[i].replaces].event # k.emitted[i].event
    BY <1>2, <1>3 DEF Continues
  <1>11. ASSUME NEW i \in DOMAIN reco'
         PROVE  /\ reco'[i].replaces \in 0..(i - 1)
                /\ reco'[i].replaces = Max({j \in 1..(i - 1) : reco'[j].event.place = reco'[i].event.place} \cup {0})
                /\ reco'[i].replaces # 0 => reco'[reco'[i].replaces].event # reco'[i].event
    <2>1. CASE i \in 1..Len(reco)
      <3>1. reco'[i] = reco[i] /\ i \in DOMAIN reco /\ i \in Nat
        BY <1>8, <1>9, <2>1
      <3>2. /\ reco[i].replaces \in 0..(i - 1)
            /\ reco[i].replaces = Max({j \in 1..(i - 1) : reco[j].event.place = reco[i].event.place} \cup {0})
            /\ reco[i].replaces # 0 => reco[reco[i].replaces].event # reco[i].event
        BY <1>4, <3>1 DEF BrainShape, HistoryInv, LinearHistory
      <3>3. \A j \in 1..(i - 1) : reco'[j] = reco[j]
        BY <1>8, <1>9, <2>1
      <3>4. {j \in 1..(i - 1) : reco'[j].event.place = reco'[i].event.place}
              = {j \in 1..(i - 1) : reco[j].event.place = reco[i].event.place}
        BY <3>1, <3>3
      <3>5. reco[i].replaces # 0 => reco'[reco[i].replaces] = reco[reco[i].replaces]
        BY <3>1, <3>2, <3>3
      <3> QED
        BY <3>1, <3>2, <3>4, <3>5
    <2>2. CASE i \notin 1..Len(reco)
      <3>1. PICK m : m = i - Len(reco)
        OBVIOUS
      <3>2. m \in 1..Len(k.emitted) /\ i = Len(reco) + m /\ i \in Nat
        BY <1>8, <1>9, <1>11, <2>2, <3>1
      <3>3. PICK new : new = k.emitted[m]
        OBVIOUS
      <3>4. reco'[i] = new
        BY <1>8, <3>2, <3>3
      <3>5. ASSUME NEW j \in 1..(i - 1), reco'[j].event.place = new.event.place PROVE j \in DOMAIN reco /\ reco'[j] = reco[j]
        <4>1. CASE j \in 1..Len(reco)
          BY <1>8, <1>9, <4>1
        <4>2. CASE j \notin 1..Len(reco)
          <5>1. PICK a : a = j - Len(reco)
            OBVIOUS
          <5>2. a \in 1..Len(k.emitted) /\ j = Len(reco) + a /\ a # m
            BY <1>9, <3>2, <3>5, <4>2, <5>1
          <5>3. reco'[j] = k.emitted[a]
            BY <1>8, <5>2
          <5> QED
            BY <1>9, <1>10, <3>2, <3>3, <3>5, <5>2, <5>3
        <4> QED
          BY <4>1, <4>2
      <3>6. \A j \in DOMAIN reco : j \in 1..(i - 1) /\ reco'[j] = reco[j]
        BY <1>8, <1>9, <3>2
      <3>7. {j \in 1..(i - 1) : reco'[j].event.place = new.event.place}
              = {j \in DOMAIN reco : reco[j].event.place = new.event.place}
        BY <3>5, <3>6
      <3>8. new.replaces = HeadOf(new.event.place)
            /\ (new.replaces # 0 => reco[new.replaces].event # new.event)
        BY <1>9, <1>10, <3>2, <3>3
      <3>9. new.replaces # 0 => new.replaces \in DOMAIN reco
        BY <1>7, <3>8, HeadInReco
      <3>10. new.replaces \in 0..(i - 1)
        BY <3>2, <3>6, <3>9
      <3>11. HeadOf(new.event.place)
               = Max({j \in 1..(i - 1) : reco'[j].event.place = new.event.place} \cup {0})
        BY <3>7 DEF HeadOf
      <3>12. new.replaces # 0 => reco'[new.replaces].event # new.event
        BY <3>6, <3>8, <3>9
      <3> QED
        BY <3>4, <3>8, <3>10, <3>11, <3>12
    <2> QED
      BY <2>1, <2>2
  <1>12. DOMAIN snapshot' = DOMAIN snapshot
         /\ \A y \in DOMAIN snapshot : snapshot'[y] = IF y \in DOMAIN k.draft THEN k.draft[y] ELSE snapshot[y]
    BY <1>3 DEF Override
  <1>13. BrainShape'
    <2>1. 0 \in Windows
      BY BrainAssumption DEF Windows
    <2>2. \A i \in DOMAIN reco' : reco'[i].replaces \in 0..(i - 1)
      BY <1>11
    <2>3. \A q \in Passes : /\ pass'[q] = [f \in DOMAIN NoPass |-> pass'[q][f]]
                            /\ pass'[q].at \in Stages /\ pass'[q].win \in Windows
                            /\ pass'[q].people \subseteq People /\ pass'[q].places \subseteq Places
      BY <1>4, <1>5, <1>6, <2>1 DEF BrainShape, Stages
    <2>4. DOMAIN snapshot' = People \X Windows
      BY <1>4, <1>12 DEF BrainShape
    <2> QED
      BY <1>3, <1>4, <1>6, <2>2, <2>3, <2>4 DEF BrainShape
  <1>14. BrainSeqs'
    <2>1. IsSeq(<<>>)
      BY EmptySeq DEF IsSeq
    <2> QED
      BY <1>4, <1>5, <1>6, <1>8, <2>1 DEF BrainSeqs
  <1>15. HistoryInv'
    <2>1. \A q \in Passes : pass'[q].at = "idle"
      BY <1>1, <1>3, <1>4, <1>5, <1>6 DEF HistoryInv, OnePass
    <2>2. LinearHistory'
      BY <1>11 DEF LinearHistory
    <2> QED
      BY <2>1, <2>2 DEF HistoryInv, OnePass
  <1>16. DraftInv'
    <2>1. Drafted(NoPass)
      BY <1>5 DEF Drafted
    <2>2. \A q \in Passes : Drafted(pass'[q])
      BY <1>4, <1>6, <2>1 DEF DraftInv
    <2>3. \A y \in DOMAIN k.draft : PenalisedRow(y, k.draft[y])
      BY <1>2, <1>3 DEF Drafted
    <2>4. PenalisedOnce'
      BY <1>4, <1>12, <2>3 DEF DraftInv, PenalisedOnce
    <2> QED
      BY <2>2, <2>4 DEF DraftInv
  <1> QED
    BY <1>13, <1>14, <1>15, <1>16 DEF BrainOK

LEMMA NextBrain ==
  ASSUME BrainOK, [BrainNext]_brainVars
  PROVE  BrainOK'
  <1>1. CASE UNCHANGED brainVars
    <2>1. UNCHANGED <<window, snapshot, reco, pass, brainLeft>>
      BY <1>1 DEF brainVars
    <2>2. /\ brainLeft' \in [windows : Nat, passes : Nat, patches : Nat]
          /\ window' \in Nat /\ window' + brainLeft'.windows <= MaxWindow
      BY <2>1 DEF BrainOK, BrainShape
    <2> QED
      BY <2>1, <2>2, BrainRest
  <1>2. ASSUME NEW p \in Passes,
               \/ Begin(p) \/ FinalizeWindow(p) \/ Commit(p) \/ Abort(p)
               \/ \E e \in People : ComputeSnapshot(p, e)
               \/ \E l \in Places : EmitRecruitment(p, l)
        PROVE  BrainOK'
    BY <1>2, BeginBrain, FinalizeBrain, CommitBrain, AbortBrain, ComputeSnapshotBrain, EmitBrain
  <1>3. ASSUME BrainNext PROVE BrainOK'
    BY <1>2, <1>3, OtherBrain DEF BrainNext
  <1> QED
    BY <1>1, <1>3

\* Passes exclude each other, what a pass is about to append continues the line
\* of every location, and what it is about to write is penalised at most once.
THEOREM BrainCorrect == BrainSpec => [](BrainShape /\ HistoryInv /\ DraftInv)
  <1>1. BrainOK /\ [BrainNext]_brainVars => BrainOK'
    BY NextBrain
  <1>2. BrainOK => BrainShape /\ HistoryInv /\ DraftInv
    BY DEF BrainOK
  <1> QED
    BY InitBrain, <1>1, <1>2, PTL DEF BrainSpec

\* The recommendations of a location form one line, whatever instances run the
\* schedule at the same time.
THEOREM HistoryIsLinear == BrainSpec => []LinearHistory
  <1>1. HistoryInv => LinearHistory
    BY DEF HistoryInv
  <1> QED
    BY <1>1, BrainCorrect, PTL

\* No window is penalised twice, however often it is analysed again.
THEOREM RowsPenalisedOnce == BrainSpec => []PenalisedOnce
  <1>1. DraftInv => PenalisedOnce
    BY DEF DraftInv
  <1> QED
    BY <1>1, BrainCorrect, PTL

(***************************************************************************)
(* A risk is reported of people whose history is known.  The points of a   *)
(* trend are as many as the windows that count.                            *)
(***************************************************************************)
\* A set of naturals has a least element.
LEMMA LeastOf ==
  ASSUME NEW T \in SUBSET Nat, T # {}
  PROVE  \E x \in T : \A y \in T : x <= y
  <1> DEFINE R == OpToRel(<, Nat)
  <1>1. IsWellFoundedOn(R, Nat)
    BY NatLessThanWellFounded
  <1> HIDE DEF R
  <1>2. PICK x \in T : \A y \in T : <<y, x>> \notin R
    BY <1>1, WFMin
  <1>3. ASSUME NEW y \in T PROVE ~(y < x)
    BY <1>2 DEF R, OpToRel
  <1> QED
    BY <1>2, <1>3

PriorStep(rows, e, it, v) ==
  IF v = 0 THEN <<>>
  ELSE IF Counted(rows[<<e, v - 1>>]) THEN Append(it[v - 1], The(rows[<<e, v - 1>>].composite))
  ELSE it[v - 1]
PriorsUpTo(rows, e, it, n) == it = [v \in 0..n |-> PriorStep(rows, e, it, v)]

LEMMA PriorsExist ==
  ASSUME NEW rows, NEW e, NEW w \in Nat
  PROVE  \E it : PriorsUpTo(rows, e, it, w)
  <1> DEFINE B == {n \in Nat : ~\E it : PriorsUpTo(rows, e, it, n)}
  <1>1. SUFFICES ASSUME B # {} PROVE FALSE
    OBVIOUS
  <1>2. PICK n \in B : \A m \in B : n <= m
    <2>1. B \in SUBSET Nat
      OBVIOUS
    <2> HIDE DEF B
    <2> QED
      BY <1>1, <2>1, LeastOf
  <1>3. CASE n = 0
    <2> DEFINE it == [v \in 0..0 |-> PriorStep(rows, e, <<>>, v)]
    <2>1. \A v \in 0..0 : PriorStep(rows, e, <<>>, v) = PriorStep(rows, e, it, v)
      BY DEF PriorStep
    <2> HIDE DEF it
    <2>2. it = [v \in 0..0 |-> PriorStep(rows, e, it, v)]
      BY <2>1 DEF it
    <2> QED
      BY <1>2, <1>3, <2>2 DEF PriorsUpTo
  <1>4. CASE n # 0
    <2>1. n - 1 \in Nat /\ n - 1 \notin B
      BY <1>2, <1>4
    <2>2. PICK f : PriorsUpTo(rows, e, f, n - 1)
      BY <2>1
    <2> DEFINE it == [v \in 0..n |-> PriorStep(rows, e, f, v)]
    <2>3. ASSUME NEW v \in 0..n PROVE PriorStep(rows, e, f, v) = PriorStep(rows, e, it, v)
      <3>1. CASE v = 0
        BY <3>1 DEF PriorStep
      <3>2. CASE v # 0
        <4>1. v - 1 \in 0..(n - 1) /\ v - 1 \in 0..n
          BY <1>2, <3>2
        <4>2. f[v - 1] = PriorStep(rows, e, f, v - 1)
          BY <2>2, <4>1 DEF PriorsUpTo
        <4>3. it[v - 1] = f[v - 1]
          BY <4>1, <4>2
        <4> HIDE DEF it
        <4> QED
          BY <3>2, <4>3 DEF PriorStep
      <3> QED
        BY <3>1, <3>2
    <2>4. it = [v \in 0..n |-> PriorStep(rows, e, it, v)]
      <3> DEFINE K == [v \in 0..n |-> PriorStep(rows, e, it, v)]
      <3>1. it = [v \in 0..n |-> it[v]] /\ \A v \in 0..n : it[v] = PriorStep(rows, e, f, v)
        OBVIOUS
      <3> HIDE DEF it
      <3> QED
        BY <2>3, <3>1
    <2> QED
      BY <1>2, <2>4 DEF PriorsUpTo
  <1> QED
    BY <1>3, <1>4

CountedBefore(rows, e, w) == {v \in 0..(w - 1) : Counted(rows[<<e, v>>])}

LEMMA WindowsFinite ==
  ASSUME NEW w \in Nat, NEW W \in SUBSET (0..w)
  PROVE  IsFiniteSet(W) /\ Cardinality(W) \in Nat
  <1>1. IsFiniteSet(0..w)
    BY FS_Interval
  <1> QED
    BY <1>1, FS_Subset, FS_CardinalityType

LEMMA PriorPointsCount ==
  ASSUME NEW rows, NEW e, NEW w \in Nat
  PROVE  /\ IsSeq(PriorPoints(rows, e, w))
         /\ Len(PriorPoints(rows, e, w)) = Cardinality(CountedBefore(rows, e, w))
  <1> DEFINE it == CHOOSE it : PriorsUpTo(rows, e, it, w)
             Past(n) == {v \in 0..(n - 1) : Counted(rows[<<e, v>>])}
  <1>1. PriorPoints(rows, e, w) = it[w]
    BY DEF PriorPoints, PriorsUpTo, PriorStep
  <1>2. PriorsUpTo(rows, e, it, w)
    BY PriorsExist
  <1> HIDE DEF it
  <1> DEFINE Fits(n) == IsSeq(it[n]) /\ Len(it[n]) = Cardinality(Past(n))
             B == {n \in 0..w : ~Fits(n)}
  <1>3. SUFFICES ASSUME B # {} PROVE FALSE
    <2> HIDE DEF Fits
    <2>1. w \in 0..w
      OBVIOUS
    <2>2. B = {} => Fits(w)
      BY <2>1
    <2> QED
      BY <1>1, <2>2 DEF Fits, CountedBefore
  <1>4. PICK n \in B : \A m \in B : n <= m
    <2>1. B \in SUBSET Nat
      OBVIOUS
    <2> HIDE DEF B
    <2> QED
      BY <1>3, <2>1, LeastOf
  <1>5. it[n] = PriorStep(rows, e, it, n)
    BY <1>2, <1>4 DEF PriorsUpTo
  <1>6. CASE n = 0
    <2>1. it[n] = <<>> /\ Past(n) = {}
      BY <1>5, <1>6 DEF PriorStep
    <2>2. IsSeq(it[n]) /\ Len(it[n]) = 0
      BY <2>1, EmptySeq DEF IsSeq
    <2> QED
      BY <1>4, <2>1, <2>2, FS_EmptySet
  <1>7. CASE n # 0
    <2>1. n \in Nat /\ n - 1 \in 0..w /\ n - 1 \notin B
      BY <1>4, <1>7
    <2>2. Fits(n - 1)
      BY <2>1
    <2>3. IsFiniteSet(Past(n - 1)) /\ Cardinality(Past(n - 1)) \in Nat
      <3>1. IsFiniteSet(0..(n - 1 - 1))
        BY <2>1, FS_Interval
      <3>2. Past(n - 1) \subseteq 0..(n - 1 - 1)
        OBVIOUS
      <3> QED
        BY <3>1, <3>2, FS_Subset, FS_CardinalityType
    <2>4. CASE Counted(rows[<<e, n - 1>>])
      <3>1. Past(n) = Past(n - 1) \cup {n - 1} /\ n - 1 \notin Past(n - 1)
        BY <2>1, <2>4
      <3>2. Cardinality(Past(n)) = Cardinality(Past(n - 1)) + 1
        <4> HIDE DEF Past
        <4> QED
          BY <2>3, <3>1, FS_AddElement
      <3>3. it[n] = Append(it[n - 1], The(rows[<<e, n - 1>>].composite))
        BY <1>5, <1>7, <2>4 DEF PriorStep
      <3>4. IsSeq(it[n]) /\ Len(it[n]) = Len(it[n - 1]) + 1
        BY <2>2, <3>3, AppendAny DEF Extended
      <3> QED
        BY <1>4, <2>2, <3>2, <3>4
    <2>5. CASE ~Counted(rows[<<e, n - 1>>])
      <3>1. Past(n) = Past(n - 1)
        BY <2>1, <2>5
      <3>2. it[n] = it[n - 1]
        BY <1>5, <1>7, <2>5 DEF PriorStep
      <3> QED
        BY <1>4, <2>2, <3>1, <3>2
    <2> QED
      BY <2>4, <2>5
  <1> QED
    BY <1>6, <1>7

LEMMA FewestIsLeast ==
  /\ FewestWindows \in Nat /\ MinWindowsAsked \subseteq Nat
  /\ \A n \in MinWindowsAsked : FewestWindows <= n
  <1>1. MinWindowsAsked \in SUBSET Nat /\ MinWindowsAsked # {}
    <2>1. \A p \in ConfigPatches : "minWindows" \in DOMAIN p => p.minWindows \in Nat
      BY BrainAssumption
    <2>2. DefaultConfig.minWindows \in Nat
      BY BrainAssumption
    <2> QED
      BY <2>1, <2>2 DEF MinWindowsAsked
  <1>2. PICK x \in MinWindowsAsked : \A y \in MinWindowsAsked : x <= y
    BY <1>1, LeastOf
  <1> QED
    BY <1>1, <1>2 DEF FewestWindows, Min

LEMMA EffectiveAsks ==
  ASSUME ConfigsInv, NEW k
  PROVE  EffectiveConfig(k).minWindows \in MinWindowsAsked
  <1>1. DefaultConfig.minWindows \in MinWindowsAsked
    BY DEF MinWindowsAsked
  <1> QED
    BY <1>1, BrainAssumption DEF ConfigsInv, EffectiveConfig

LEMMA OverriddenAsks ==
  ASSUME NEW f, DOMAIN f = DOMAIN DefaultConfig, f.minWindows \in MinWindowsAsked, NEW p \in ConfigPatches
  PROVE  /\ DOMAIN Override(f, p) = DOMAIN DefaultConfig
         /\ Override(f, p).minWindows \in MinWindowsAsked
         /\ Override(f, p) # NoRow
  <1>1. "minWindows" \in DOMAIN f
    BY BrainAssumption
  <1>2. "minWindows" \in DOMAIN p => p.minWindows \in MinWindowsAsked
    BY DEF MinWindowsAsked
  <1>3. DOMAIN Override(f, p) = DOMAIN f
    BY DEF Override
  <1>4. Override(f, p).minWindows = IF "minWindows" \in DOMAIN p THEN p.minWindows ELSE f.minWindows
    BY <1>1 DEF Override
  <1>5. Override(f, p) # NoRow
    <2>1. "minWindows" \notin DOMAIN NoRow
      BY DEF NoRow
    <2> QED
      BY <1>1, <1>3, <2>1
  <1> QED
    BY <1>2, <1>3, <1>4, <1>5

\* The support of a row depends on the rows up to its window only.
LEMMA SupportedBefore ==
  ASSUME NEW r, NEW s, NEW e, NEW w \in Nat, Supported(r, e, w), \A v \in 0..w : s[<<e, v>>] = r[<<e, v>>]
  PROVE  Supported(s, e, w)
  <1>1. {v \in 0..w : Counted(s[<<e, v>>])} = {v \in 0..w : Counted(r[<<e, v>>])}
    OBVIOUS
  <1>2. w \in 0..w
    OBVIOUS
  <1> QED
    BY <1>1, <1>2 DEF Supported

LEMMA PassRisk ==
  ASSUME RiskInv, BrainShape, UNCHANGED <<snapshot, window, perfConfig, patching>>, NEW p \in Passes,
         NEW x, \A q \in Passes : pass'[q] = IF q = p THEN x ELSE pass[q], x.at # "idle" => WritesNewest(x)
  PROVE  RiskInv'
  <1>1. ConfigsInv'
    BY DEF RiskInv, ConfigsInv
  <1>3. ASSUME NEW q \in Passes, pass'[q].at # "idle" PROVE WritesNewest(pass[q])'
    <2>1. PICK k : k = pass'[q]
      OBVIOUS
    <2>2. WritesNewest(k)
      BY <1>3, <2>1 DEF RiskInv
    <2> QED
      BY <2>1, <2>2 DEF WritesNewest
  <1> QED
    BY <1>1, <1>3 DEF RiskInv

LEMMA BeginRisk ==
  ASSUME RiskInv, BrainShape, NEW p \in Passes, Begin(p)
  PROVE  RiskInv'
  <1> DEFINE x == [NoPass EXCEPT !.at = "compute", !.win = window, !.people = People, !.places = Places]
  <1>1. UNCHANGED <<snapshot, window, perfConfig, patching>>
    BY DEF Begin, dataVars, configVars, resultVars
  <1>2. CASE TryLock
    <2>1. x.win = window /\ x.draft = <<>> /\ x.at = "compute"
      BY DEF NoPass
    <2>2. DOMAIN <<>> = {}
      OBVIOUS
    <2>3. window <= window
      BY DEF BrainShape
    <2> HIDE DEF x
    <2>4. WritesNewest(x)
      BY <2>1, <2>2, <2>3 DEF WritesNewest, RiskInv
    <2>5. \A q \in Passes : pass'[q] = IF q = p THEN x ELSE pass[q]
      BY <1>2 DEF Begin, BrainShape, x
    <2> QED
      BY <1>1, <2>4, <2>5, PassRisk
  <1>3. CASE ~TryLock
    <2>1. \A q \in Passes : pass'[q] = pass[q]
      BY <1>3 DEF Begin
    <2>2. pass[p].at # "idle" => WritesNewest(pass[p])
      BY DEF RiskInv
    <2> QED
      BY <1>1, <2>1, <2>2, PassRisk
  <1> QED
    BY <1>2, <1>3

LEMMA AbortRisk ==
  ASSUME RiskInv, BrainShape, NEW p \in Passes, Abort(p)
  PROVE  RiskInv'
  <1>1. UNCHANGED <<snapshot, window, perfConfig, patching>> /\ \A q \in Passes : pass'[q] = IF q = p THEN NoPass ELSE pass[q]
    BY DEF Abort, BrainShape, dataVars, configVars, resultVars
  <1>2. NoPass.at = "idle"
    BY DEF NoPass
  <1> QED
    BY <1>1, <1>2, PassRisk

LEMMA ComputeRisk ==
  ASSUME RiskInv, BrainShape, NEW p \in Passes, NEW e \in People, ComputeSnapshot(p, e)
  PROVE  RiskInv'
  <1> DEFINE k == pass[p]
             new == SnapshotOf(e, k.win, EffectiveConfig(PeerKey[e].unit))
             x == [k EXCEPT !.people = @ \ {e}, !.draft = Put(@, <<e, k.win>>, new),
                            !.at = IF k.people = {e} THEN "finalize" ELSE @]
  <1>1. UNCHANGED <<snapshot, window, perfConfig, patching>> /\ k.at = "compute"
    BY DEF ComputeSnapshot, dataVars, configVars, resultVars
  <1>2. k = [f \in DOMAIN NoPass |-> k[f]] /\ DOMAIN NoPass = {"at", "win", "people", "places", "draft", "emitted"}
    BY DEF BrainShape, NoPass
  <1>3. \A q \in Passes : pass'[q] = IF q = p THEN x ELSE pass[q]
    <2> HIDE DEF new
    <2> QED
      BY DEF ComputeSnapshot, Upserted, BrainShape, new
  <1>4. WritesNewest(k)
    BY <1>1 DEF RiskInv
  <1>5. IsRow(new)
    BY DEF IsRow, SnapshotOf
  <1> HIDE DEF new, k
  <1>6. /\ x.at \in {"compute", "finalize"} /\ x.win = k.win
        /\ x.draft = Put(k.draft, <<e, k.win>>, new)
    BY <1>1, <1>2
  <1> HIDE DEF x
  <1>7. /\ DOMAIN x.draft \subseteq People \X {k.win}
        /\ \A y \in DOMAIN x.draft : IsRow(x.draft[y])
    BY <1>4, <1>5, <1>6 DEF WritesNewest, Put
  <1>8. WritesNewest(x)
    BY <1>4, <1>6, <1>7 DEF WritesNewest
  <1> QED
    BY <1>1, <1>3, <1>8, PassRisk

LEMMA EmitRisk ==
  ASSUME RiskInv, BrainShape, NEW p \in Passes, NEW l \in Places, EmitRecruitment(p, l)
  PROVE  RiskInv'
  <1> DEFINE k == pass[p]
  <1>1. UNCHANGED <<snapshot, window, perfConfig, patching>> /\ k.at = "recruit"
    BY DEF EmitRecruitment, dataVars, configVars, resultVars
  <1>2. k = [f \in DOMAIN NoPass |-> k[f]] /\ DOMAIN NoPass = {"at", "win", "people", "places", "draft", "emitted"}
    BY DEF BrainShape, NoPass
  <1>3. PICK x : x = pass'[p]
    OBVIOUS
  <1>4. \A q \in Passes : pass'[q] = IF q = p THEN x ELSE pass[q]
    BY <1>3 DEF EmitRecruitment, BrainShape
  <1>5. x.at \in {"recruit", "commit"} /\ x.win = k.win /\ x.draft = k.draft
    BY <1>1, <1>2, <1>3 DEF EmitRecruitment, BrainShape
  <1>6. WritesNewest(k)
    BY <1>1 DEF RiskInv
  <1>7. WritesNewest(x)
    BY <1>1, <1>5, <1>6 DEF WritesNewest
  <1> QED
    BY <1>1, <1>4, <1>7, PassRisk

\* finalizeWindow needs as many points as the config asks for, and every point
\* is a window that counts: those before, and this one with its score.
LEMMA FinalizedSupported ==
  ASSUME NEW rows, NEW e, NEW w \in Nat, NEW cfg, cfg.minWindows \in Nat, FewestWindows <= cfg.minWindows,
         IsRow(rows[<<e, w>>]),
         NEW new, \A v \in 0..(w - 1) : new[<<e, v>>] = rows[<<e, v>>],
         new[<<e, w>>] = Finalized(rows, e, w, cfg)
  PROVE  Supported(new, e, w)
  <1> DEFINE row == rows[<<e, w>>]
             done == new[<<e, w>>]
             Past == CountedBefore(rows, e, w)
             Known == {v \in 0..w : Counted(new[<<e, v>>])}
  <1>1. SUFFICES ASSUME done # NoRow, done.composite # Null, done.slope # Null
                 PROVE  Cardinality(Known) >= FewestWindows
    BY DEF Supported
  <1>2. \E provisional :
          /\ done.excluded = row.excluded
          /\ done.slope = DevelopmentSlope(PriorPoints(rows, e, w)
                            \o (IF row.excluded \/ provisional = Null THEN <<>> ELSE <<The(provisional)>>),
                                           cfg.minWindows)
    <2> DEFINE current == {x \in People : rows[<<x, w>>] # NoRow}
               ladder == Ladder(e, current, PeerKey)
               level == Level(ladder, cfg.minPeers)
               performance == {Percentile(row.done, ladder[level], [x \in current |-> rows[<<x, w>>].done])}
               Dims(development) == [performance |-> performance, timeliness |-> row.timeliness,
                                     quality |-> row.quality, development |-> development]
               provisional == CompositeScore(Dims(Null), cfg)
    <2>1. \E c, d : done = [row EXCEPT
            !.composite = c,
            !.slope = DevelopmentSlope(PriorPoints(rows, e, w)
                        \o (IF row.excluded \/ provisional = Null THEN <<>> ELSE <<The(provisional)>>),
                                       cfg.minWindows),
            !.confidence = d]
      BY DEF Finalized
    <2> HIDE DEF provisional
    <2>2. {"slope", "excluded"} \subseteq DOMAIN row
      BY DEF IsRow
    <2> DEFINE slope == DevelopmentSlope(PriorPoints(rows, e, w)
                          \o (IF row.excluded \/ provisional = Null THEN <<>> ELSE <<The(provisional)>>),
                                         cfg.minWindows)
    <2>3. PICK c, d : done = [row EXCEPT !.composite = c, !.slope = slope, !.confidence = d]
      BY <2>1
    <2> HIDE DEF slope, row, done
    <2>4. done.excluded = row.excluded /\ done.slope = slope
      BY <2>2, <2>3
    <2> QED
      BY <2>4, Zenon DEF slope
  <1>3. PICK provisional :
          /\ done.excluded = row.excluded
          /\ done.slope = DevelopmentSlope(PriorPoints(rows, e, w)
                            \o (IF row.excluded \/ provisional = Null THEN <<>> ELSE <<The(provisional)>>),
                                           cfg.minWindows)
    BY <1>2
  <1> DEFINE points == PriorPoints(rows, e, w)
             own == IF row.excluded \/ provisional = Null THEN <<>> ELSE <<The(provisional)>>
             series == points \o own
  <1>4. IsSeq(points) /\ Len(points) = Cardinality(Past)
    BY PriorPointsCount
  <1>5. IsSeq(own) /\ Len(own) = IF row.excluded \/ provisional = Null THEN 0 ELSE 1
    <2>1. <<>> \in Seq({}) /\ Len(<<>>) = 0
      BY EmptySeq
    <2>2. <<The(provisional)>> \in Seq({The(provisional)}) /\ Len(<<The(provisional)>>) = 1
      OBVIOUS
    <2>3. IsSeq(<<>>) /\ IsSeq(<<The(provisional)>>)
      BY <2>1, <2>2 DEF IsSeq
    <2> QED
      BY <2>1, <2>2, <2>3
  <1>6. IsSeq(series) /\ Len(series) = Cardinality(Past) + Len(own)
    <2> HIDE DEF points, own, Past
    <2>1. Joined(points, own, series)
      BY <1>4, <1>5, ConcatAny
    <2> QED
      BY <1>4, <2>1 DEF Joined
  <1>7. ~(Len(series) < cfg.minWindows)
    <2> HIDE DEF series
    <2>1. DevelopmentSlope(series, cfg.minWindows) # Null
      BY <1>1, <1>3 DEF series
    <2> QED
      BY <2>1 DEF DevelopmentSlope
  <1>8. /\ Past \subseteq Known /\ w \notin Past /\ IsFiniteSet(Past) /\ IsFiniteSet(Known)
        /\ Cardinality(Past) \in Nat /\ Cardinality(Known) \in Nat
    <2>1. Past \in SUBSET (0..w) /\ Known \in SUBSET (0..w)
      BY DEF CountedBefore
    <2>2. Past \subseteq Known /\ w \notin Past
      BY DEF CountedBefore
    <2> HIDE DEF Past, Known
    <2> QED
      BY <2>1, <2>2, WindowsFinite
  <1> HIDE DEF Past, series
  <1>9. CASE row.excluded \/ provisional = Null
    <2>1. Cardinality(Past) <= Cardinality(Known)
      BY <1>8, FS_Subset
    <2>2. ~(Cardinality(Past) < cfg.minWindows)
      BY <1>5, <1>6, <1>7, <1>8, <1>9
    <2> QED
      BY <1>8, <2>1, <2>2, FewestIsLeast
  <1>10. CASE ~(row.excluded \/ provisional = Null)
    <2>1. w \in Known
      <3>1. Counted(done)
        BY <1>1, <1>3, <1>10 DEF Counted
      <3> QED
        BY <3>1
    <2> HIDE DEF Known
    <2>2. Past \cup {w} \subseteq Known
      BY <1>8, <2>1
    <2>3. Cardinality(Past \cup {w}) = Cardinality(Past) + 1
      BY <1>8, FS_AddElement
    <2>4. Cardinality(Past) + 1 <= Cardinality(Known)
      BY <1>8, <2>2, <2>3, FS_Subset
    <2>5. ~(Cardinality(Past) + 1 < cfg.minWindows)
      BY <1>5, <1>6, <1>7, <1>10
    <2> QED
      BY <1>8, <2>4, <2>5, FewestIsLeast
  <1> QED
    BY <1>9, <1>10

LEMMA RowIsNotNone == ASSUME NEW r, IsRow(r) PROVE r # NoRow
  <1>1. "slope" \notin DOMAIN NoRow
    BY DEF NoRow
  <1> QED
    BY <1>1 DEF IsRow

\* What a pass with locals k sees.
LEMMA Seen ==
  ASSUME RiskInv, BrainShape, NEW k, WritesNewest(k), NEW r, r = Override(snapshot, k.draft),
         NEW e \in People, NEW w \in Windows, k.win \in Windows
  PROVE  /\ w # k.win => r[<<e, w>>] = snapshot[<<e, w>>]
         /\ r[<<e, w>>] = IF <<e, w>> \in DOMAIN k.draft THEN k.draft[<<e, w>>] ELSE snapshot[<<e, w>>]
         /\ r[<<e, w>>] # NoRow => IsRow(r[<<e, w>>])
         /\ <<e, w>> \in DOMAIN k.draft => r[<<e, w>>] # NoRow
         /\ w > k.win => r[<<e, w>>] = NoRow
  <1>1. <<e, w>> \in DOMAIN snapshot
    BY DEF BrainShape
  <1>2. r[<<e, w>>] = IF <<e, w>> \in DOMAIN k.draft THEN k.draft[<<e, w>>] ELSE snapshot[<<e, w>>]
    BY <1>1 DEF Override
  <1>3. <<e, w>> \in DOMAIN k.draft => w = k.win /\ IsRow(k.draft[<<e, w>>])
    BY DEF WritesNewest
  <1>4. snapshot[<<e, w>>] # NoRow => w <= k.win /\ IsRow(snapshot[<<e, w>>])
    BY <1>1 DEF WritesNewest, RiskInv
  <1>5. w \in Int /\ k.win \in Int
    BY BrainAssumption DEF Windows
  <1>6. w > k.win => snapshot[<<e, w>>] = NoRow /\ <<e, w>> \notin DOMAIN k.draft
    <2>1. ASSUME w > k.win, snapshot[<<e, w>>] # NoRow \/ <<e, w>> \in DOMAIN k.draft PROVE FALSE
      <3>1. ~(w = k.win) /\ ~(w <= k.win)
        BY <1>5, <2>1
      <3> QED
        BY <1>3, <1>4, <2>1, <3>1
    <2> QED
      BY <2>1
  <1> QED
    BY <1>2, <1>3, <1>4, <1>6, RowIsNotNone

LEMMA FinalizeRisk ==
  ASSUME RiskInv, BrainShape, NEW p \in Passes, FinalizeWindow(p)
  PROVE  RiskInv'
  <1>1. PICK k : k = pass[p]
    OBVIOUS
  <1>2. PICK w : w = k.win
    OBVIOUS
  <1>3. PICK rows : rows = Override(snapshot, k.draft)
    OBVIOUS
  <1>4. PICK cfg : cfg = EffectiveConfig("DEFAULT")
    OBVIOUS
  <1>5. PICK x : x = pass'[p]
    OBVIOUS
  <1>6. UNCHANGED <<snapshot, window, perfConfig, patching>> /\ k.at = "finalize"
    BY <1>1 DEF FinalizeWindow, dataVars, configVars, resultVars
  <1>7. /\ k = [f \in DOMAIN NoPass |-> k[f]] /\ DOMAIN NoPass = {"at", "win", "people", "places", "draft", "emitted"}
        /\ w \in Windows /\ w \in Nat
    BY <1>1, <1>2, BrainAssumption DEF BrainShape, NoPass, Windows
  <1> DEFINE written == {<<e, w>> : e \in {y \in People : rows[<<y, w>>] # NoRow}}
  <1>8. /\ x.at = "recruit" /\ x.win = w
        /\ x.draft = [y \in written |-> Finalized(rows, y[1], w, cfg)]
    BY <1>1, <1>2, <1>3, <1>4, <1>5, <1>7 DEF FinalizeWindow, View, BrainShape
  <1>9. \A q \in Passes : pass'[q] = IF q = p THEN x ELSE pass[q]
    BY <1>5 DEF FinalizeWindow, BrainShape
  <1>10. WritesNewest(k)
    BY <1>1, <1>6 DEF RiskInv
  <1>11. cfg.minWindows \in Nat /\ FewestWindows <= cfg.minWindows
    BY <1>4, EffectiveAsks, FewestIsLeast DEF RiskInv
  <1>12. ASSUME NEW e \in People, rows[<<e, w>>] # NoRow
         PROVE  /\ IsRow(rows[<<e, w>>]) /\ <<e, w>> \in DOMAIN x.draft
                /\ x.draft[<<e, w>>] = Finalized(rows, e, w, cfg) /\ IsRow(x.draft[<<e, w>>])
    <2>1. IsRow(rows[<<e, w>>])
      BY <1>2, <1>3, <1>7, <1>10, <1>12, Seen
    <2>2. <<e, w>> \in written /\ <<e, w>>[1] = e
      BY <1>12
    <2>3. <<e, w>> \in DOMAIN x.draft /\ x.draft[<<e, w>>] = Finalized(rows, e, w, cfg)
      <3> HIDE DEF written
      <3>1. DOMAIN x.draft = written
        BY <1>8
      <3>2. \A y \in written : x.draft[y] = Finalized(rows, y[1], w, cfg)
        BY <1>8, Zenon
      <3> QED
        BY <2>2, <3>1, <3>2, Zenon
    <2>4. \E a, b, c : Finalized(rows, e, w, cfg)
                         = [rows[<<e, w>>] EXCEPT !.composite = a, !.slope = b, !.confidence = c]
      BY DEF Finalized
    <2> QED
      BY <2>1, <2>3, <2>4 DEF IsRow
  <1>13. DOMAIN x.draft \subseteq People \X {w} /\ \A y \in DOMAIN x.draft : IsRow(x.draft[y])
    <2>1. DOMAIN x.draft = written
      <3> HIDE DEF written
      <3> QED
        BY <1>8
    <2>2. ASSUME NEW y \in written PROVE y \in People \X {w} /\ IsRow(x.draft[y])
      <3>1. PICK e \in People : y = <<e, w>> /\ rows[<<e, w>>] # NoRow
        BY <2>2
      <3> HIDE DEF written
      <3> QED
        BY <1>12, <3>1
    <2> HIDE DEF written
    <2> QED
      BY <2>1, <2>2
  <1>14. ASSUME NEW e \in People PROVE Supported(Override(snapshot, x.draft), e, w)
    <2>1. PICK new : new = Override(snapshot, x.draft)
      OBVIOUS
    <2>2. ASSUME NEW v \in Windows
          PROVE  new[<<e, v>>] = IF <<e, v>> \in DOMAIN x.draft THEN x.draft[<<e, v>>] ELSE snapshot[<<e, v>>]
      BY <2>1 DEF Override, BrainShape
    <2>3. CASE rows[<<e, w>>] # NoRow
      <3>1. new[<<e, w>>] = Finalized(rows, e, w, cfg)
        BY <1>7, <1>12, <2>2, <2>3
      <3>2. \A v \in 0..(w - 1) : new[<<e, v>>] = rows[<<e, v>>]
        <4> TAKE v \in 0..(w - 1)
        <4>1. v \in Windows /\ v # w
          BY <1>7, BrainAssumption DEF Windows
        <4>2. <<e, v>> \notin DOMAIN x.draft
          BY <1>13, <4>1
        <4>3. rows[<<e, v>>] = snapshot[<<e, v>>]
          BY <1>2, <1>3, <1>7, <1>10, <4>1, Seen
        <4> QED
          BY <2>2, <4>1, <4>2, <4>3
      <3> QED
        BY <1>7, <1>11, <1>12, <2>1, <2>3, <3>1, <3>2, FinalizedSupported
    <2>4. CASE rows[<<e, w>>] = NoRow
      <3>1. snapshot[<<e, w>>] = NoRow
        BY <1>2, <1>3, <1>7, <1>10, <2>4, Seen
      <3>2. <<e, w>> \notin DOMAIN x.draft
        BY <1>8, <2>4
      <3>3. new[<<e, w>>] = NoRow
        BY <1>7, <2>2, <3>1, <3>2
      <3> QED
        BY <2>1, <3>3 DEF Supported
    <2> QED
      BY <2>3, <2>4
  <1>15. WritesNewest(x)
    BY <1>2, <1>8, <1>10, <1>13, <1>14 DEF WritesNewest
  <1> QED
    BY <1>6, <1>9, <1>15, PassRisk

LEMMA CommitRisk ==
  ASSUME RiskInv, BrainShape, OnePass, NEW p \in Passes, Commit(p)
  PROVE  RiskInv'
  <1>1. PICK k : k = pass[p]
    OBVIOUS
  <1>2. PICK rows : rows = Override(snapshot, k.draft)
    OBVIOUS
  <1>3. /\ snapshot' = rows /\ UNCHANGED <<window, perfConfig, patching>> /\ k.at = "commit"
        /\ k.win \in Windows
    BY <1>1, <1>2 DEF Commit, View, dataVars, configVars, BrainShape
  <1>4. \A q \in Passes : pass'[q].at = "idle"
    BY <1>1, <1>3 DEF Commit, BrainShape, OnePass, NoPass
  <1>5. WritesNewest(k)
    BY <1>1, <1>3 DEF RiskInv
  <1>6. DOMAIN rows = People \X Windows
    BY <1>2 DEF Override, BrainShape
  <1>7. ConfigsInv'
    BY <1>3 DEF RiskInv, ConfigsInv
  <1>8. Windows \subseteq Nat
    BY BrainAssumption DEF Windows
  <1>9. ASSUME NEW x \in DOMAIN rows, rows[x] # NoRow PROVE x[2] <= window /\ IsRow(rows[x])
    <2>1. PICK e \in People, w \in Windows : x = <<e, w>>
      BY <1>6
    <2>2. ~(w > k.win) /\ IsRow(rows[x])
      BY <1>2, <1>3, <1>5, <1>9, <2>1, Seen
    <2>3. k.win <= window /\ window \in Nat
      BY <1>5 DEF WritesNewest, BrainShape
    <2>4. w \in Nat /\ k.win \in Nat /\ x[2] = w
      BY <1>3, <1>8, <2>1
    <2>5. w <= window
      BY <2>2, <2>3, <2>4
    <2> QED
      BY <2>2, <2>4, <2>5
  <1>10. ASSUME NEW e \in People, NEW w \in Windows PROVE Supported(rows, e, w)
    <2>1. CASE w < k.win
      <3>1. \A v \in 0..w : rows[<<e, v>>] = snapshot[<<e, v>>]
        <4> TAKE v \in 0..w
        <4>1. v \in Windows /\ v # k.win
          BY <1>3, <1>8, <2>1, BrainAssumption DEF Windows
        <4> QED
          BY <1>2, <1>3, <1>5, <4>1, Seen
      <3>2. Supported(snapshot, e, w)
        BY DEF RiskInv
      <3> QED
        BY <1>8, <3>1, <3>2, SupportedBefore
    <2>2. CASE w = k.win
      BY <1>2, <1>3, <1>5, <2>2 DEF WritesNewest
    <2>3. CASE w > k.win
      BY <1>2, <1>3, <1>5, <2>3, Seen DEF Supported
    <2>4. w \in Nat /\ k.win \in Nat
      BY <1>3, <1>8
    <2>5. w < k.win \/ w = k.win \/ w > k.win
      BY <2>4
    <2> QED
      BY <2>1, <2>2, <2>3, <2>5
  <1> QED
    BY <1>3, <1>4, <1>7, <1>9, <1>10 DEF RiskInv

\* A step that no pass takes.
LEMMA RestRisk ==
  ASSUME RiskInv, BrainShape, UNCHANGED <<snapshot, pass>>, window' \in {window, window + 1}, ConfigsInv'
  PROVE  RiskInv'
  <1>1. window \in Nat /\ \A x \in DOMAIN snapshot : x[2] \in Nat
    BY BrainAssumption DEF BrainShape, Windows
  <1>2. ASSUME NEW n \in Nat, n <= window PROVE n <= window'
    BY <1>1, <1>2
  <1>3. ASSUME NEW q \in Passes, pass[q].at # "idle" PROVE WritesNewest(pass[q])'
    <2>1. WritesNewest(pass[q]) /\ pass[q].win \in Nat
      BY <1>3, BrainAssumption DEF RiskInv, BrainShape, Windows
    <2> QED
      BY <1>2, <2>1 DEF WritesNewest
  <1>4. \A x \in DOMAIN snapshot : snapshot[x] # NoRow => x[2] <= window' /\ IsRow(snapshot[x])
    BY <1>1, <1>2 DEF RiskInv
  <1> QED
    BY <1>3, <1>4 DEF RiskInv

LEMMA OtherRisk ==
  ASSUME RiskInv, BrainShape,
         \/ NextWindow
         \/ \E team \in Teams : Operate(team)
         \/ \E l \in Places, s \in Staffings : Replan(l, s)
         \/ \E k \in ConfigKeys, p \in ConfigPatches : PatchUnit(k, p)
         \/ \E c \in ConfigCalls : (\E p \in ConfigPatches : PatchDefault(c, p)) \/ CreateDefault(c) \/ UpdateDefault(c)
         \/ \E i \in DOMAIN reco : Acknowledge(i)
         \/ UNCHANGED brainVars
  PROVE  RiskInv'
  <1>1. ConfigsInv
    BY DEF RiskInv
  <1>2. /\ DOMAIN DefaultConfig = DOMAIN DefaultConfig /\ DefaultConfig.minWindows \in MinWindowsAsked
        /\ "DEFAULT" \in ConfigKeys
    BY BrainAssumption DEF MinWindowsAsked
  <1>3. CASE /\ UNCHANGED <<snapshot, pass, perfConfig, patching>>
             /\ window' \in {window, window + 1}
    <2>1. ConfigsInv'
      BY <1>1, <1>3 DEF ConfigsInv
    <2> QED
      BY <1>3, <2>1, RestRisk
  <1>4. ASSUME NEW k \in ConfigKeys, NEW p \in ConfigPatches, PatchUnit(k, p) PROVE RiskInv'
    <2> DEFINE f == IF perfConfig[k] = NoRow THEN DefaultConfig ELSE perfConfig[k]
    <2>1. /\ perfConfig' = [perfConfig EXCEPT ![k] = Override(f, p)] /\ k # "DEFAULT"
          /\ UNCHANGED <<snapshot, pass, patching, window>>
      BY <1>4 DEF PatchUnit, dataVars, resultVars
    <2>2. DOMAIN f = DOMAIN DefaultConfig /\ f.minWindows \in MinWindowsAsked
      BY <1>1, <1>2 DEF ConfigsInv
    <2> HIDE DEF f
    <2>3. /\ DOMAIN Override(f, p) = DOMAIN DefaultConfig
          /\ Override(f, p).minWindows \in MinWindowsAsked
      BY <2>2, OverriddenAsks
    <2>4. ConfigsInv'
      BY <1>1, <1>2, <2>1, <2>3 DEF ConfigsInv
    <2> QED
      BY <2>1, <2>4, RestRisk
  <1>5. ASSUME NEW c \in ConfigCalls, NEW p \in ConfigPatches, PatchDefault(c, p) PROVE RiskInv'
    <2>1. /\ patching' = [patching EXCEPT ![c] =
                            [at |-> IF perfConfig["DEFAULT"] = NoRow THEN "create" ELSE "update", patch |-> p]]
          /\ UNCHANGED <<snapshot, pass, perfConfig, window>>
      BY <1>5 DEF PatchDefault, dataVars, resultVars
    <2>2. ConfigsInv'
      BY <1>1, <2>1 DEF ConfigsInv
    <2> QED
      BY <2>1, <2>2, RestRisk
  <1>6. ASSUME NEW c \in ConfigCalls, CreateDefault(c) PROVE RiskInv'
    <2>1. patching[c].at = "create" /\ patching[c].patch \in ConfigPatches
          /\ UNCHANGED <<snapshot, pass, window>>
      BY <1>1, <1>6 DEF CreateDefault, ConfigsInv, dataVars, resultVars
    <2>2. CASE perfConfig["DEFAULT"] = NoRow
      <3> DEFINE new == Override(DefaultConfig, patching[c].patch)
      <3>1. /\ perfConfig' = [perfConfig EXCEPT !["DEFAULT"] = new]
            /\ patching' = [patching EXCEPT ![c] = NoPatch]
        BY <1>6, <2>2 DEF CreateDefault
      <3>2. DOMAIN new = DOMAIN DefaultConfig /\ new.minWindows \in MinWindowsAsked /\ new # NoRow
        BY <1>2, <2>1, OverriddenAsks
      <3> HIDE DEF new
      <3>3. ConfigsInv'
        BY <1>1, <1>2, <3>1, <3>2 DEF ConfigsInv, NoPatch
      <3> QED
        BY <2>1, <3>3, RestRisk
    <2>3. CASE perfConfig["DEFAULT"] # NoRow
      <3>1. patching' = [patching EXCEPT ![c].at = "update"] /\ UNCHANGED perfConfig
        BY <1>6, <2>3 DEF CreateDefault
      <3>2. patching'[c] = [at |-> "update", patch |-> patching[c].patch]
        BY <1>1, <3>1 DEF ConfigsInv
      <3>3. ConfigsInv'
        BY <1>1, <2>1, <2>3, <3>1, <3>2 DEF ConfigsInv
      <3> QED
        BY <2>1, <3>3, RestRisk
    <2> QED
      BY <2>2, <2>3
  <1>7. ASSUME NEW c \in ConfigCalls, UpdateDefault(c) PROVE RiskInv'
    <2> DEFINE new == Override(perfConfig["DEFAULT"], patching[c].patch)
    <2>1. /\ patching[c].at = "update" /\ patching[c].patch \in ConfigPatches
          /\ perfConfig["DEFAULT"] # NoRow
          /\ perfConfig' = [perfConfig EXCEPT !["DEFAULT"] = new]
          /\ patching' = [patching EXCEPT ![c] = NoPatch]
          /\ UNCHANGED <<snapshot, pass, window>>
      BY <1>1, <1>7 DEF UpdateDefault, ConfigsInv, dataVars, resultVars
    <2>2. DOMAIN new = DOMAIN DefaultConfig /\ new.minWindows \in MinWindowsAsked /\ new # NoRow
      BY <1>1, <1>2, <2>1, OverriddenAsks DEF ConfigsInv
    <2> HIDE DEF new
    <2>3. ConfigsInv'
      BY <1>1, <1>2, <2>1, <2>2 DEF ConfigsInv, NoPatch
    <2> QED
      BY <2>1, <2>3, RestRisk
  <1> QED
    BY <1>3, <1>4, <1>5, <1>6, <1>7
       DEF NextWindow, Operate, Replan, Acknowledge, brainVars, dataVars, configVars, resultVars

LEMMA InitRisk == BrainInit => RiskInv
  <1> SUFFICES ASSUME BrainInit PROVE RiskInv
    OBVIOUS
  <1>1. /\ perfConfig = [k \in ConfigKeys |-> NoRow] /\ patching = [c \in ConfigCalls |-> NoPatch]
        /\ snapshot = [k \in People \X Windows |-> NoRow] /\ pass = [p \in Passes |-> NoPass]
    BY DEF BrainInit
  <1>2. ConfigsInv
    BY <1>1 DEF ConfigsInv, NoPatch
  <1>3. \A e \in People, w \in Windows : Supported(snapshot, e, w)
    BY <1>1 DEF Supported
  <1>4. NoPass.at = "idle"
    BY DEF NoPass
  <1> QED
    BY <1>1, <1>2, <1>3, <1>4 DEF RiskInv

LEMMA NextRisk ==
  ASSUME RiskInv, BrainShape, OnePass, [BrainNext]_brainVars
  PROVE  RiskInv'
  <1>1. ASSUME NEW p \in Passes,
               Begin(p) \/ FinalizeWindow(p) \/ Commit(p) \/ Abort(p)
        PROVE  RiskInv'
    BY <1>1, BeginRisk, FinalizeRisk, CommitRisk, AbortRisk
  <1>2. ASSUME NEW p \in Passes, NEW e \in People, ComputeSnapshot(p, e) PROVE RiskInv'
    BY <1>2, ComputeRisk
  <1>3. ASSUME NEW p \in Passes, NEW l \in Places, EmitRecruitment(p, l) PROVE RiskInv'
    BY <1>3, EmitRisk
  <1> QED
    BY <1>1, <1>2, <1>3, OtherRisk DEF BrainNext

LEMMA LatestIsStored ==
  ASSUME BrainShape, NEW e, Latest(e) # -1
  PROVE  Latest(e) \in Windows /\ snapshot[<<e, Latest(e)>>] # NoRow
  <1>1. PICK S : S = {w \in Windows : snapshot[<<e, w>>] # NoRow}
    OBVIOUS
  <1>2. Latest(e) = Max(S \cup {-1}) /\ S \in SUBSET (0..MaxWindow) /\ MaxWindow \in Nat
    BY <1>1, BrainAssumption DEF Latest, Windows
  <1>3. \E x \in S \cup {-1} : \A y \in S \cup {-1} : x >= y
    <2>1. CASE S = {}
      BY <2>1
    <2>2. CASE S # {}
      <3>1. Max(S) \in S /\ \A y \in S : Max(S) >= y
        <4>1. IsFiniteSet(0..MaxWindow)
          BY <1>2, FS_Interval
        <4>2. S \in SUBSET (0..MaxWindow) /\ S \in SUBSET Nat
          BY <1>2
        <4>4. IsFiniteSet(S)
          BY <4>1, <4>2, FS_Subset
        <4>3. HasMax(S)
          BY <2>2, <4>2, <4>4, FiniteMax
        <4> QED
          BY <4>3 DEF HasMax, Max
      <3>2. Max(S) \in Nat
        <4>1. S \subseteq Nat
          BY <1>2
        <4> QED
          BY <3>1, <4>1
      <3>3. Max(S) >= -1
        BY <3>2
      <3> QED
        BY <3>1, <3>3
    <2> QED
      BY <2>1, <2>2
  <1>4. Max(S \cup {-1}) \in S \cup {-1}
    BY <1>3 DEF Max
  <1> QED
    BY <1>1, <1>2, <1>4

(* A stored row claims no more than was measured: the confidence is        *)
(* penalised once, and a risk is reported of people only of whom as many   *)
(* windows are known as any config asks for.  A pass writes the newest     *)
(* window, under the lock, so nothing that a row was computed from is      *)
(* changed after it.                                                       *)
THEOREM RowsAreHonest == BrainSpec => []RowsHonest
  <1>1. BrainShape /\ HistoryInv /\ DraftInv /\ RiskInv => RowsHonest
    <2> SUFFICES ASSUME BrainShape, DraftInv, RiskInv PROVE RiskIsKnown
      BY DEF RowsHonest, DraftInv
    <2> SUFFICES ASSUME NEW e \in People,
                        NEW w \in {v \in Windows : e \in DOMAIN EmitRetention(v)} \cup ({Latest(e)} \ {-1}),
                        EmitRetention(w)[e] = "RYZYKO"
                 PROVE  Cardinality({v \in 0..w : Counted(snapshot[<<e, v>>])}) >= FewestWindows
      BY DEF RiskIsKnown
    <2>1. w \in Windows /\ snapshot[<<e, w>>] # NoRow
      BY LatestIsStored DEF EmitRetention
    <2>2. \E s : RetentionSignal(snapshot[<<e, w>>].composite, snapshot[<<e, w>>].slope,
                                 snapshot[<<e, w>>].confidence, s) = "RYZYKO"
      BY <2>1 DEF EmitRetention
    <2>3. snapshot[<<e, w>>].composite # Null /\ snapshot[<<e, w>>].slope # Null
      BY <2>2 DEF RetentionSignal
    <2>4. Supported(snapshot, e, w)
      BY <2>1 DEF RiskInv
    <2> QED
      BY <2>1, <2>3, <2>4 DEF Supported
  <1>2. BrainSpec => []RiskInv
    <2>1. BrainShape /\ HistoryInv /\ RiskInv /\ [BrainNext]_brainVars => RiskInv'
      BY NextRisk DEF HistoryInv
    <2> QED
      BY InitRisk, <2>1, BrainCorrect, PTL DEF BrainSpec
  <1> QED
    BY <1>1, <1>2, BrainCorrect, PTL

(***************************************************************************)
(* The types: the weights of a config sum to one, a confidence is a share. *)
(***************************************************************************)
LEMMA WholeIsNat == Whole \in Nat /\ Whole > 0
  BY DEF Whole

LEMMA ClampRange ==
  ASSUME NEW x \in Int
  PROVE  Clamp(0, x, Whole) \in 0..Whole
  BY WholeIsNat DEF Clamp

LEMMA QuotientIsInt ==
  ASSUME NEW a \in Int, NEW b \in Int, b > 0
  PROVE  a \div b \in Int
  OBVIOUS

LEMMA Products ==
  ASSUME NEW n \in Nat, NEW a \in Int, NEW b \in Int, a >= b
  PROVE  n * a >= n * b
  <1>1. PICK d \in Nat : a = b + d
    <2>1. a - b \in Nat /\ a = b + (a - b)
      OBVIOUS
    <2> QED
      BY <2>1
  <1>2. n * d \in Nat
    OBVIOUS
  <1>3. n * a = n * b + n * d
    BY <1>1
  <1>4. n * b \in Int
    OBVIOUS
  <1> QED
    BY <1>2, <1>3, <1>4

\* A share of a share.
LEMMA ShareOfShare ==
  ASSUME NEW a \in 0..Whole, NEW b \in 0..Whole
  PROVE  (a * b) \div Whole \in 0..Whole
  <1>1. a \in Int /\ 0 <= a /\ a <= Whole /\ b \in Int /\ 0 <= b /\ b <= Whole
    BY WholeIsNat
  <1>2. PICK c : c = a * b
    OBVIOUS
  <1>3. c \in Int /\ 0 <= c /\ c <= a * Whole
    BY <1>1, <1>2, WholeIsNat
  <1>4. a * Whole \in Int /\ a * Whole <= Whole * Whole
    BY <1>1, WholeIsNat
  <1>5. c <= Whole * Whole
    BY <1>3, <1>4, WholeIsNat
  <1>6. PICK q : q = c \div Whole
    OBVIOUS
  <1>7. PICK most, low : most = Whole * Whole /\ low = Whole * q
    OBVIOUS
  <1>8. c \in Int /\ q \in Int /\ low \in Int /\ most \in Int /\ low <= c /\ c < low + Whole /\ c <= most
    BY <1>3, <1>5, <1>6, <1>7, WholeIsNat
  <1>9. 0 <= q
    <2>1. ASSUME -1 >= q PROVE Whole * (-1) >= low
      BY <1>7, <1>8, <2>1, WholeIsNat, Products
    <2> QED
      BY <1>3, <1>8, <2>1, WholeIsNat
  <1>10. q <= Whole
    <2>1. ASSUME q >= Whole + 1 PROVE low >= Whole * (Whole + 1)
      BY <1>7, <1>8, <2>1, WholeIsNat, Products
    <2>2. Whole * (Whole + 1) = most + Whole
      BY <1>7, WholeIsNat
    <2>3. ~(q >= Whole + 1)
      <3>1. ~(low >= most + Whole)
        BY <1>8, WholeIsNat
      <3> QED
        BY <2>1, <2>2, <3>1
    <2> QED
      BY <1>8, <2>3, WholeIsNat
  <1> QED
    BY <1>2, <1>6, <1>8, <1>9, <1>10, WholeIsNat

LEMMA ConfidenceRange ==
  ASSUME NEW sampleN \in Int, NEW employed \in Int, NEW minDays \in Int
  PROVE  Confidence(sampleN, employed, minDays) \in 0..Whole
  <1>1. PICK filled : filled = (Whole * sampleN) \div SampleTarget
    OBVIOUS
  <1>2. PICK served : served = (Whole * employed) \div minDays
    OBVIOUS
  <1>3. PICK sample : sample = Clamp(0, filled, Whole)
    OBVIOUS
  <1>4. PICK tenure : tenure = IF minDays > 0 THEN Clamp(0, served, Whole) ELSE IF employed > 0 THEN Whole ELSE 0
    OBVIOUS
  <1>5. filled \in Int
    <2>1. SampleTarget \in Int /\ SampleTarget > 0 /\ Whole * sampleN \in Int
      BY WholeIsNat DEF SampleTarget
    <2> QED
      BY <1>1, <2>1, QuotientIsInt
  <1>6. sample \in 0..Whole
    BY <1>3, <1>5, ClampRange
  <1>7. tenure \in 0..Whole
    <2>1. CASE minDays > 0
      <3>1. Whole * employed \in Int
        BY WholeIsNat
      <3>2. served \in Int
        BY <1>2, <2>1, <3>1, QuotientIsInt
      <3>3. Clamp(0, served, Whole) \in 0..Whole
        BY <3>2, ClampRange
      <3> QED
        BY <1>4, <2>1, <3>3
    <2>2. CASE ~(minDays > 0)
      BY <1>4, <2>2, WholeIsNat
    <2> QED
      BY <2>1, <2>2
  <1>8. Confidence(sampleN, employed, minDays) = (sample * tenure) \div Whole
    BY <1>1, <1>2, <1>3, <1>4, Zenon DEF Confidence
  <1> QED
    BY <1>6, <1>7, <1>8, ShareOfShare

LEMMA PenalisedRange ==
  ASSUME NEW c \in 0..Whole, NEW fellBack \in BOOLEAN, NEW meaningful \in BOOLEAN
  PROVE  Penalised(c, fellBack, meaningful) \in 0..Whole
  <1>1. PICK once : once = IF fellBack THEN (c * FallbackPenalty) \div 100 ELSE c
    OBVIOUS
  <1>2. once \in 0..Whole
    BY <1>1, WholeIsNat DEF FallbackPenalty
  <1>3. PICK twice : twice = (once * NotMeaningfulPenalty) \div 100
    OBVIOUS
  <1>4. twice \in 0..Whole
    BY <1>2, <1>3, WholeIsNat DEF NotMeaningfulPenalty
  <1>5. Penalised(c, fellBack, meaningful) = IF meaningful THEN once ELSE twice
    BY <1>1, <1>3, Zenon DEF Penalised
  <1> QED
    BY <1>2, <1>4, <1>5

\* A patch that validateWeightSum lets through leaves the weights whole.
LEMMA OverriddenWhole ==
  ASSUME NEW f, WholeConfig(f), NEW p \in ConfigPatches, WeightsWhole(p)
  PROVE  WholeConfig(Override(f, p))
  <1>1. PICK g : g = Override(f, p)
    OBVIOUS
  <1>2. DOMAIN g = DOMAIN f /\ \A x \in DOMAIN f : g[x] = IF x \in DOMAIN p THEN p[x] ELSE f[x]
    BY <1>1 DEF Override
  <1>3. /\ DOMAIN f = DOMAIN DefaultConfig /\ WeightFields \subseteq DOMAIN f /\ "minDays" \in DOMAIN f /\ f.minDays \in Nat
        /\ "minDays" \in DOMAIN p => p.minDays \in Nat
    BY BrainAssumption DEF WholeConfig
  <1>4. g.minDays \in Nat
    BY <1>2, <1>3
  <1>5. /\ "performance" \in WeightFields /\ "timeliness" \in WeightFields
        /\ "quality" \in WeightFields /\ "development" \in WeightFields
    BY DEF WeightFields
  <1>6. g.performance + g.timeliness + g.quality + g.development = 100
    <2>1. CASE WeightFields \cap DOMAIN p = {}
      <3>1. /\ g.performance = f.performance /\ g.timeliness = f.timeliness
            /\ g.quality = f.quality /\ g.development = f.development
        BY <1>2, <1>3, <1>5, <2>1
      <3>2. f.performance + f.timeliness + f.quality + f.development = 100
        BY <1>3, <1>5 DEF WholeConfig, WeightsWhole
      <3> QED
        BY <3>1, <3>2
    <2>2. CASE WeightFields \cap DOMAIN p # {}
      <3>1. WeightFields \subseteq DOMAIN p /\ p.performance + p.timeliness + p.quality + p.development = 100
        BY <2>2 DEF WeightsWhole
      <3>2. /\ g.performance = p.performance /\ g.timeliness = p.timeliness
            /\ g.quality = p.quality /\ g.development = p.development
        BY <1>2, <1>3, <1>5, <3>1
      <3> QED
        BY <3>1, <3>2
    <2> QED
      BY <2>1, <2>2
  <1>7. WeightsWhole(g)
    BY <1>2, <1>3, <1>6 DEF WeightsWhole
  <1>8. WholeConfig(g)
    BY <1>2, <1>3, <1>4, <1>7 DEF WholeConfig
  <1> QED
    BY <1>1, <1>8

LEMMA DefaultWhole == WholeConfig(DefaultConfig)
  BY BrainAssumption DEF WholeConfig

LEMMA EffectiveWhole ==
  ASSUME MeasuredInv, NEW k
  PROVE  WholeConfig(EffectiveConfig(k))
  BY DefaultWhole, BrainAssumption DEF MeasuredInv, EffectiveConfig

\* The parts of MeasuredInv that a step leaves alone.
LEMMA MeasuredRest ==
  ASSUME MeasuredInv, UNCHANGED <<perfConfig, patching, work, snapshot, pass>>, acked' \subseteq DOMAIN reco'
  PROVE  MeasuredInv'
  BY DEF MeasuredInv

LEMMA OtherMeasured ==
  ASSUME MeasuredInv, ConfigsInv, BrainShape,
         \/ NextWindow
         \/ \E team \in Teams : Operate(team)
         \/ \E l \in Places, s \in Staffings : Replan(l, s)
         \/ \E k \in ConfigKeys, p \in ConfigPatches : PatchUnit(k, p)
         \/ \E c \in ConfigCalls : (\E p \in ConfigPatches : PatchDefault(c, p)) \/ CreateDefault(c) \/ UpdateDefault(c)
         \/ \E i \in DOMAIN reco : Acknowledge(i)
         \/ UNCHANGED brainVars
  PROVE  MeasuredInv'
  <1>1. CASE UNCHANGED <<perfConfig, patching, work, snapshot, pass, reco>> /\ acked' \subseteq DOMAIN reco
    BY <1>1, MeasuredRest
  <1>2. acked \subseteq DOMAIN reco
    BY DEF MeasuredInv
  <1>3. ASSUME NEW team \in Teams, Operate(team) PROVE MeasuredInv'
    <2>1. /\ work' = [work EXCEPT ![window] = team]
          /\ UNCHANGED <<perfConfig, patching, snapshot, pass, reco, acked>>
      BY <1>3 DEF Operate, configVars, resultVars
    <2>2. \A e \in People : team[e].done \in Nat
      BY BrainAssumption
    <2>3. DOMAIN work' = Windows /\ \A w \in Windows : work'[w] = IF w = window THEN team ELSE work[w]
      BY <2>1 DEF MeasuredInv
    <2> QED
      BY <2>1, <2>2, <2>3 DEF MeasuredInv
  <1>4. ASSUME UNCHANGED <<work, snapshot, pass, reco, acked>>,
               \A k \in ConfigKeys : perfConfig'[k] # NoRow => WholeConfig(perfConfig'[k]),
               \A c \in ConfigCalls : patching'[c].at # "idle" => WeightsWhole(patching'[c].patch)
        PROVE  MeasuredInv'
    BY <1>4 DEF MeasuredInv
  <1>5. ASSUME NEW k \in ConfigKeys, NEW p \in ConfigPatches, PatchUnit(k, p) PROVE MeasuredInv'
    <2> DEFINE f == IF perfConfig[k] = NoRow THEN DefaultConfig ELSE perfConfig[k]
    <2>1. /\ perfConfig' = [perfConfig EXCEPT ![k] = Override(f, p)] /\ WeightsWhole(p)
          /\ UNCHANGED <<work, snapshot, pass, reco, acked, patching>>
      BY <1>5 DEF PatchUnit, dataVars, resultVars
    <2>2. WholeConfig(f)
      BY DefaultWhole DEF MeasuredInv
    <2> HIDE DEF f
    <2>3. WholeConfig(Override(f, p))
      BY <2>1, <2>2, OverriddenWhole
    <2>4. \A j \in ConfigKeys : perfConfig'[j] = IF j = k THEN Override(f, p) ELSE perfConfig[j]
      BY <2>1 DEF ConfigsInv
    <2> QED
      BY <1>4, <2>1, <2>3, <2>4 DEF MeasuredInv
  <1>6. ASSUME NEW c \in ConfigCalls, NEW p \in ConfigPatches, PatchDefault(c, p) PROVE MeasuredInv'
    <2>1. /\ patching' = [patching EXCEPT ![c] =
                            [at |-> IF perfConfig["DEFAULT"] = NoRow THEN "create" ELSE "update", patch |-> p]]
          /\ WeightsWhole(p) /\ UNCHANGED <<work, snapshot, pass, reco, acked, perfConfig>>
      BY <1>6 DEF PatchDefault, dataVars, resultVars
    <2>2. patching'[c].patch = p /\ \A d \in ConfigCalls \ {c} : patching'[d] = patching[d]
      BY <2>1 DEF ConfigsInv
    <2> QED
      BY <1>4, <2>1, <2>2 DEF MeasuredInv
  <1>7. ASSUME NEW c \in ConfigCalls, CreateDefault(c) \/ UpdateDefault(c) PROVE MeasuredInv'
    <2>1. /\ patching[c].at # "idle" /\ patching[c].patch \in ConfigPatches /\ WeightsWhole(patching[c].patch)
          /\ UNCHANGED <<work, snapshot, pass, reco, acked>>
      BY <1>7 DEF CreateDefault, UpdateDefault, dataVars, resultVars, ConfigsInv, MeasuredInv
    <2>2. /\ perfConfig' = perfConfig
             \/ \E f : WholeConfig(f) /\ perfConfig' = [perfConfig EXCEPT !["DEFAULT"] = Override(f, patching[c].patch)]
          /\ patching' = [patching EXCEPT ![c] = NoPatch] \/ patching' = [patching EXCEPT ![c].at = "update"]
      <3>1. CASE CreateDefault(c)
        BY <3>1, DefaultWhole DEF CreateDefault
      <3>2. CASE UpdateDefault(c)
        <4>1. perfConfig["DEFAULT"] # NoRow /\ WholeConfig(perfConfig["DEFAULT"])
          BY <3>2, BrainAssumption DEF UpdateDefault, ConfigsInv, MeasuredInv
        <4> QED
          BY <3>2, <4>1 DEF UpdateDefault
      <3> QED
        BY <1>7, <3>1, <3>2
    <2>3. \A k \in ConfigKeys : perfConfig'[k] # NoRow => WholeConfig(perfConfig'[k])
      <3>1. CASE perfConfig' = perfConfig
        BY <3>1 DEF MeasuredInv
      <3>2. ASSUME NEW f, WholeConfig(f), perfConfig' = [perfConfig EXCEPT !["DEFAULT"] = Override(f, patching[c].patch)]
            PROVE  \A k \in ConfigKeys : perfConfig'[k] # NoRow => WholeConfig(perfConfig'[k])
        <4>1. WholeConfig(Override(f, patching[c].patch))
          BY <2>1, <3>2, OverriddenWhole
        <4>2. PICK g : g = Override(f, patching[c].patch)
          OBVIOUS
        <4>3. \A k \in ConfigKeys : perfConfig'[k] = IF k = "DEFAULT" THEN g ELSE perfConfig[k]
          BY <3>2, <4>2 DEF ConfigsInv
        <4> QED
          BY <4>1, <4>2, <4>3 DEF MeasuredInv
      <3> QED
        BY <2>2, <3>1, <3>2
    <2>4. ASSUME NEW d \in ConfigCalls, patching'[d].at # "idle" PROVE WeightsWhole(patching'[d].patch)
      <3>1. d # c => patching'[d] = patching[d]
        BY <2>2 DEF ConfigsInv
      <3>2. patching'[c] = NoPatch \/ patching'[c].patch = patching[c].patch
        BY <2>2 DEF ConfigsInv
      <3>3. NoPatch.at = "idle"
        BY DEF NoPatch
      <3> QED
        BY <2>1, <2>4, <3>1, <3>2, <3>3 DEF MeasuredInv
    <2> QED
      BY <1>4, <2>1, <2>3, <2>4
  <1> QED
    BY <1>1, <1>2, <1>3, <1>5, <1>6, <1>7
       DEF NextWindow, Replan, Acknowledge, brainVars, dataVars, configVars, resultVars

\* A pass that goes on, or ends without a trace.
LEMMA PassMeasured ==
  ASSUME MeasuredInv, BrainShape, UNCHANGED <<perfConfig, patching, work, snapshot, reco, acked>>, NEW p \in Passes,
         NEW x, \A q \in Passes : pass'[q] = IF q = p THEN x ELSE pass[q],
         \A k \in DOMAIN x.draft : Measured(x.draft[k])
  PROVE  MeasuredInv'
  BY DEF MeasuredInv

LEMMA PassesMeasured ==
  ASSUME MeasuredInv, BrainShape, NEW p \in Passes,
         \/ Begin(p) \/ Abort(p)
         \/ \E l \in Places : EmitRecruitment(p, l)
  PROVE  MeasuredInv'
  <1>1. UNCHANGED <<perfConfig, patching, work, snapshot, reco, acked>>
    BY DEF Begin, Abort, EmitRecruitment, dataVars, configVars, resultVars
  <1>2. \E x : /\ \A q \in Passes : pass'[q] = IF q = p THEN x ELSE pass[q]
               /\ \A k \in DOMAIN x.draft : Measured(x.draft[k])
    <2>1. \A k \in DOMAIN <<>> : Measured(<<>>[k])
      OBVIOUS
    <2>2. NoPass.draft = <<>> /\ [NoPass EXCEPT !.at = "compute", !.win = window,
                                                !.people = People, !.places = Places].draft = <<>>
      BY DEF NoPass
    <2>3. \A k \in DOMAIN pass[p].draft : Measured(pass[p].draft[k])
      BY DEF MeasuredInv
    <2>4. DOMAIN pass = Passes /\ DOMAIN pass[p] = DOMAIN NoPass
      BY DEF BrainShape
    <2>5. CASE Begin(p)
      BY <2>1, <2>2, <2>3, <2>4, <2>5 DEF Begin
    <2>6. CASE Abort(p)
      BY <2>1, <2>2, <2>4, <2>6 DEF Abort
    <2>7. ASSUME NEW l \in Places, EmitRecruitment(p, l)
          PROVE  \A q \in Passes \ {p} : pass'[q] = pass[q]
      BY <2>4, <2>7 DEF EmitRecruitment
    <2>8. ASSUME NEW l \in Places, EmitRecruitment(p, l)
          PROVE  pass'[p].draft = pass[p].draft
      <3>1. \E places, emitted, at :
              pass' = [pass EXCEPT ![p].places = places, ![p].emitted = emitted, ![p].at = at]
        BY <2>8 DEF EmitRecruitment
      <3> QED
        BY <2>4, <3>1
    <2> QED
      BY <2>3, <2>5, <2>6, <2>7, <2>8
  <1> QED
    BY <1>1, <1>2, PassMeasured

LEMMA ComputeMeasured ==
  ASSUME MeasuredInv, BrainShape, NEW p \in Passes, NEW e \in People, ComputeSnapshot(p, e)
  PROVE  MeasuredInv'
  <1>1. PICK k : k = pass[p]
    OBVIOUS
  <1>2. PICK cfg : cfg = EffectiveConfig(PeerKey[e].unit)
    OBVIOUS
  <1>3. PICK row : row = SnapshotOf(e, k.win, cfg)
    OBVIOUS
  <1>4. PICK d : d = Put(k.draft, <<e, k.win>>, row)
    OBVIOUS
  <1>5. DOMAIN pass = Passes /\ DOMAIN k = DOMAIN NoPass /\ k.win \in Windows
    BY <1>1 DEF BrainShape
  <1>6. Measured(row)
    <2>1. work[k.win][e].done \in Nat
      BY <1>5 DEF MeasuredInv
    <2>2. cfg.minDays \in Nat
      BY <1>2, EffectiveWhole DEF WholeConfig
    <2>3. {"done", "configHash"} \subseteq DOMAIN row /\ row.done = work[k.win][e].done /\ row.configHash = cfg
      BY <1>3 DEF SnapshotOf
    <2> QED
      BY <2>1, <2>2, <2>3 DEF Measured
  <1>7. \A y \in DOMAIN d : Measured(d[y])
    <2>1. DOMAIN d = DOMAIN k.draft \cup {<<e, k.win>>}
          /\ \A y \in DOMAIN d : d[y] = IF y = <<e, k.win>> THEN row ELSE k.draft[y]
      BY <1>4 DEF Put
    <2> QED
      BY <1>1, <1>6, <2>1 DEF MeasuredInv
  <1>8. PICK people, at : pass' = [pass EXCEPT ![p].people = people, ![p].draft = d, ![p].at = at]
    BY <1>1, <1>2, <1>3, <1>4 DEF ComputeSnapshot, Upserted
  <1>9. DOMAIN NoPass = {"at", "win", "people", "places", "draft", "emitted"}
    BY DEF NoPass
  <1>10. pass'[p].draft = d /\ \A q \in Passes \ {p} : pass'[q] = pass[q]
    BY <1>1, <1>5, <1>8, <1>9
  <1>11. UNCHANGED <<perfConfig, patching, work, snapshot, reco, acked>>
    BY DEF ComputeSnapshot, dataVars, configVars, resultVars
  <1> QED
    BY <1>7, <1>10, <1>11, PassMeasured

LEMMA FinalizeMeasured ==
  ASSUME MeasuredInv, BrainShape, NEW p \in Passes, FinalizeWindow(p)
  PROVE  MeasuredInv'
  <1>1. PICK k : k = pass[p]
    OBVIOUS
  <1>2. PICK rows : rows = View(p)
    OBVIOUS
  <1>3. PICK cfg : cfg = EffectiveConfig("DEFAULT")
    OBVIOUS
  <1>4. PICK K : K = {<<e, k.win>> : e \in {y \in People : rows[<<y, k.win>>] # NoRow}}
    OBVIOUS
  <1>5. PICK d : d = [y \in K |-> Finalized(rows, y[1], k.win, cfg)]
    OBVIOUS
  <1>6. pass' = [pass EXCEPT ![p].draft = d, ![p].at = "recruit"]
    BY <1>1, <1>2, <1>3, <1>4, <1>5 DEF FinalizeWindow
  <1>7. /\ DOMAIN pass = Passes /\ DOMAIN k = DOMAIN NoPass /\ k.win \in Windows
        /\ DOMAIN snapshot = People \X Windows
    BY <1>1 DEF BrainShape
  <1>8. DOMAIN NoPass = {"at", "win", "people", "places", "draft", "emitted"}
    BY DEF NoPass
  <1>9. pass'[p].draft = d /\ \A q \in Passes \ {p} : pass'[q] = pass[q]
    BY <1>1, <1>6, <1>7, <1>8
  <1>10. ASSUME NEW y \in DOMAIN d PROVE Measured(d[y])
    <2>1. PICK e \in People : y = <<e, k.win>> /\ rows[y] # NoRow
      BY <1>4, <1>5, <1>10
    <2>2. PICK row : row = rows[y]
      OBVIOUS
    <2>3. y \in DOMAIN snapshot
      BY <1>7, <2>1
    <2>4. row = IF y \in DOMAIN k.draft THEN k.draft[y] ELSE snapshot[y]
      BY <1>1, <1>2, <2>2, <2>3 DEF View, Override
    <2>5. Measured(row)
      BY <1>1, <2>1, <2>2, <2>3, <2>4 DEF MeasuredInv
    <2>6. d[y] = Finalized(rows, e, k.win, cfg)
      BY <1>5, <1>10, <2>1
    <2>7. DOMAIN d[y] = DOMAIN row /\ d[y].done = row.done /\ d[y].configHash = row.configHash
      BY <2>1, <2>2, <2>5, <2>6 DEF Finalized, Measured
    <2> QED
      BY <2>5, <2>7 DEF Measured
  <1>11. UNCHANGED <<perfConfig, patching, work, snapshot, reco, acked>>
    BY DEF FinalizeWindow, dataVars, configVars, resultVars
  <1> QED
    BY <1>9, <1>10, <1>11, PassMeasured

LEMMA CommitMeasured ==
  ASSUME MeasuredInv, BrainShape, BrainSeqs, NEW p \in Passes, Commit(p)
  PROVE  MeasuredInv'
  <1>1. PICK k : k = pass[p]
    OBVIOUS
  <1>2. /\ snapshot' = Override(snapshot, k.draft) /\ reco' = reco \o k.emitted
        /\ pass' = [pass EXCEPT ![p] = NoPass] /\ UNCHANGED <<perfConfig, patching, work, acked>>
    BY <1>1 DEF Commit, View, dataVars, configVars
  <1>3. \A q \in Passes : pass'[q] = IF q = p THEN NoPass ELSE pass[q]
    BY <1>2 DEF BrainShape
  <1>4. \A x \in DOMAIN NoPass.draft : FALSE
    BY DEF NoPass
  <1>5. DOMAIN reco \subseteq DOMAIN reco'
    <2>1. IsSeq(reco) /\ IsSeq(k.emitted) /\ Joined(reco, k.emitted, reco')
      BY <1>1, <1>2, ConcatAny DEF BrainSeqs
    <2>2. /\ DOMAIN reco = 1..Len(reco) /\ DOMAIN reco' = 1..Len(reco')
          /\ Len(reco) \in Nat /\ Len(k.emitted) \in Nat /\ Len(reco') = Len(reco) + Len(k.emitted)
      BY <2>1, LenAny DEF Joined
    <2> QED
      BY <2>2
  <1>6. \A x \in DOMAIN snapshot' : snapshot'[x] # NoRow => Measured(snapshot'[x])
    <2>1. DOMAIN snapshot' = DOMAIN snapshot
          /\ \A x \in DOMAIN snapshot : snapshot'[x] = IF x \in DOMAIN k.draft THEN k.draft[x] ELSE snapshot[x]
      BY <1>2 DEF Override
    <2> QED
      BY <1>1, <2>1 DEF MeasuredInv
  <1>7. \A q \in Passes : \A x \in DOMAIN pass'[q].draft : Measured(pass'[q].draft[x])
    BY <1>3, <1>4 DEF MeasuredInv
  <1> QED
    BY <1>2, <1>5, <1>6, <1>7 DEF MeasuredInv

LEMMA InitMeasured == BrainInit => MeasuredInv
  <1> SUFFICES ASSUME BrainInit PROVE MeasuredInv
    OBVIOUS
  <1>1. /\ perfConfig = [k \in ConfigKeys |-> NoRow] /\ patching = [c \in ConfigCalls |-> NoPatch]
        /\ work = [w \in Windows |-> [e \in People |-> Idle]] /\ acked = {}
        /\ snapshot = [k \in People \X Windows |-> NoRow] /\ pass = [p \in Passes |-> NoPass]
    BY DEF BrainInit
  <1>2. NoPatch.at = "idle" /\ Idle.done = 0 /\ \A x \in DOMAIN NoPass.draft : FALSE
    BY DEF NoPatch, Idle, NoPass
  <1> QED
    BY <1>1, <1>2 DEF MeasuredInv

LEMMA NextMeasured ==
  ASSUME MeasuredInv, ConfigsInv, BrainShape, BrainSeqs, [BrainNext]_brainVars
  PROVE  MeasuredInv'
  <1>1. ASSUME NEW p \in Passes,
               \/ Begin(p) \/ FinalizeWindow(p) \/ Commit(p) \/ Abort(p)
               \/ \E e \in People : ComputeSnapshot(p, e)
               \/ \E l \in Places : EmitRecruitment(p, l)
        PROVE  MeasuredInv'
    BY <1>1, PassesMeasured, ComputeMeasured, FinalizeMeasured, CommitMeasured
  <1> QED
    BY <1>1, OtherMeasured DEF BrainNext

\* The weights of every stored config sum to one, every stored confidence is a
\* share of one, and nothing is acknowledged that was not recommended.
THEOREM BrainTypes == BrainSpec => []BrainTypeOK
  <1>1. BrainOK /\ RiskInv /\ MeasuredInv /\ [BrainNext]_brainVars => BrainOK' /\ RiskInv' /\ MeasuredInv'
    BY NextBrain, NextRisk, NextMeasured DEF BrainOK, HistoryInv, RiskInv
  <1>2. BrainOK /\ MeasuredInv => BrainTypeOK
    <2> SUFFICES ASSUME BrainOK, MeasuredInv PROVE BrainTypeOK
      OBVIOUS
    <2> SUFFICES ASSUME NEW k \in DOMAIN snapshot, snapshot[k] # NoRow
                 PROVE  snapshot[k].confidence \in 0..Whole
      <3>1. BrainShape
        BY DEF BrainOK
      <3>2. acked \subseteq DOMAIN reco /\ \A k \in ConfigKeys : perfConfig[k] # NoRow => WeightsWhole(perfConfig[k])
        BY DEF MeasuredInv, WholeConfig
      <3> QED
        BY <3>1, <3>2 DEF BrainTypeOK
    <2>1. PICK row : row = snapshot[k]
      OBVIOUS
    <2>2. PICK fellBack, meaningful \in BOOLEAN : row.confidence = Penalised(BaseOf(k, row), fellBack, meaningful)
      BY <2>1 DEF BrainOK, DraftInv, PenalisedOnce, PenalisedRow
    <2>3. row.done \in Nat /\ row.configHash.minDays \in Nat
      BY <2>1 DEF MeasuredInv, Measured
    <2>4. Tenure(k[1], k[2]) \in Int
      <3>1. k[1] \in People /\ k[2] \in Windows
        BY DEF BrainOK, BrainShape
      <3>2. k[2] \in Int /\ HiredAt[k[1]] \in Int
        BY <3>1, BrainAssumption DEF Windows
      <3> QED
        BY <3>2 DEF Tenure
    <2>5. PICK days : days = row.configHash.minDays
      OBVIOUS
    <2>6. PICK done, employed : done = row.done /\ employed = Tenure(k[1], k[2])
      OBVIOUS
    <2>7. BaseOf(k, row) \in 0..Whole
      <3>1. Confidence(done, employed, days) \in 0..Whole
        <4>1. done \in Int
          BY <2>3, <2>6
        <4>2. employed \in Int
          BY <2>4, <2>6
        <4>3. days \in Int
          BY <2>3, <2>5
        <4> QED
          BY <4>1, <4>2, <4>3, ConfidenceRange
      <3>2. BaseOf(k, row) = Confidence(done, employed, days)
        BY <2>5, <2>6 DEF BaseOf
      <3> QED
        BY <3>1, <3>2
    <2>8. PICK base : base = BaseOf(k, row)
      OBVIOUS
    <2>9. Penalised(base, fellBack, meaningful) \in 0..Whole
      BY <2>7, <2>8, PenalisedRange
    <2> QED
      BY <2>1, <2>2, <2>8, <2>9, Zenon
  <1> QED
    BY InitBrain, InitRisk, InitMeasured, <1>1, <1>2, PTL DEF BrainSpec

-----------------------------------------------------------------------------
(* The schedule of a week *)

GrafikOK == GrafikTypeOK /\ GrafikInv

\* What the optimizer answers is a schedule, unless it says INFEASIBLE.
LEMMA AnswersAreSchedules ==
  ASSUME NEW P, NEW r \in SolveResults(P), r.status # "INFEASIBLE"
  PROVE  r.assignments \in Schedules(P, FALSE)
  <1> DEFINE hard == Schedules(P, FALSE)
             best == Cheapest(P, hard)
             rel  == Schedules(P, TRUE)
             open(x) == IF Unmet(P, x) = {} THEN DOMAIN P.demands ELSE Unmet(P, x)
  <1>1. best \subseteq hard
    BY DEF Cheapest
  <1>2. r \in {[status |-> "OPTIMAL", assignments |-> x, unmet |-> {}] : x \in best}
              \cup {[status |-> "FEASIBLE", assignments |-> x, unmet |-> {}] : x \in hard}
              \cup {[status |-> "INFEASIBLE", assignments |-> x, unmet |-> open(x)] : x \in rel}
    BY DEF SolveResults
  <1> HIDE DEF hard, best, rel, open
  <1>3. r.assignments \in hard
    BY <1>1, <1>2
  <1> QED
    BY <1>3 DEF hard

\* The problem that is sent depends on what has been read alone.
LEMMA SameProblem ==
  ASSUME NEW j, NEW k, j.units = k.units, j.demands = k.demands, j.leave = k.leave, j.manual = k.manual
  PROVE  Pack(j) = Pack(k)
  <1> DEFINE F(units, demands, leave, manual) ==
               LET pins == {Pin(m) : m \in manual}
                   of(pin) == CHOOSE m \in manual : Pin(m) = pin
               IN [employees |-> InScopeOf(units),
                   demands   |-> [id \in DOMAIN demands \cup pins |->
                                    IF id \in pins THEN SlotInput(of(id)[2].slot, id, 1)
                                    ELSE SlotInput(demands[id].slot, demands[id].slot.role, demands[id].count)],
                   quals     |-> [e \in Workers |-> Skills[e] \cup {Pin(m) : m \in {n \in manual : n[2].emp = e}}],
                   leave     |-> [e \in Workers |-> {l[2] : l \in {x \in leave : x[1] = e}}],
                   etat      |-> [e \in Workers |-> 1],
                   prefs     |-> [e \in Workers |-> [daysOff |-> {}, starts |-> {}]],
                   minutes   |-> [e \in Workers |-> [loc \in {s.loc : s \in Slots} |-> 1]],
                   weight    |-> 40]
  <1>1. Pack(j) = F(j.units, j.demands, j.leave, j.manual)
    BY DEF Pack
  <1>2. Pack(k) = F(k.units, k.demands, k.leave, k.manual)
    BY DEF Pack
  <1> HIDE DEF F
  <1> QED
    BY <1>1, <1>2

\* A solve that goes on with the same schedule still knows what it needs.
LEMMA KnowsOn ==
  ASSUME NEW j, NEW k, SolveKnows(k),
         j = [at |-> j.at, run |-> j.run, units |-> j.units, filter |-> j.filter, demands |-> j.demands,
              leave |-> j.leave, manual |-> j.manual, asg |-> j.asg, stale |-> j.stale],
         j.at \in {"leave", "manual", "optimize", "stale", "replace"},
         j.run = k.run, j.demands = k.demands,
         j.at \in {"stale", "replace"} => /\ j.asg \in Schedules(Pack(k), FALSE)
                                          /\ j.units = k.units /\ j.leave = k.leave /\ j.manual = k.manual
  PROVE  SolveKnows(j)
  <1>1. j.at \in {"stale", "replace"} => Pack(j) = Pack(k)
    BY SameProblem
  <1> QED
    BY <1>1 DEF SolveKnows

LEMMA InitGrafik == GrafikInit => GrafikOK
  <1> SUFFICES ASSUME GrafikInit PROVE GrafikOK
    OBVIOUS
  <1> USE DEF GrafikInit
  <1>1. DOMAIN shift = {} /\ DOMAIN template = {}
    OBVIOUS
  <1>2. GrafikTypeOK
    BY <1>1, GrafikAssumption DEF GrafikTypeOK
  <1>3. GrafikInv
    BY DEF GrafikInv
  <1> QED
    BY <1>2, <1>3 DEF GrafikOK

\* Somebody else's call: where calls come one at a time, no solve is in progress.
LEMMA BesideSolves ==
  ASSUME GrafikInv, StartGrafikCall, solve' = solve
  PROVE  GrafikInv'
  BY DEF GrafikInv, StartGrafikCall

LEMMA Started == ASSUME GrafikTypeOK, StartGrafikCall
                 PROVE  grafikStarted \in 0..MaxGrafikCalls /\ grafikStarted' \in 0..MaxGrafikCalls
  BY GrafikAssumption DEF GrafikTypeOK, StartGrafikCall

\* One row of the table is written.
LEMMA PutRowType ==
  ASSUME NEW f, NEW T, f \in [DOMAIN f -> T], NEW k, NEW v \in T
  PROVE  /\ DOMAIN PutRow(f, k, v) = DOMAIN f \cup {k}
         /\ PutRow(f, k, v) \in [DOMAIN f \cup {k} -> T]
  BY DEF PutRow

LEMMA WithoutType ==
  ASSUME NEW f, NEW T, f \in [DOMAIN f -> T], NEW S
  PROVE  /\ DOMAIN Without(f, S) = DOMAIN f \ S
         /\ Without(f, S) \in [DOMAIN f \ S -> T]
  BY DEF Without

LEMMA ShiftsTyped ==
  ASSUME GrafikTypeOK,
         \/ \E global \in BOOLEAN, body \in ShiftBodies :
              CreateShift(global, body) \/ \E s \in DOMAIN shift : UpdateShift(global, s, body)
         \/ \E global \in BOOLEAN, s \in DOMAIN shift : DeleteShift(global, s)
  PROVE  GrafikTypeOK'
  <1> USE GrafikAssumption
  <1>1. CASE \E global \in BOOLEAN, body \in ShiftBodies : CreateShift(global, body)
    <2>1. PICK global \in BOOLEAN, body \in ShiftBodies : CreateShift(global, body)
      BY <1>1
    <2>2. grafikStarted \in 0..MaxGrafikCalls /\ grafikStarted' \in 0..MaxGrafikCalls
      BY <2>1, Started DEF CreateShift
    <2>3. body \in ShiftRow /\ body.demand \in DOMAIN demand \cup {NoDemand}
      BY <2>1 DEF CreateShift
    <2> DEFINE id == <<grafikStarted, body.emp, body.demand>>
    <2>4. id \in ShiftIds
      BY <2>2, <2>3 DEF ShiftIds, ShiftRow
    <2>5. shift' = PutRow(shift, id, body)
      BY <2>1 DEF CreateShift
    <2> HIDE DEF id
    <2>6. DOMAIN shift' = DOMAIN shift \cup {id} /\ shift' \in [DOMAIN shift \cup {id} -> ShiftRow]
      <3>1. shift \in [DOMAIN shift -> ShiftRow] /\ body \in ShiftRow
        BY <2>3 DEF GrafikTypeOK
      <3> QED
        BY <2>5, <3>1, PutRowType
    <2>7. \A s \in DOMAIN shift' : shift'[s].demand \in DOMAIN demand \cup {NoDemand}
      BY <2>3, <2>5 DEF PutRow, GrafikTypeOK
    <2> QED
      BY <2>1, <2>2, <2>4, <2>6, <2>7 DEF GrafikTypeOK, CreateShift
  <1>2. CASE \E global \in BOOLEAN, body \in ShiftBodies, s \in DOMAIN shift : UpdateShift(global, s, body)
    <2>1. PICK global \in BOOLEAN, body \in ShiftBodies, s \in DOMAIN shift : UpdateShift(global, s, body)
      BY <1>2
    <2>2. grafikStarted' \in 0..MaxGrafikCalls
      BY <2>1, Started DEF UpdateShift
    <2>3. body \in ShiftRow /\ body.demand \in DOMAIN demand \cup {NoDemand}
      BY <2>1 DEF UpdateShift
    <2> QED
      BY <2>1, <2>2, <2>3 DEF GrafikTypeOK, UpdateShift
  <1>3. CASE \E global \in BOOLEAN, s \in DOMAIN shift : DeleteShift(global, s)
    <2>1. PICK global \in BOOLEAN, s \in DOMAIN shift : DeleteShift(global, s)
      BY <1>3
    <2>2. grafikStarted' \in 0..MaxGrafikCalls
      BY <2>1, Started DEF DeleteShift
    <2>3. shift' = Without(shift, {s}) /\ s \notin swapOn \cup proposalOn
      BY <2>1 DEF DeleteShift
    <2>4. DOMAIN shift' = DOMAIN shift \ {s} /\ shift' \in [DOMAIN shift \ {s} -> ShiftRow]
      BY <2>3, WithoutType DEF GrafikTypeOK
    <2>5. \A t \in DOMAIN shift' : shift'[t] = shift[t]
      BY <2>3 DEF Without
    <2> QED
      BY <2>1, <2>2, <2>3, <2>4, <2>5 DEF GrafikTypeOK, DeleteShift
  <1> QED
    BY <1>1, <1>2, <1>3

LEMMA DemandsTyped ==
  ASSUME GrafikTypeOK,
         \/ \E d \in DemandIds, body \in DemandBodies : SaveDemand(d, body)
         \/ \E d \in DemandIds : DeleteDemand(d)
  PROVE  GrafikTypeOK'
  <1> USE GrafikAssumption
  <1>1. CASE \E d \in DemandIds, body \in DemandBodies : SaveDemand(d, body)
    <2>1. PICK d \in DemandIds, body \in DemandBodies : SaveDemand(d, body)
      BY <1>1
    <2>2. grafikStarted' \in 0..MaxGrafikCalls
      BY <2>1, Started DEF SaveDemand
    <2>3. DOMAIN demand' = DOMAIN demand \cup {d} /\ demand' \in [DOMAIN demand \cup {d} -> DemandRow]
      <3>1. demand \in [DOMAIN demand -> DemandRow] /\ body \in DemandRow /\ demand' = PutRow(demand, d, body)
        BY <2>1 DEF GrafikTypeOK, SaveDemand
      <3>2. /\ DOMAIN PutRow(demand, d, body) = DOMAIN demand \cup {d}
            /\ PutRow(demand, d, body) \in [DOMAIN demand \cup {d} -> DemandRow]
        BY <3>1, PutRowType
      <3> QED
        BY <3>1, <3>2
    <2> QED
      BY <2>1, <2>2, <2>3 DEF GrafikTypeOK, SaveDemand
  <1>2. CASE \E d \in DemandIds : DeleteDemand(d)
    <2>1. PICK d \in DemandIds : DeleteDemand(d)
      BY <1>2
    <2>2. grafikStarted' \in 0..MaxGrafikCalls
      BY <2>1, Started DEF DeleteDemand
    <2>3. DOMAIN demand' = DOMAIN demand \ {d} /\ demand' \in [DOMAIN demand \ {d} -> DemandRow]
      BY <2>1, WithoutType DEF GrafikTypeOK, DeleteDemand
    <2>4. /\ DOMAIN shift' = DOMAIN shift
          /\ \A s \in DOMAIN shift : shift'[s] = IF shift[s].demand = d THEN [shift[s] EXCEPT !.demand = NoDemand]
                                                 ELSE shift[s]
          /\ shift' = [s \in DOMAIN shift |-> shift'[s]]
      BY <2>1 DEF DeleteDemand
    <2>5. \A s \in DOMAIN shift : shift'[s] \in ShiftRow /\ shift'[s].demand \in DOMAIN demand' \cup {NoDemand}
      BY <2>3, <2>4 DEF GrafikTypeOK, ShiftRow
    <2>6. shift' \in [DOMAIN shift' -> ShiftRow]
      BY <2>4, <2>5
    <2> QED
      BY <2>1, <2>2, <2>3, <2>4, <2>5, <2>6 DEF GrafikTypeOK, DeleteDemand
  <1> QED
    BY <1>1, <1>2

LEMMA OthersTyped ==
  ASSUME GrafikTypeOK,
         \/ \E t \in TemplateIds : (\E body \in TemplateBodies : SaveTemplate(t, body)) \/ DeleteTemplate(t)
         \/ \E e \in Workers, day \in {slot.day : slot \in Slots} : ApproveLeaveDay(e, day)
         \/ \E s \in DOMAIN shift : PointAt(s)
  PROVE  GrafikTypeOK' /\ StartGrafikCall /\ solve' = solve
  <1>1. StartGrafikCall /\ solve' = solve /\ shift' = shift /\ demand' = demand
    BY DEF SaveTemplate, DeleteTemplate, ApproveLeaveDay, PointAt
  <1>2. grafikStarted' \in 0..MaxGrafikCalls
    BY <1>1, Started
  <1>3. DOMAIN template' \subseteq TemplateIds
    BY DEF GrafikTypeOK, SaveTemplate, DeleteTemplate, ApproveLeaveDay, PointAt, PutRow, Without
  <1>4. proposalOn' \subseteq DOMAIN shift /\ swapOn' \subseteq DOMAIN shift
    BY DEF GrafikTypeOK, SaveTemplate, DeleteTemplate, ApproveLeaveDay, PointAt
  <1> QED
    BY <1>1, <1>2, <1>3, <1>4 DEF GrafikTypeOK

\* The optimizer's answer ends the solve or gives it a schedule.
LEMMA AnswerKeeps == ASSUME NEW c, Optimize(c)
                     PROVE  UNCHANGED <<weekVars, grafikStarted, grafikOverlap>> /\ solve[c].at = "optimize"
  BY Zenon DEF Optimize

LEMMA AnswerArrives ==
  ASSUME NEW c, Optimize(c)
  PROVE  \/ solve' = [solve EXCEPT ![c] = NoSolve]
         \/ \E x \in Schedules(Pack(solve[c]), FALSE) :
              solve' = [solve EXCEPT ![c] = [solve[c] EXCEPT !.at = "stale", !.asg = x]]
  <1>1. PICK r \in SolveResults(Pack(solve[c])) :
          solve' = [solve EXCEPT ![c] = IF r.status = "INFEASIBLE" THEN NoSolve
                                        ELSE [solve[c] EXCEPT !.at = "stale", !.asg = r.assignments]]
    BY Zenon DEF Optimize
  <1>2. CASE r.status = "INFEASIBLE"
    BY <1>1, <1>2, Zenon
  <1>3. CASE r.status # "INFEASIBLE"
    <2>1. r.assignments \in Schedules(Pack(solve[c]), FALSE)
      BY <1>3, AnswersAreSchedules, Zenon
    <2>2. solve' = [solve EXCEPT ![c] = [solve[c] EXCEPT !.at = "stale", !.asg = r.assignments]]
      BY <1>1, <1>3, Zenon
    <2> QED
      BY <2>1, <2>2, Zenon
  <1> QED
    BY <1>2, <1>3, Zenon

LEMMA SolveTyped ==
  ASSUME GrafikOK, NEW c \in GrafikCalls,
         \/ \E units \in UnitScope, filter \in Filters : Solve(c, units, filter)
         \/ ReadLeave(c) \/ ReadManual(c) \/ Optimize(c) \/ FindStale(c) \/ SolveFails(c)
  PROVE  GrafikTypeOK' /\ UNCHANGED <<weekVars, grafikOverlap>>
  <1>1. UNCHANGED <<weekVars, grafikOverlap>> /\ (grafikStarted' = grafikStarted \/ StartGrafikCall)
    <2>1. CASE \E units \in UnitScope, filter \in Filters : Solve(c, units, filter)
      BY <2>1 DEF Solve, StartGrafikCall
    <2>2. CASE ReadLeave(c) \/ ReadManual(c)
      BY <2>2 DEF ReadLeave, ReadManual
    <2>3. CASE FindStale(c) \/ SolveFails(c)
      BY <2>3 DEF FindStale, SolveFails
    <2>4. CASE Optimize(c)
      BY <2>4, AnswerKeeps
    <2> QED
      BY <2>1, <2>2, <2>3, <2>4
  <1>2. grafikStarted' \in 0..MaxGrafikCalls
    <2>2. GrafikTypeOK /\ grafikStarted \in 0..MaxGrafikCalls
      BY DEF GrafikOK, GrafikTypeOK
    <2> QED
      BY <1>1, <2>2, Started
  <1> QED
    BY <1>1, <1>2 DEF GrafikOK, GrafikTypeOK, weekVars

\* A call writes its own locals.
LEMMA SetsOneSolve ==
  ASSUME GrafikInv, NEW c \in GrafikCalls, NEW k, solve' = [solve EXCEPT ![c] = k],
         UNCHANGED <<weekVars, grafikOverlap>>,
         k = NoSolve \/ SolveKnows(k),
         ~grafikOverlap => /\ \A b \in GrafikCalls : solve[b] # NoSolve /\ k # NoSolve => b = c
                           /\ k # NoSolve => StillSo(k)
  PROVE  GrafikInv'
  <1>1. solve' = [b \in GrafikCalls |-> IF b = c THEN k ELSE solve[b]]
    BY DEF GrafikInv
  <1>2. \A b \in GrafikCalls : solve'[b] = IF b = c THEN k ELSE solve[b]
    BY <1>1
  <1>3. \A b \in GrafikCalls : solve'[b] = NoSolve \/ SolveKnows(solve'[b])
    BY <1>2 DEF GrafikInv
  <1>4. ~grafikOverlap' => \A a, b \in GrafikCalls : solve'[a] # NoSolve /\ solve'[b] # NoSolve => a = b
    BY <1>2 DEF GrafikInv
  <1>5. ASSUME ~grafikOverlap', NEW b \in GrafikCalls, solve'[b] # NoSolve PROVE StillSo(solve[b])'
    <2>1. shift' = shift /\ leaveDays' = leaveDays
      BY DEF weekVars
    <2>2. solve'[b] = k \/ solve'[b] = solve[b]
      BY <1>2
    <2>3. StillSo(solve'[b])
      BY <1>2, <1>5 DEF GrafikInv
    <2> QED
      BY <2>1, <2>3 DEF StillSo, ManualShifts, MachineShifts
  <1> QED
    BY <1>1, <1>3, <1>4, <1>5 DEF GrafikInv

\* The demands are read, the first of four reads.
LEMMA SolveStep ==
  ASSUME GrafikOK, NEW c \in GrafikCalls, NEW units \in UnitScope, NEW filter \in Filters, Solve(c, units, filter)
  PROVE  GrafikInv'
  <1> DEFINE read == Without(demand, {d \in DOMAIN demand : ~Within(filter, demand[d].slot.loc)})
             k == [at |-> "leave", run |-> grafikStarted, units |-> units, filter |-> filter, demands |-> read,
                   leave |-> {}, manual |-> {}, asg |-> {}, stale |-> {}]
  <1>1. solve' = [solve EXCEPT ![c] = k] /\ StartGrafikCall /\ UNCHANGED <<weekVars, grafikOverlap>>
    BY DEF Solve, StartGrafikCall
  <1>2. demand \in [DOMAIN demand -> DemandRow] /\ DOMAIN demand \subseteq DemandIds /\ grafikStarted \in 0..MaxGrafikCalls
    BY DEF GrafikOK, GrafikTypeOK
  <1>3. DOMAIN read \subseteq DemandIds /\ read \in [DOMAIN read -> DemandRow]
    BY <1>2 DEF Without
  <1> HIDE DEF read
  <1>4. SolveKnows(k)
    BY <1>2, <1>3 DEF SolveKnows
  <1>5. ~grafikOverlap => \A b \in GrafikCalls : solve[b] = NoSolve
    BY <1>1 DEF StartGrafikCall
  <1>6. StillSo(k)
    BY DEF StillSo
  <1> HIDE DEF k
  <1> QED
    BY <1>1, <1>4, <1>5, <1>6, SetsOneSolve DEF GrafikOK

\* The later reads and the optimizer's answer: the locals go on from k to j.
LEMMA SolveGoesOn ==
  ASSUME GrafikInv, NEW c \in GrafikCalls, solve[c] # NoSolve, NEW j, solve' = [solve EXCEPT ![c] = j],
         UNCHANGED <<weekVars, grafikOverlap>>,
         SolveKnows(j), StillSo(solve[c]) => StillSo(j)
  PROVE  GrafikInv'
  <1>1. ~grafikOverlap => StillSo(solve[c]) /\ \A b \in GrafikCalls : solve[b] # NoSolve => b = c
    BY DEF GrafikInv
  <1> QED
    BY <1>1, SetsOneSolve

LEMMA ReadStep ==
  ASSUME GrafikOK, NEW c \in GrafikCalls, ReadLeave(c) \/ ReadManual(c) \/ FindStale(c)
  PROVE  GrafikInv'
  <1> DEFINE k == solve[c]
             j == solve'[c]
  <1>1. UNCHANGED <<weekVars, grafikOverlap>> /\ k.at \in {"leave", "manual", "stale"}
    BY DEF ReadLeave, ReadManual, FindStale
  <1>2. k # NoSolve /\ SolveKnows(k) /\ solve = [b \in GrafikCalls |-> solve[b]]
    BY <1>1 DEF GrafikOK, GrafikInv, NoSolve
  <1>3. k = [at |-> k.at, run |-> k.run, units |-> k.units, filter |-> k.filter, demands |-> k.demands,
             leave |-> k.leave, manual |-> k.manual, asg |-> k.asg, stale |-> k.stale]
    BY <1>2 DEF SolveKnows
  <1>4. solve' = [solve EXCEPT ![c] = j]
    BY <1>2 DEF ReadLeave, ReadManual, FindStale
  <1>5. CASE ReadLeave(c)
    <2>1. k.at = "leave" /\ j = [k EXCEPT !.at = "manual", !.leave = {l \in leaveDays : l[1] \in InScopeOf(k.units)}]
      BY <1>2, <1>5 DEF ReadLeave
    <2> HIDE DEF j
    <2>2. /\ j.units = k.units /\ j.leave = {l \in leaveDays : l[1] \in InScopeOf(k.units)}
          /\ j.at = "manual" /\ j.demands = k.demands /\ j.run = k.run
          /\ j = [at |-> j.at, run |-> j.run, units |-> j.units, filter |-> j.filter, demands |-> j.demands,
                  leave |-> j.leave, manual |-> j.manual, asg |-> j.asg, stale |-> j.stale]
      BY <1>3, <2>1
    <2>3. SolveKnows(j)
      BY <1>2, <2>2, KnowsOn
    <2>4. StillSo(j)
      BY <2>2 DEF StillSo
    <2> QED
      BY <1>1, <1>2, <1>4, <2>3, <2>4, SolveGoesOn DEF GrafikOK
  <1>6. CASE ReadManual(c)
    <2> DEFINE m == ManualShifts(k.units, k.filter)
    <2>1. k.at = "manual" /\ j = [k EXCEPT !.at = "optimize", !.manual = m]
      BY <1>2, <1>6 DEF ReadManual
    <2> HIDE DEF j
    <2>2. /\ j.manual = m /\ j.units = k.units /\ j.filter = k.filter /\ j.leave = k.leave
          /\ j.at = "optimize" /\ j.demands = k.demands /\ j.run = k.run
          /\ j = [at |-> j.at, run |-> j.run, units |-> j.units, filter |-> j.filter, demands |-> j.demands,
                  leave |-> j.leave, manual |-> j.manual, asg |-> j.asg, stale |-> j.stale]
      BY <1>3, <2>1
    <2>3. SolveKnows(j)
      BY <1>2, <2>2, KnowsOn
    <2>4. StillSo(k) => StillSo(j)
      BY <2>1, <2>2 DEF StillSo
    <2> QED
      BY <1>1, <1>2, <1>4, <2>3, <2>4, SolveGoesOn DEF GrafikOK
  <1>7. CASE FindStale(c)
    <2> DEFINE st == MachineShifts(LocIds(k), k.units)
    <2>1. k.at = "stale" /\ j = [k EXCEPT !.at = "replace", !.stale = st]
      BY <1>2, <1>7 DEF FindStale
    <2> HIDE DEF j
    <2>2. /\ j.stale = st /\ j.units = k.units /\ j.filter = k.filter /\ j.leave = k.leave /\ j.at = "replace"
          /\ j.manual = k.manual /\ j.demands = k.demands /\ j.asg = k.asg /\ j.run = k.run
          /\ j = [at |-> j.at, run |-> j.run, units |-> j.units, filter |-> j.filter, demands |-> j.demands,
                  leave |-> j.leave, manual |-> j.manual, asg |-> j.asg, stale |-> j.stale]
      BY <1>3, <2>1
    <2>3. k.asg \in Schedules(Pack(k), FALSE)
      BY <1>2, <2>1 DEF SolveKnows
    <2>4. SolveKnows(j)
      BY <1>2, <2>2, <2>3, KnowsOn
    <2>5. LocIds(j) = LocIds(k)
      BY <2>2 DEF LocIds
    <2>6. StillSo(k) => StillSo(j)
      BY <2>1, <2>2, <2>5 DEF StillSo
    <2> QED
      BY <1>1, <1>2, <1>4, <2>4, <2>6, SolveGoesOn DEF GrafikOK
  <1> QED
    BY <1>5, <1>6, <1>7

LEMMA OptimizeStep ==
  ASSUME GrafikOK, NEW c \in GrafikCalls, Optimize(c)
  PROVE  GrafikInv'
  <1> DEFINE k == solve[c]
  <1>1. UNCHANGED <<weekVars, grafikOverlap>> /\ k.at = "optimize"
    BY AnswerKeeps
  <1>2. k # NoSolve /\ SolveKnows(k) /\ solve = [b \in GrafikCalls |-> solve[b]]
    BY <1>1 DEF GrafikOK, GrafikInv, NoSolve
  <1>3. k = [at |-> k.at, run |-> k.run, units |-> k.units, filter |-> k.filter, demands |-> k.demands,
             leave |-> k.leave, manual |-> k.manual, asg |-> k.asg, stale |-> k.stale]
    BY <1>2 DEF SolveKnows
  <1>5. CASE solve' = [solve EXCEPT ![c] = NoSolve]
    BY <1>1, <1>5, SetsOneSolve DEF GrafikOK
  <1>6. ASSUME NEW x \in Schedules(Pack(k), FALSE), solve' = [solve EXCEPT ![c] = [k EXCEPT !.at = "stale", !.asg = x]]
        PROVE  GrafikInv'
    <2>0. PICK j : j = [k EXCEPT !.at = "stale", !.asg = x]
      OBVIOUS
    <2>1. solve' = [solve EXCEPT ![c] = j]
      BY <1>6, <2>0
    <2>3. /\ j.stale = k.stale /\ j.units = k.units /\ j.filter = k.filter /\ j.leave = k.leave /\ j.at = "stale"
          /\ j.manual = k.manual /\ j.demands = k.demands /\ j.asg = x /\ j.run = k.run
          /\ j = [at |-> j.at, run |-> j.run, units |-> j.units, filter |-> j.filter, demands |-> j.demands,
                  leave |-> j.leave, manual |-> j.manual, asg |-> j.asg, stale |-> j.stale]
      BY <1>3, <2>0
    <2>4. SolveKnows(j)
      BY <1>2, <2>3, KnowsOn
    <2>5. StillSo(k) => StillSo(j)
      BY <1>1, <2>3 DEF StillSo
    <2> QED
      BY <1>1, <1>2, <2>1, <2>4, <2>5, SolveGoesOn DEF GrafikOK
  <1> QED
    BY <1>5, <1>6, AnswerArrives, Zenon

\* The new rows of a solve: from its assignments, to people it plans for.
LEMMA NewRows ==
  ASSUME NEW k, SolveKnows(k), k.at = "replace", NEW a \in NewShifts(k)
  PROVE  /\ a = <<a[1], a[2]>> /\ a[1] \in Workers /\ a[1] \in InScopeOf(k.units)
         /\ a[2] \in DOMAIN k.demands /\ a[2] \in DemandIds
         /\ a \in k.asg /\ k.demands[a[2]] \in DemandRow
  <1>1. a \in k.asg /\ a[2] \in DOMAIN k.demands /\ a[1] \in InScopeOf(k.units)
    BY DEF NewShifts
  <1>2. k.asg \in Schedules(Pack(k), FALSE) /\ DOMAIN k.demands \subseteq DemandIds
        /\ k.demands \in [DOMAIN k.demands -> DemandRow]
    BY DEF SolveKnows
  <1> DEFINE P == Pack(k)
  <1> HIDE DEF P
  <1>3. k.asg \subseteq P.employees \X DOMAIN P.demands
    BY <1>2 DEF Schedules, EligiblePairs, P
  <1>4. a = <<a[1], a[2]>>
    BY <1>1, <1>3
  <1>5. a[1] \in Workers
    BY <1>1 DEF InScopeOf
  <1> QED
    BY <1>1, <1>2, <1>4, <1>5

\* The ids of the rows a solve inserts.
NewIds(k) == {<<k.run, a[1], a[2]>> : a \in NewShifts(k)}

\* The shift table after a transaction.
LEMMA ReplaceFacts ==
  ASSUME GrafikOK, NEW c \in GrafikCalls, Replace(c)
  PROVE  LET k == solve[c] IN
         /\ k # NoSolve /\ k.at = "replace" /\ SolveKnows(k)
         /\ solve' = [solve EXCEPT ![c] = NoSolve]
         /\ UNCHANGED <<demand, template, leaveDays, proposalOn, grafikStarted, grafikOverlap>>
         /\ \/ UNCHANGED <<shift, swapOn>>
            \/ /\ ~RolledBack(k)
               /\ swapOn' = swapOn \ k.stale
               /\ DOMAIN shift' = (DOMAIN shift \ k.stale) \cup NewIds(k)
               /\ shift' = [s \in DOMAIN shift' |-> shift'[s]]
               /\ \A s \in NewIds(k) :
                    shift'[s] = [emp |-> s[2], slot |-> k.demands[s[3]].slot, source |-> "AUTO", demand |-> s[3]]
               /\ \A s \in DOMAIN shift' \ NewIds(k) : shift'[s] = shift[s]
  <1> DEFINE k == solve[c]
             new == [id \in {<<k.run, a[1], a[2]>> : a \in NewShifts(k)} |->
                      [emp |-> id[2], slot |-> k.demands[id[3]].slot, source |-> "AUTO", demand |-> id[3]]]
  <1>1. /\ k.at = "replace"
        /\ IF RolledBack(k) THEN UNCHANGED <<shift, swapOn>>
           ELSE /\ shift' = [s \in (DOMAIN shift \ k.stale) \cup DOMAIN new |->
                               IF s \in DOMAIN new THEN new[s] ELSE shift[s]]
                /\ swapOn' = swapOn \ k.stale
        /\ solve' = [solve EXCEPT ![c] = NoSolve]
        /\ UNCHANGED <<demand, template, leaveDays, proposalOn, grafikStarted, grafikOverlap>>
    BY DEF Replace
  <1>2. k # NoSolve /\ SolveKnows(k)
    BY <1>1 DEF GrafikOK, GrafikInv, NoSolve
  <1>3. DOMAIN new = NewIds(k)
    BY DEF NewIds
  <1>4. \A s \in NewIds(k) :
          new[s] = [emp |-> s[2], slot |-> k.demands[s[3]].slot, source |-> "AUTO", demand |-> s[3]]
    BY DEF NewIds
  <1> HIDE DEF k, new
  <1>5. CASE RolledBack(k)
    BY <1>1, <1>2, <1>5 DEF k
  <1>6. CASE ~RolledBack(k)
    <2>1. /\ shift' = [s \in (DOMAIN shift \ k.stale) \cup NewIds(k) |->
                         IF s \in NewIds(k) THEN new[s] ELSE shift[s]]
          /\ swapOn' = swapOn \ k.stale
      BY <1>1, <1>3, <1>6
    <2>2. /\ DOMAIN shift' = (DOMAIN shift \ k.stale) \cup NewIds(k)
          /\ shift' = [s \in DOMAIN shift' |-> shift'[s]]
          /\ \A s \in NewIds(k) : shift'[s] = new[s]
          /\ \A s \in DOMAIN shift' \ NewIds(k) : shift'[s] = shift[s]
      BY <2>1
    <2>3. \A s \in NewIds(k) :
            shift'[s] = [emp |-> s[2], slot |-> k.demands[s[3]].slot, source |-> "AUTO", demand |-> s[3]]
      BY <1>4, <2>2
    <2> QED
      BY <1>1, <1>2, <1>6, <2>1, <2>2, <2>3 DEF k
  <1> QED
    BY <1>5, <1>6

LEMMA NewIdFacts ==
  ASSUME NEW k, SolveKnows(k), k.at = "replace", NEW s \in NewIds(k)
  PROVE  /\ s = <<k.run, s[2], s[3]>> /\ s \in ShiftIds
         /\ <<s[2], s[3]>> \in NewShifts(k) /\ s[2] \in Workers /\ s[2] \in InScopeOf(k.units)
         /\ s[3] \in DOMAIN k.demands /\ s[3] \in DemandIds /\ k.demands[s[3]] \in DemandRow
  <1>1. PICK a \in NewShifts(k) : s = <<k.run, a[1], a[2]>>
    BY DEF NewIds
  <1>2. k.run \in 0..MaxGrafikCalls
    BY DEF SolveKnows
  <1>3. /\ a = <<a[1], a[2]>> /\ a[1] \in Workers /\ a[1] \in InScopeOf(k.units)
        /\ a[2] \in DOMAIN k.demands /\ a[2] \in DemandIds
        /\ a \in k.asg /\ k.demands[a[2]] \in DemandRow
    BY NewRows
  <1>4. s[2] = a[1] /\ s[3] = a[2]
    BY <1>1
  <1>5. s \in ShiftIds
    BY <1>1, <1>2, <1>3 DEF ShiftIds
  <1> QED
    BY <1>1, <1>3, <1>4, <1>5

LEMMA ReplaceStep ==
  ASSUME GrafikOK, NEW c \in GrafikCalls, Replace(c)
  PROVE  GrafikOK'
  <1> DEFINE k == solve[c]
  <1>1. /\ k # NoSolve /\ k.at = "replace" /\ SolveKnows(k)
        /\ solve' = [solve EXCEPT ![c] = NoSolve]
        /\ UNCHANGED <<demand, template, leaveDays, proposalOn, grafikStarted, grafikOverlap>>
    BY ReplaceFacts
  <1>2. GrafikInv'
    <2>1. solve' = [b \in GrafikCalls |-> IF b = c THEN NoSolve ELSE solve[b]]
      BY <1>1 DEF GrafikOK, GrafikInv
    <2>2. \A b \in GrafikCalls : solve'[b] = IF b = c THEN NoSolve ELSE solve[b]
      BY <2>1
    <2>3. ~grafikOverlap => \A b \in GrafikCalls : solve'[b] = NoSolve
      BY <1>1, <2>2 DEF GrafikOK, GrafikInv
    <2> QED
      BY <1>1, <2>1, <2>2, <2>3 DEF GrafikOK, GrafikInv
  <1>3. CASE UNCHANGED <<shift, swapOn>>
    BY <1>1, <1>2, <1>3 DEF GrafikOK, GrafikTypeOK
  <1>4. CASE /\ ~RolledBack(k)
             /\ swapOn' = swapOn \ k.stale
             /\ DOMAIN shift' = (DOMAIN shift \ k.stale) \cup NewIds(k)
             /\ shift' = [s \in DOMAIN shift' |-> shift'[s]]
             /\ \A s \in NewIds(k) :
                  shift'[s] = [emp |-> s[2], slot |-> k.demands[s[3]].slot, source |-> "AUTO", demand |-> s[3]]
             /\ \A s \in DOMAIN shift' \ NewIds(k) : shift'[s] = shift[s]
    <2>1. \A s \in NewIds(k) : s \in ShiftIds /\ shift'[s] \in ShiftRow /\ shift'[s].demand \in DOMAIN demand
      <3> SUFFICES ASSUME NEW s \in NewIds(k)
                   PROVE  s \in ShiftIds /\ shift'[s] \in ShiftRow /\ shift'[s].demand \in DOMAIN demand
        OBVIOUS
      <3>1. /\ s \in ShiftIds /\ <<s[2], s[3]>> \in NewShifts(k) /\ s[2] \in Workers
            /\ s[3] \in DemandIds /\ k.demands[s[3]] \in DemandRow
        BY <1>1, NewIdFacts
      <3>2. s[3] \in DOMAIN demand
        BY <1>4, <3>1 DEF RolledBack
      <3>3. shift'[s] = [emp |-> s[2], slot |-> k.demands[s[3]].slot, source |-> "AUTO", demand |-> s[3]]
        BY <1>4
      <3> HIDE DEF k
      <3> QED
        BY <3>1, <3>2, <3>3 DEF ShiftRow, DemandRow
    <2>2. \A s \in DOMAIN shift' \ NewIds(k) :
            s \in DOMAIN shift /\ s \in ShiftIds /\ shift'[s] \in ShiftRow
            /\ shift'[s].demand \in DOMAIN demand \cup {NoDemand}
      BY <1>4 DEF GrafikOK, GrafikTypeOK
    <2>3. proposalOn \subseteq DOMAIN shift' /\ swapOn' \subseteq DOMAIN shift'
      BY <1>4 DEF GrafikOK, GrafikTypeOK, RolledBack
    <2>4. shift' \in [DOMAIN shift' -> ShiftRow]
      BY <1>4, <2>1, <2>2
    <2> QED
      BY <1>1, <1>2, <2>1, <2>2, <2>3, <2>4 DEF GrafikOK, GrafikTypeOK
  <1> QED
    BY <1>3, <1>4, ReplaceFacts

LEMMA NextGrafik == ASSUME GrafikOK, GrafikNext PROVE GrafikOK'
  <1> USE DEF GrafikOK
  <1>1. ASSUME NEW global \in BOOLEAN, NEW body \in ShiftBodies,
               CreateShift(global, body) \/ \E s \in DOMAIN shift : UpdateShift(global, s, body)
        PROVE  GrafikOK'
    BY <1>1, ShiftsTyped, BesideSolves DEF CreateShift, UpdateShift
  <1>2. ASSUME NEW global \in BOOLEAN, NEW s \in DOMAIN shift, DeleteShift(global, s) PROVE GrafikOK'
    BY <1>2, ShiftsTyped, BesideSolves DEF DeleteShift
  <1>3. ASSUME \/ \E d \in DemandIds, body \in DemandBodies : SaveDemand(d, body)
               \/ \E d \in DemandIds : DeleteDemand(d)
        PROVE  GrafikOK'
    BY <1>3, DemandsTyped, BesideSolves DEF SaveDemand, DeleteDemand
  <1>4. ASSUME \/ \E t \in TemplateIds : (\E body \in TemplateBodies : SaveTemplate(t, body)) \/ DeleteTemplate(t)
               \/ \E e \in Workers, day \in {slot.day : slot \in Slots} : ApproveLeaveDay(e, day)
               \/ \E s \in DOMAIN shift : PointAt(s)
        PROVE  GrafikOK'
    BY <1>4, OthersTyped, BesideSolves
  <1>5. ASSUME NEW c \in GrafikCalls, \E units \in UnitScope, filter \in Filters : Solve(c, units, filter)
        PROVE  GrafikOK'
    BY <1>5, SolveTyped, SolveStep
  <1>6. ASSUME NEW c \in GrafikCalls, ReadLeave(c) \/ ReadManual(c) \/ FindStale(c) PROVE GrafikOK'
    BY <1>6, SolveTyped, ReadStep
  <1>7. ASSUME NEW c \in GrafikCalls, Optimize(c) PROVE GrafikOK'
    BY <1>7, SolveTyped, OptimizeStep
  <1>8. ASSUME NEW c \in GrafikCalls, Replace(c) PROVE GrafikOK'
    BY <1>8, ReplaceStep
  <1>9. ASSUME NEW c \in GrafikCalls, SolveFails(c) PROVE GrafikOK'
    <2>1. solve' = [solve EXCEPT ![c] = NoSolve] /\ UNCHANGED <<weekVars, grafikOverlap>>
      BY <1>9 DEF SolveFails
    <2> QED
      BY <1>9, <2>1, SolveTyped, SetsOneSolve
  <1> QED
    BY <1>1, <1>2, <1>3, <1>4, <1>5, <1>6, <1>7, <1>8, <1>9 DEF GrafikNext

(* The rows of the week stay of their types and refer to each other, and   *)
(* what a solve in progress has read is what it plans with (grafik.service *)
(* .ts, solveGrafik).                                                      *)
THEOREM GrafikCorrect == GrafikSpec => [](GrafikTypeOK /\ GrafikInv)
  <1>1. ASSUME GrafikOK, UNCHANGED grafikVars PROVE GrafikOK'
    BY <1>1 DEF GrafikOK, GrafikTypeOK, GrafikInv, StillSo, ManualShifts, MachineShifts, grafikVars, weekVars
  <1> QED
    BY <1>1, InitGrafik, NextGrafik, PTL DEF GrafikSpec, GrafikOK

\* Only the transaction of a solve ends it with other shifts than before.
LEMMA PersistingStep ==
  ASSUME GrafikOK, [GrafikNext]_grafikVars, NEW c \in GrafikCalls, Persists(c)
  PROVE  Replace(c) /\ shift' # shift
  <1>1. solve[c] # NoSolve /\ solve'[c] = NoSolve /\ shift' # shift
    BY DEF Persists
  <1>2. solve' # solve
    BY <1>1
  <1>3. ~(\E global \in BOOLEAN, body \in ShiftBodies :
            CreateShift(global, body) \/ \E s \in DOMAIN shift : UpdateShift(global, s, body))
    BY <1>2 DEF CreateShift, UpdateShift
  <1>4. ~(\E global \in BOOLEAN, s \in DOMAIN shift : DeleteShift(global, s))
    BY <1>2 DEF DeleteShift
  <1>5. ~(\E d \in DemandIds, body \in DemandBodies : SaveDemand(d, body)) /\ ~(\E d \in DemandIds : DeleteDemand(d))
    BY <1>2 DEF SaveDemand, DeleteDemand
  <1>6. ~(\E t \in TemplateIds : (\E body \in TemplateBodies : SaveTemplate(t, body)) \/ DeleteTemplate(t))
    BY <1>2 DEF SaveTemplate, DeleteTemplate
  <1>7. /\ ~(\E e \in Workers, day \in {slot.day : slot \in Slots} : ApproveLeaveDay(e, day))
        /\ ~(\E s \in DOMAIN shift : PointAt(s))
    BY <1>2 DEF ApproveLeaveDay, PointAt
  <1>8. ASSUME NEW b \in GrafikCalls,
               \/ \E units \in UnitScope, filter \in Filters : Solve(b, units, filter)
               \/ ReadLeave(b) \/ ReadManual(b) \/ Optimize(b) \/ FindStale(b) \/ SolveFails(b)
        PROVE  FALSE
    BY <1>1, <1>8, SolveTyped DEF weekVars
  <1>9. GrafikNext
    BY <1>1 DEF grafikVars, weekVars
  <1>10. PICK b \in GrafikCalls : Replace(b)
    BY <1>3, <1>4, <1>5, <1>6, <1>7, <1>8, <1>9 DEF GrafikNext
  <1>11. solve' = [solve EXCEPT ![b] = NoSolve]
    BY <1>10 DEF Replace
  <1>12. b = c
    BY <1>1, <1>11 DEF GrafikOK, GrafikInv
  <1> QED
    BY <1>1, <1>10, <1>12

LEMMA ReplacedAreOwn ==
  ASSUME GrafikOK, [GrafikNext]_grafikVars, NEW c \in GrafikCalls, ~grafikOverlap, Persists(c),
         NEW s \in DOMAIN shift \ DOMAIN shift'
  PROVE  /\ shift[s].source = "AUTO"
         /\ shift[s].slot.loc \in LocIds(solve[c])
         /\ WorkUnit[shift[s].emp] \in solve[c].units
  <1>1. Replace(c) /\ shift' # shift
    BY PersistingStep
  <1>2. /\ solve[c] # NoSolve /\ solve[c].at = "replace"
        /\ DOMAIN shift' = (DOMAIN shift \ solve[c].stale) \cup NewIds(solve[c])
    BY <1>1, ReplaceFacts
  <1>3. StillSo(solve[c])
    BY <1>2 DEF GrafikOK, GrafikInv
  <1>4. solve[c].stale = MachineShifts(LocIds(solve[c]), solve[c].units)
    BY <1>2, <1>3 DEF StillSo
  <1>5. s \in MachineShifts(LocIds(solve[c]), solve[c].units)
    BY <1>2, <1>4
  <1> QED
    BY <1>5 DEF MachineShifts

(* The transaction of solveGrafik deletes the machine's own shifts of the  *)
(* planned units and locations, and no other.                              *)
THEOREM SolveReplacesItsOwn == GrafikSpec => ReplacesOwnShifts
  <1>1. ASSUME GrafikOK, [GrafikNext]_grafikVars
        PROVE  \A c \in GrafikCalls :
                 (~grafikOverlap /\ Persists(c)) =>
                 \A s \in DOMAIN shift \ DOMAIN shift' :
                   /\ shift[s].source = "AUTO"
                   /\ shift[s].slot.loc \in LocIds(solve[c])
                   /\ WorkUnit[shift[s].emp] \in solve[c].units
    BY <1>1, ReplacedAreOwn
  <1> QED
    BY <1>1, GrafikCorrect, PTL DEF GrafikSpec, GrafikOK, ReplacesOwnShifts

\* A schedule follows the rules it was searched under.
LEMMA ScheduleRules ==
  ASSUME NEW P, NEW x \in Schedules(P, FALSE)
  PROVE  /\ \A a \in x : EligibleFor(P, a[1], a[2]) /\ a = <<a[1], a[2]>>
                          /\ a[1] \in P.employees /\ a[2] \in DOMAIN P.demands
         /\ \A id \in DOMAIN P.demands : Cardinality(Crew(x, id)) = P.demands[id].count
         /\ \A e \in P.employees : \A i, j \in Duties(x, e) :
              i = j \/ ~Conflict(AbsWindow(P.demands[i]), AbsWindow(P.demands[j]))
  <1>1. x \subseteq EligiblePairs(P) /\ HardConstraints(P, x, FALSE)
    BY Zenon DEF Schedules
  <1>2. \A a \in x : EligibleFor(P, a[1], a[2]) /\ a = <<a[1], a[2]>>
                     /\ a[1] \in P.employees /\ a[2] \in DOMAIN P.demands
    BY <1>1 DEF EligiblePairs
  <1>3. \A id \in DOMAIN P.demands : Cardinality(Crew(x, id)) = P.demands[id].count
    BY <1>1 DEF HardConstraints
  <1>4. \A e \in P.employees : \A i, j \in Duties(x, e) :
              i = j \/ ~Conflict(AbsWindow(P.demands[i]), AbsWindow(P.demands[j]))
    BY <1>1 DEF HardConstraints
  <1> QED
    BY <1>2, <1>3, <1>4

\* What the problem says of the week's demands and people.
LEMMA PackOfDemand ==
  ASSUME NEW k, \A m \in k.manual : m[1] \in ShiftIds, NEW d \in DOMAIN k.demands, d \in DemandIds
  PROVE  /\ d \in DOMAIN Pack(k).demands
         /\ Pack(k).demands[d] = SlotInput(k.demands[d].slot, k.demands[d].slot.role, k.demands[d].count)
  <1> DEFINE pins == {Pin(m) : m \in k.manual}
             of(pin) == CHOOSE m \in k.manual : Pin(m) = pin
             F == [id \in DOMAIN k.demands \cup pins |->
                     IF id \in pins THEN SlotInput(of(id)[2].slot, id, 1)
                     ELSE SlotInput(k.demands[id].slot, k.demands[id].slot.role, k.demands[id].count)]
  <1>1. Pack(k).demands = F
    BY DEF Pack
  <1>2. pins \subseteq PinNames
    BY DEF Pin, PinNames
  <1>3. d \notin pins
    BY <1>2, GrafikAssumption
  <1> HIDE DEF pins, of
  <1>4. d \in DOMAIN F /\ F[d] = SlotInput(k.demands[d].slot, k.demands[d].slot.role, k.demands[d].count)
    BY <1>3
  <1> HIDE DEF F
  <1> QED
    BY <1>1, <1>4

LEMMA PackOfPin ==
  ASSUME NEW k, NEW m \in k.manual, \A n \in k.manual : n[1] = m[1] => n = m
  PROVE  /\ Pin(m) \in DOMAIN Pack(k).demands
         /\ Pack(k).demands[Pin(m)] = SlotInput(m[2].slot, Pin(m), 1)
  <1> DEFINE pins == {Pin(n) : n \in k.manual}
             of(pin) == CHOOSE n \in k.manual : Pin(n) = pin
             F == [id \in DOMAIN k.demands \cup pins |->
                     IF id \in pins THEN SlotInput(of(id)[2].slot, id, 1)
                     ELSE SlotInput(k.demands[id].slot, k.demands[id].slot.role, k.demands[id].count)]
  <1>1. Pack(k).demands = F
    BY DEF Pack
  <1>2. \A n \in k.manual : Pin(n) = Pin(m) => n = m
    BY DEF Pin
  <1>3. of(Pin(m)) = m
    BY <1>2
  <1>4. Pin(m) \in pins
    OBVIOUS
  <1> HIDE DEF pins, of
  <1>5. Pin(m) \in DOMAIN F /\ F[Pin(m)] = SlotInput(m[2].slot, Pin(m), 1)
    BY <1>3, <1>4
  <1> HIDE DEF F
  <1> QED
    BY <1>1, <1>5

LEMMA PackOfPeople ==
  ASSUME NEW k, NEW e \in Workers
  PROVE  /\ Pack(k).employees = InScopeOf(k.units)
         /\ Pack(k).quals[e] = Skills[e] \cup {Pin(m) : m \in {n \in k.manual : n[2].emp = e}}
         /\ Pack(k).leave[e] = {l[2] : l \in {x \in k.leave : x[1] = e}}
  BY DEF Pack

\* What an assignment of a solve promises of its employee.
LEMMA AssignmentFits ==
  ASSUME NEW k, SolveKnows(k), StillSo(k), k.at = "replace", DOMAIN shift \subseteq ShiftIds,
         NEW a \in NewShifts(k)
  PROVE  /\ k.demands[a[2]].slot.role \in Skills[a[1]]
         /\ <<a[1], k.demands[a[2]].slot.day>> \notin leaveDays
         /\ a[2] \in Duties(k.asg, a[1])
  <1>1. /\ a = <<a[1], a[2]>> /\ a[1] \in Workers /\ a[1] \in InScopeOf(k.units)
        /\ a[2] \in DOMAIN k.demands /\ a[2] \in DemandIds
        /\ a \in k.asg /\ k.demands[a[2]] \in DemandRow
    BY NewRows
  <1>2. k.asg \in Schedules(Pack(k), FALSE)
    BY DEF SolveKnows
  <1>3. /\ k.leave = {l \in leaveDays : l[1] \in InScopeOf(k.units)}
        /\ k.manual = ManualShifts(k.units, k.filter)
    BY DEF StillSo
  <1>4. \A m \in k.manual : m[1] \in ShiftIds
    BY <1>3 DEF ManualShifts
  <1> DEFINE P == Pack(k)
             slot == k.demands[a[2]].slot
  <1>5. P.demands[a[2]] = SlotInput(slot, slot.role, k.demands[a[2]].count)
    BY <1>1, <1>4, PackOfDemand
  <1>6. P.demands[a[2]].role = slot.role /\ P.demands[a[2]].day = slot.day
    BY <1>5 DEF SlotInput
  <1>7. /\ P.quals[a[1]] = Skills[a[1]] \cup {Pin(m) : m \in {n \in k.manual : n[2].emp = a[1]}}
        /\ P.leave[a[1]] = {l[2] : l \in {x \in k.leave : x[1] = a[1]}}
    BY <1>1, PackOfPeople
  <1>8. EligibleFor(P, a[1], a[2])
    BY <1>1, <1>2, ScheduleRules
  <1>9. slot.role \in P.quals[a[1]] /\ slot.day \notin P.leave[a[1]]
    BY <1>6, <1>8 DEF EligibleFor
  <1> HIDE DEF P
  <1>10. slot \in Slots
    BY <1>1 DEF DemandRow
  <1>11. slot.role \notin PinNames
    BY <1>10, GrafikAssumption
  <1>12. {Pin(m) : m \in {n \in k.manual : n[2].emp = a[1]}} \subseteq PinNames
    BY <1>4 DEF Pin, PinNames
  <1>13. slot.role \in Skills[a[1]]
    BY <1>7, <1>9, <1>11, <1>12
  <1>14. <<a[1], slot.day>> \notin leaveDays
    <2> SUFFICES ASSUME <<a[1], slot.day>> \in leaveDays PROVE FALSE
      OBVIOUS
    <2>1. <<a[1], slot.day>> \in k.leave
      BY <1>1, <1>3
    <2>2. slot.day \in {l[2] : l \in {x \in k.leave : x[1] = a[1]}}
      BY <2>1
    <2> QED
      BY <1>7, <1>9, <2>2
  <1>15. a[2] \in Duties(k.asg, a[1])
    BY <1>1 DEF Duties
  <1> QED
    BY <1>13, <1>14, <1>15

\* A shift that somebody has placed is a duty of its holder in every schedule:
\* its pin must be filled, and only the holder is qualified for it.
LEMMA PinsAreFilled ==
  ASSUME NEW k, SolveKnows(k), StillSo(k), k.at = "replace", DOMAIN shift \subseteq ShiftIds,
         NEW t \in DOMAIN shift, shift[t].source = "MANUAL", shift[t].emp \in InScopeOf(k.units),
         Within(k.filter, shift[t].slot.loc)
  PROVE  /\ <<"pinned", t>> \in Duties(k.asg, shift[t].emp)
         /\ <<"pinned", t>> \in DOMAIN Pack(k).demands
         /\ Pack(k).demands[<<"pinned", t>>] = SlotInput(shift[t].slot, <<"pinned", t>>, 1)
  <1> DEFINE m == <<t, shift[t]>>
             p == <<"pinned", t>>
             P == Pack(k)
  <1>1. k.manual = ManualShifts(k.units, k.filter)
    BY DEF StillSo
  <1>2. m \in k.manual
    BY <1>1 DEF ManualShifts
  <1>3. \A n \in k.manual : n = <<n[1], shift[n[1]]>> /\ n[1] \in ShiftIds
    BY <1>1 DEF ManualShifts
  <1>4. \A n \in k.manual : n[1] = m[1] => n = m
    BY <1>3
  <1>5. Pin(m) = p /\ m[2] = shift[t]
    BY DEF Pin
  <1>6. p \in DOMAIN P.demands /\ P.demands[p] = SlotInput(shift[t].slot, p, 1)
    <2> HIDE DEF m, p
    <2> QED
      BY <1>2, <1>4, <1>5, PackOfPin
  <1>7. k.asg \in Schedules(P, FALSE)
    BY DEF SolveKnows
  <1> HIDE DEF P, m
  <1>8. Cardinality(Crew(k.asg, p)) = 1
    <2>1. Cardinality(Crew(k.asg, p)) = P.demands[p].count
      BY <1>6, <1>7, ScheduleRules, Zenon
    <2> QED
      BY <1>6, <2>1 DEF SlotInput
  <1>9. Crew(k.asg, p) # {}
    BY <1>8, FS_EmptySet
  <1>10. PICK a \in k.asg : a[2] = p
    BY <1>9 DEF Crew
  <1>11. a = <<a[1], p>> /\ a[1] \in P.employees /\ EligibleFor(P, a[1], p)
    BY <1>7, <1>10, ScheduleRules, ZenonT(40)
  <1>12. a[1] \in Workers
    <2>1. P.employees = InScopeOf(k.units)
      BY DEF P, Pack
    <2> QED
      BY <1>11, <2>1 DEF InScopeOf
  <1>13. p \in P.quals[a[1]]
    BY <1>6, <1>11 DEF EligibleFor, SlotInput
  <1>14. P.quals[a[1]] = Skills[a[1]] \cup {Pin(n) : n \in {x \in k.manual : x[2].emp = a[1]}}
    BY <1>12, PackOfPeople DEF P
  <1>15. p \in PinNames
    BY DEF PinNames
  <1>16. PICK n \in k.manual : n[2].emp = a[1] /\ Pin(n) = p
    BY <1>12, <1>13, <1>14, <1>15, GrafikAssumption
  <1>17. n = <<t, shift[t]>>
    BY <1>3, <1>16 DEF Pin
  <1>18. a[1] = shift[t].emp
    BY <1>16, <1>17
  <1>19. p \in Duties(k.asg, shift[t].emp)
    BY <1>10, <1>18 DEF Duties
  <1> QED
    BY <1>6, <1>19 DEF P

LEMMA WindowOfSlot ==
  ASSUME NEW slot, NEW role, NEW n PROVE AbsWindow(SlotInput(slot, role, n)) = AbsWindow(slot)
  BY DEF AbsWindow, SlotInput

\* Two duties of one person are eleven hours apart.
LEMMA DutiesApart ==
  ASSUME NEW k, SolveKnows(k), k.at = "replace", NEW e \in InScopeOf(k.units),
         NEW i \in Duties(k.asg, e), NEW j \in Duties(k.asg, e), i # j
  PROVE  ~Conflict(AbsWindow(Pack(k).demands[i]), AbsWindow(Pack(k).demands[j]))
  <1>1. k.asg \in Schedules(Pack(k), FALSE) /\ Pack(k).employees = InScopeOf(k.units)
    BY DEF SolveKnows, Pack
  <1> DEFINE P == Pack(k)
  <1> HIDE DEF P
  <1>2. ~Conflict(AbsWindow(P.demands[i]), AbsWindow(P.demands[j]))
    BY <1>1, ScheduleRules DEF P
  <1> QED
    BY <1>2 DEF P

LEMMA SolvedRows ==
  ASSUME GrafikOK, [GrafikNext]_grafikVars, NEW c \in GrafikCalls,
         ~grafikOverlap, Persists(c), solve[c].filter = {}, NEW s \in Inserted
  PROVE  LET new == shift'[s] IN
         /\ new.slot.role \in Skills[new.emp]
         /\ <<new.emp, new.slot.day>> \notin leaveDays
         /\ \A t \in DOMAIN shift' \ {s} :
             (shift'[t].emp = new.emp /\ (t \in Inserted \/ shift'[t].source = "MANUAL"))
             => ~Conflict(AbsWindow(shift'[t].slot), AbsWindow(new.slot))
  <1> DEFINE k == solve[c]
  <1>1. Replace(c) /\ shift' # shift
    BY PersistingStep
  <1>2. /\ k # NoSolve /\ k.at = "replace" /\ SolveKnows(k)
        /\ DOMAIN shift' = (DOMAIN shift \ k.stale) \cup NewIds(k)
        /\ \A t \in NewIds(k) :
             shift'[t] = [emp |-> t[2], slot |-> k.demands[t[3]].slot, source |-> "AUTO", demand |-> t[3]]
        /\ \A t \in DOMAIN shift' \ NewIds(k) : shift'[t] = shift[t]
    BY <1>1, ReplaceFacts
  <1>3. StillSo(k) /\ DOMAIN shift \subseteq ShiftIds
    BY <1>2 DEF GrafikOK, GrafikInv, GrafikTypeOK
  <1> HIDE DEF k
  <1>4. Inserted \subseteq NewIds(k)
    BY <1>2 DEF Inserted
  <1>5. s \in NewIds(k) /\ k.filter = {}
    BY <1>4 DEF k
  <1>6. \A m \in k.manual : m[1] \in ShiftIds
    BY <1>2, <1>3 DEF StillSo, ManualShifts
  <1>7. ASSUME NEW t \in NewIds(k)
        PROVE  /\ t = <<k.run, t[2], t[3]>> /\ <<t[2], t[3]>> \in NewShifts(k)
               /\ t[2] \in InScopeOf(k.units) /\ t[3] \in DOMAIN k.demands /\ t[3] \in DemandIds
               /\ shift'[t].emp = t[2] /\ shift'[t].slot = k.demands[t[3]].slot /\ shift'[t].source = "AUTO"
               /\ k.demands[t[3]].slot.role \in Skills[t[2]]
               /\ <<t[2], k.demands[t[3]].slot.day>> \notin leaveDays
               /\ t[3] \in Duties(k.asg, t[2])
               /\ Pack(k).demands[t[3]] = SlotInput(k.demands[t[3]].slot, k.demands[t[3]].slot.role, k.demands[t[3]].count)
    <2>1. /\ t = <<k.run, t[2], t[3]>> /\ <<t[2], t[3]>> \in NewShifts(k)
          /\ t[2] \in InScopeOf(k.units) /\ t[3] \in DOMAIN k.demands /\ t[3] \in DemandIds
      BY <1>2, NewIdFacts
    <2>2. /\ k.demands[t[3]].slot.role \in Skills[t[2]]
          /\ <<t[2], k.demands[t[3]].slot.day>> \notin leaveDays
          /\ t[3] \in Duties(k.asg, t[2])
      <3>1. PICK a \in NewShifts(k) : a = <<t[2], t[3]>>
        BY <2>1
      <3>2. /\ k.demands[a[2]].slot.role \in Skills[a[1]]
            /\ <<a[1], k.demands[a[2]].slot.day>> \notin leaveDays
            /\ a[2] \in Duties(k.asg, a[1])
        BY <1>2, <1>3, AssignmentFits
      <3>3. a[1] = t[2] /\ a[2] = t[3]
        BY <3>1
      <3> QED
        BY <3>2, <3>3
    <2>3. shift'[t].emp = t[2] /\ shift'[t].slot = k.demands[t[3]].slot /\ shift'[t].source = "AUTO"
      BY <1>2
    <2>4. Pack(k).demands[t[3]] = SlotInput(k.demands[t[3]].slot, k.demands[t[3]].slot.role, k.demands[t[3]].count)
      BY <1>6, <2>1, PackOfDemand
    <2> QED
      BY <2>1, <2>2, <2>3, <2>4
  <1>8. ASSUME NEW t \in DOMAIN shift' \ {s}, shift'[t].emp = shift'[s].emp,
               t \in Inserted \/ shift'[t].source = "MANUAL"
        PROVE  ~Conflict(AbsWindow(shift'[t].slot), AbsWindow(shift'[s].slot))
    <2> DEFINE e == s[2]
    <2>1. /\ Pack(k).demands[s[3]] = SlotInput(shift'[s].slot, k.demands[s[3]].slot.role, k.demands[s[3]].count)
          /\ e \in InScopeOf(k.units) /\ s[3] \in Duties(k.asg, e)
      BY <1>5, <1>7
    <2>4. SolveKnows(k) /\ k.at = "replace"
      BY <1>2
    <2>5. AbsWindow(Pack(k).demands[s[3]]) = AbsWindow(shift'[s].slot)
      BY <2>1, WindowOfSlot
    <2> HIDE DEF e
    <2>2. CASE t \in NewIds(k)
      <3>1. /\ Pack(k).demands[t[3]] = SlotInput(shift'[t].slot, k.demands[t[3]].slot.role, k.demands[t[3]].count)
            /\ t[2] = e /\ t[3] \in Duties(k.asg, t[2])
        BY <1>5, <1>7, <1>8, <2>2 DEF e
      <3>2. t[3] # s[3]
        BY <1>5, <1>7, <1>8, <2>2, <3>1 DEF e
      <3>3. AbsWindow(Pack(k).demands[t[3]]) = AbsWindow(shift'[t].slot)
        BY <3>1, WindowOfSlot
      <3>4. ~Conflict(AbsWindow(Pack(k).demands[t[3]]), AbsWindow(Pack(k).demands[s[3]]))
        BY <2>1, <2>4, <3>1, <3>2, DutiesApart
      <3> QED
        BY <2>5, <3>3, <3>4
    <2>3. CASE t \notin NewIds(k)
      <3>1. t \in DOMAIN shift /\ shift'[t] = shift[t] /\ shift[t].source = "MANUAL" /\ shift[t].emp = e
        BY <1>2, <1>4, <1>5, <1>7, <1>8, <2>3 DEF e
      <3>2. Within(k.filter, shift[t].slot.loc)
        BY <1>5 DEF Within
      <3>3. /\ <<"pinned", t>> \in Duties(k.asg, shift[t].emp)
            /\ Pack(k).demands[<<"pinned", t>>] = SlotInput(shift[t].slot, <<"pinned", t>>, 1)
        BY <1>2, <1>3, <2>1, <3>1, <3>2, PinsAreFilled
      <3>4. <<"pinned", t>> # s[3]
        <4>1. <<"pinned", t>> \in PinNames
          BY <1>3, <3>1 DEF PinNames
        <4> QED
          BY <1>5, <1>7, <4>1, GrafikAssumption
      <3> QED
        <4>1. <<"pinned", t>> \in Duties(k.asg, e) /\ shift'[t].slot = shift[t].slot
          BY <3>1, <3>3
        <4>2. AbsWindow(Pack(k).demands[<<"pinned", t>>]) = AbsWindow(shift'[t].slot)
          BY <3>3, <4>1, WindowOfSlot
        <4>3. ~Conflict(AbsWindow(Pack(k).demands[<<"pinned", t>>]), AbsWindow(Pack(k).demands[s[3]]))
          BY <2>1, <2>4, <3>4, <4>1, DutiesApart
        <4> QED
          BY <2>5, <4>2, <4>3
    <2> QED
      BY <2>2, <2>3
  <1> QED
    BY <1>5, <1>7, <1>8

(* What solveGrafik persists can be worked: the rules of the optimizer     *)
(* hold of the week because manual shifts enter it as pinned demands that  *)
(* only their holder may fill.                                             *)
THEOREM SolvesAreWorkable == GrafikSpec => SolvedWorkable
  <1>1. ASSUME GrafikOK, [GrafikNext]_grafikVars
        PROVE  \A c \in GrafikCalls :
                 (~grafikOverlap /\ Persists(c) /\ solve[c].filter = {}) =>
                 \A s \in Inserted :
                   LET new == shift'[s] IN
                   /\ new.slot.role \in Skills[new.emp]
                   /\ <<new.emp, new.slot.day>> \notin leaveDays
                   /\ \A t \in DOMAIN shift' \ {s} :
                       (shift'[t].emp = new.emp /\ (t \in Inserted \/ shift'[t].source = "MANUAL"))
                       => ~Conflict(AbsWindow(shift'[t].slot), AbsWindow(new.slot))
    <2> SUFFICES ASSUME NEW c \in GrafikCalls, ~grafikOverlap, Persists(c), solve[c].filter = {},
                        NEW s \in Inserted
                 PROVE  LET new == shift'[s] IN
                        /\ new.slot.role \in Skills[new.emp]
                        /\ <<new.emp, new.slot.day>> \notin leaveDays
                        /\ \A t \in DOMAIN shift' \ {s} :
                            (shift'[t].emp = new.emp /\ (t \in Inserted \/ shift'[t].source = "MANUAL"))
                            => ~Conflict(AbsWindow(shift'[t].slot), AbsWindow(new.slot))
      BY Zenon
    <2> QED
      BY <1>1, SolvedRows, Zenon
  <1> QED
    BY <1>1, GrafikCorrect, PTL DEF GrafikSpec, GrafikOK, SolvedWorkable
=============================================================================
