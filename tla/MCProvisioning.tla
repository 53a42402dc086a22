--------------------------- MODULE MCProvisioning ---------------------------
(* Instances of Provisioning for TLC.                                      *)
EXTENDS Provisioning, TLC

CONSTANTS t1, s1, p1, p2, a, b, c, d

OneTenant    == {t1}
OneSlug      == {s1}
TwoPods      == {p1, p2}
FourPasswords == {a, b, c, d}

\* Pods are interchangeable (used where no temporal property is checked).
PodSymmetry == Permutations(TwoPods)

NoFaults     == {}
BuildSteps   == {"CREATE_DB", "RUN_MIGRATIONS", "SEED", "KEYCLOAK_SETUP"}
EveryStep    == BuildSteps \cup {"DONE"}
SeedOnly     == {"SEED"}
\* Messages and claims are lost, nothing is delivered twice.
Losses       == {"emitLost", "dbDown", "relayCrash"}
Connection   == {"connection"}
Restarts     == {"connection", "crash"}
SomeSteps    == {"CREATE_DB", "SEED", "DONE"}
Redelivery   == {"emitLost", "emitDup", "connection", "crash"}
=============================================================================
