------------------------------- MODULE Agent -------------------------------
(***************************************************************************)
(* The agent service (agent-service/app: service.py, store.py, retrain.py):*)
(* one learned policy per tenant in SQLite, read and written by the        *)
(* threads of one process.  feedback and retrain hold the service lock     *)
(* from their first read to their last write; propose, explain, policy_info*)
(* and reset do not, and the retrain of the command line is another        *)
(* process.  Every commit of the store is an action of its own, so a crash *)
(* may fall between any two.                                               *)
(*                                                                         *)
(* What a policy has learned is the set of feedback rows folded into it;   *)
(* the affinities themselves are in module AgentPolicy.                    *)
(***************************************************************************)
EXTENDS Naturals, FiniteSets, FiniteSetsExt, Sequences, SequencesExt

CONSTANTS
    Learners,        \* tenants of the agent service
    AgentThreads,    \* requests in progress at the same time
    AgentRegimes,    \* see agentRegime
    MaxAgentCalls,   \* bound: calls that are started
    MaxAgentCrashes  \* bound: crashes of the process

ASSUME AgentAssumption ==
    AgentRegimes \subseteq {"warm", "alone", "any"} /\ MaxAgentCalls \in Nat /\ MaxAgentCrashes \in Nat

VARIABLES
    policyState,     \* policy_state: {} or {[version, learned]}
    policyVersions,  \* policy_versions in the order of trainedAt
    feedbackRows,    \* agent_feedback
    agentProposals,  \* ids of the stored proposals
    artefacts,       \* artefact files: [version, learned]
    serviceLock,     \* the thread that holds AgentService._lock
    agentCall,       \* locals of the threads
    agentStarted,    \* calls started so far
    agentCrashed,    \* crashes so far
    agentRegime      \* "warm": the tenants have a policy, calls overlap, nobody
                     \* resets; "alone": any calls, one at a time; "any": both

agentStore == <<policyState, policyVersions, feedbackRows, agentProposals, artefacts>>
agentVars == <<agentStore, serviceLock, agentCall, agentStarted, agentCrashed, agentRegime>>

ColdStart == [version |-> 1, learned |-> {}]
Row(version, learned, artefact) == [version |-> version, learned |-> learned, artefact |-> artefact]
NoAgentCall == [at |-> "idle", op |-> "none", no |-> 0, tenant |-> "none", proposal |-> 0, edits |-> <<>>,
                mine |-> {}, log |-> {}, state |-> ColdStart, version |-> 0]

AgentInit ==
    /\ agentRegime \in AgentRegimes
    /\ policyState = [t \in Learners |-> IF agentRegime = "warm" THEN {ColdStart} ELSE {}]
    /\ policyVersions = [t \in Learners |-> IF agentRegime = "warm" THEN <<Row(1, {}, FALSE)>> ELSE <<>>]
    /\ feedbackRows = [t \in Learners |-> {}]
    /\ agentProposals = [t \in Learners |-> IF agentRegime = "warm" THEN {0} ELSE {}]
    /\ artefacts = [t \in Learners |-> {}]
    /\ serviceLock = {}
    /\ agentCall = [c \in AgentThreads |-> NoAgentCall]
    /\ agentStarted = 0
    /\ agentCrashed = 0

At(c, at) == agentCall[c].at = at
Move(c, at) == agentCall' = [agentCall EXCEPT ![c].at = at]
Finish(c) == agentCall' = [agentCall EXCEPT ![c] = NoAgentCall]
fixed == <<agentStarted, agentCrashed, agentRegime>>

\* A request arrives.  The edits of a feedback: TRUE names an employee and a
\* demand, FALSE is an acceptance of the whole proposal.
StartAgentCall(c, op, t, p, edits, at) ==
    /\ At(c, "idle")
    /\ agentRegime = "alone" => \A d \in AgentThreads : At(d, "idle")
    /\ op \in {"reset", "cli"} => agentRegime # "warm"
    /\ agentStarted < MaxAgentCalls
    /\ agentStarted' = agentStarted + 1
    /\ agentCall' = [agentCall EXCEPT ![c] =
         [NoAgentCall EXCEPT !.at = at, !.op = op, !.no = agentStarted', !.tenant = t, !.proposal = p, !.edits = edits]]
    /\ UNCHANGED <<agentStore, serviceLock, agentCrashed, agentRegime>>

\* propose; explain and policy_info, which read and load.
Propose(c, t) == StartAgentCall(c, "propose", t, 0, <<>>, "load")
Look(c, t) == StartAgentCall(c, "look", t, 0, <<>>, "load")
\* feedback on a proposal id; the id may be another tenant's or unknown.
Feedback(c, t, p, edits) == StartAgentCall(c, "feedback", t, p, edits, "lock")
Retrain(c, t) == StartAgentCall(c, "retrain", t, 0, <<>>, "lock")
\* python -m app.retrain --once
RetrainOnce(c, t) == StartAgentCall(c, "cli", t, 0, <<>>, "versions")
Reset(c, t) == StartAgentCall(c, "reset", t, 0, <<>>, "clear")

\* with self._lock
TakeLock(c) ==
    /\ At(c, "lock")
    /\ serviceLock = {}
    /\ serviceLock' = {c}
    /\ Move(c, IF agentCall[c].op = "feedback" THEN "find" ELSE "load")
    /\ UNCHANGED <<agentStore, fixed>>

Return(c) == Finish(c) /\ serviceLock' = serviceLock \ {c}

-----------------------------------------------------------------------------
(* _load_policy *)

\* What a call does once it has the policy.
AfterLoad(c) ==
    CASE agentCall[c].op = "propose"  -> "propose"
      [] agentCall[c].op = "feedback" -> "save"
      [] agentCall[c].op = "retrain"  -> "versions"
      [] OTHER -> "return"

\* Online learning: the rows of this call, and a new version if any teaches.
Nudged(c, s) ==
    LET taught == agentCall[c].mine
    IN  IF taught = {} THEN s ELSE [version |-> s.version + 1, learned |-> s.learned \cup taught]

LoadPolicy(c) ==
    LET t == agentCall[c].tenant IN
    /\ At(c, "load")
    /\ \/ /\ policyState[t] = {}
          /\ Move(c, "coldSave")
       \/ \E s \in policyState[t] :
            agentCall' = [agentCall EXCEPT ![c].at = AfterLoad(c), ![c].state = s]
    /\ UNCHANGED <<agentStore, serviceLock, fixed>>

\* Behavioural cloning of the solver's schedule, version 1.
ColdSave(c) ==
    /\ At(c, "coldSave")
    /\ policyState' = [policyState EXCEPT ![agentCall[c].tenant] = {ColdStart}]
    /\ Move(c, "coldRecord")
    /\ UNCHANGED <<policyVersions, feedbackRows, agentProposals, artefacts, serviceLock, fixed>>

ColdRecord(c) ==
    /\ At(c, "coldRecord")
    /\ policyVersions' = [policyVersions EXCEPT ![agentCall[c].tenant] = Append(@, Row(1, {}, FALSE))]
    /\ agentCall' = [agentCall EXCEPT ![c].at = AfterLoad(c), ![c].state = ColdStart]
    /\ UNCHANGED <<policyState, feedbackRows, agentProposals, artefacts, serviceLock, fixed>>

\* save_proposal under a fresh id
SaveProposal(c) ==
    /\ At(c, "propose")
    /\ agentProposals' = [agentProposals EXCEPT ![agentCall[c].tenant] = @ \cup {agentCall[c].no}]
    /\ Return(c)
    /\ UNCHANGED <<policyState, policyVersions, feedbackRows, artefacts, fixed>>

ReturnPolicy(c) ==
    /\ At(c, "return")
    /\ Return(c)
    /\ UNCHANGED <<agentStore, fixed>>

-----------------------------------------------------------------------------
(* feedback *)

\* get_proposal: the id must be this tenant's.
FindProposal(c) ==
    /\ At(c, "find")
    /\ IF agentCall[c].proposal \in agentProposals[agentCall[c].tenant]
       THEN Move(c, "rows") /\ UNCHANGED serviceLock
       ELSE Return(c)
    /\ UNCHANGED <<agentStore, fixed>>

\* add_feedback, once per edit.
AddFeedback(c) ==
    LET t == agentCall[c].tenant
        row == [id |-> <<agentCall[c].no, Len(agentCall[c].edits)>>, proposal |-> agentCall[c].proposal,
                teaches |-> Head(agentCall[c].edits)]
    IN
    /\ At(c, "rows")
    /\ agentCall[c].edits # <<>>
    /\ feedbackRows' = [feedbackRows EXCEPT ![t] = @ \cup {row}]
    /\ agentCall' = [agentCall EXCEPT ![c].edits = Tail(@),
                                      ![c].mine = IF row.teaches THEN @ \cup {row.id} ELSE @,
                                      ![c].at = IF Len(agentCall[c].edits) = 1 THEN "load" ELSE @]
    /\ UNCHANGED <<policyState, policyVersions, agentProposals, artefacts, serviceLock, fixed>>

\* _save_policy after apply_feedback_edits; the version row follows if it taught.
SaveNudge(c) ==
    LET s == Nudged(c, agentCall[c].state) IN
    /\ At(c, "save")
    /\ policyState' = [policyState EXCEPT ![agentCall[c].tenant] = {s}]
    /\ agentCall' = [agentCall EXCEPT ![c].at = IF agentCall[c].mine = {} THEN "return" ELSE "record",
                                      ![c].state = s]
    /\ UNCHANGED <<policyVersions, feedbackRows, agentProposals, artefacts, serviceLock, fixed>>

-----------------------------------------------------------------------------
(* RetrainPipeline.retrain *)

\* As NextVersion, but by counting the rows.
NextVersionByCount(t) == Len(policyVersions[t]) + 1

NextVersion(t) == Max({policyVersions[t][i].version : i \in DOMAIN policyVersions[t]} \cup {0}) + 1

ReadVersions(c) ==
    /\ At(c, "versions")
    /\ agentCall' = [agentCall EXCEPT ![c].at = "log", ![c].version = NextVersion(agentCall[c].tenant)]
    /\ UNCHANGED <<agentStore, serviceLock, fixed>>

\* feedback_for_tenant
ReadLog(c) ==
    /\ At(c, "log")
    /\ agentCall' = [agentCall EXCEPT ![c].at = "replay", ![c].log = feedbackRows[agentCall[c].tenant]]
    /\ UNCHANGED <<agentStore, serviceLock, fixed>>

\* _apply_feedback_log: a fresh policy; rows without a target, or whose
\* proposal is gone, are skipped.
Replay(c) ==
    LET used == {r \in agentCall[c].log : r.teaches /\ r.proposal \in agentProposals[agentCall[c].tenant]} IN
    /\ At(c, "replay")
    /\ agentCall' = [agentCall EXCEPT ![c].at = "artefact", ![c].log = {},
           ![c].state = [version |-> agentCall[c].version, learned |-> {r.id : r \in used}]]
    /\ UNCHANGED <<agentStore, serviceLock, fixed>>

\* _save_artifact: the file of that version is overwritten.
SaveArtefact(c) ==
    LET s == agentCall[c].state IN
    /\ At(c, "artefact")
    /\ artefacts' = [artefacts EXCEPT ![agentCall[c].tenant] = {a \in @ : a.version # s.version} \cup {s}]
    /\ Move(c, "saveFit")
    /\ UNCHANGED <<policyState, policyVersions, feedbackRows, agentProposals, serviceLock, fixed>>

SaveFit(c) ==
    /\ At(c, "saveFit")
    /\ policyState' = [policyState EXCEPT ![agentCall[c].tenant] = {agentCall[c].state}]
    /\ Move(c, "record")
    /\ UNCHANGED <<policyVersions, feedbackRows, agentProposals, artefacts, serviceLock, fixed>>

\* record_policy_version, the last write of feedback and of retrain
RecordPolicyVersion(c) ==
    LET s == agentCall[c].state IN
    /\ At(c, "record")
    /\ policyVersions' = [policyVersions EXCEPT ![agentCall[c].tenant] =
                            Append(@, Row(s.version, s.learned, agentCall[c].op # "feedback"))]
    /\ Return(c)
    /\ UNCHANGED <<policyState, feedbackRows, agentProposals, artefacts, fixed>>

-----------------------------------------------------------------------------
(* reset, crash *)

\* reset_tenant: one transaction over the four tables, this tenant's rows; the
\* artefact files stay.
ResetTenant(c) ==
    LET t == agentCall[c].tenant IN
    /\ At(c, "clear")
    /\ policyState' = [policyState EXCEPT ![t] = {}]
    /\ policyVersions' = [policyVersions EXCEPT ![t] = <<>>]
    /\ feedbackRows' = [feedbackRows EXCEPT ![t] = {}]
    /\ agentProposals' = [agentProposals EXCEPT ![t] = {}]
    /\ Move(c, "load")
    /\ UNCHANGED <<artefacts, serviceLock, fixed>>

\* The process dies: its threads and its lock with it, what is committed stays.
CrashAgent ==
    /\ agentCrashed < MaxAgentCrashes
    /\ \E c \in AgentThreads : ~At(c, "idle")
    /\ agentCrashed' = agentCrashed + 1
    /\ agentCall' = [c \in AgentThreads |-> NoAgentCall]
    /\ serviceLock' = {}
    /\ UNCHANGED <<agentStore, agentStarted, agentRegime>>

AnyProposal == UNION {agentProposals[t] : t \in Learners}

AgentNext ==
    \/ CrashAgent
    \/ \E c \in AgentThreads :
        \/ \E t \in Learners :
             Propose(c, t) \/ Look(c, t) \/ Retrain(c, t) \/ RetrainOnce(c, t) \/ Reset(c, t)
        \/ \E t \in Learners, p \in AnyProposal, edits \in {<<TRUE>>, <<FALSE>>, <<TRUE, TRUE>>} :
             Feedback(c, t, p, edits)
        \/ TakeLock(c) \/ LoadPolicy(c) \/ ColdSave(c) \/ ColdRecord(c) \/ SaveProposal(c) \/ ReturnPolicy(c)
        \/ FindProposal(c) \/ AddFeedback(c) \/ SaveNudge(c)
        \/ ReadVersions(c) \/ ReadLog(c) \/ Replay(c) \/ SaveArtefact(c) \/ SaveFit(c)
        \/ RecordPolicyVersion(c) \/ ResetTenant(c)

AgentSpec == AgentInit /\ [][AgentNext]_agentVars

-----------------------------------------------------------------------------
(* Properties *)

AtRest == \A c \in AgentThreads : At(c, "idle")
Ids(rows) == {r.id : r \in {x \in rows : x.teaches}}

AgentTypeOK ==
    /\ \A t \in Learners :
         /\ Cardinality(policyState[t]) <= 1
         /\ \A s \in policyState[t] \cup artefacts[t] : s.version \in Nat \ {0}
         /\ \A i \in DOMAIN policyVersions[t] : policyVersions[t][i].artefact \in BOOLEAN
         /\ agentProposals[t] \subseteq 0..MaxAgentCalls
    /\ serviceLock \subseteq AgentThreads /\ Cardinality(serviceLock) <= 1
    /\ DOMAIN agentCall = AgentThreads

(* The version history of a tenant tells the truth: versions only rise,    *)
(* through crashes between a policy and its row too, a row with an         *)
(* artefact finds the file of its own fit, and unless the process died     *)
(* the newest row is the policy that is served ("the version sequence      *)
(* stays gap-free and unique", service.py retrain).                        *)
HistorySound ==
    agentRegime # "any" => \A t \in Learners :
        /\ \A i, j \in DOMAIN policyVersions[t] :
             i < j => policyVersions[t][i].version < policyVersions[t][j].version
        /\ \A i \in DOMAIN policyVersions[t] : policyVersions[t][i].artefact =>
             [version |-> policyVersions[t][i].version, learned |-> policyVersions[t][i].learned]
                \in artefacts[t]
        /\ (AtRest /\ agentCrashed = 0 /\ policyState[t] # {}) =>
             \A s \in policyState[t] : /\ s.version = Last(policyVersions[t]).version
                                       /\ s.learned = Last(policyVersions[t]).learned

(* No correction of a manager is lost: at rest the served policy has       *)
(* learned every feedback row of its tenant that teaches anything, and,    *)
(* whatever happened, nothing that is not (or no longer, after a reset) in *)
(* the tenant's log (feedback, "M2 lost-update fix"; reset_tenant, AG6).   *)
NothingUnlearned ==
    (agentRegime # "any" /\ AtRest) => \A t \in Learners : \A s \in policyState[t] :
        /\ s.learned \subseteq Ids(feedbackRows[t])
        /\ agentCrashed = 0 => s.learned = Ids(feedbackRows[t])

(* The store is a true record of what the agent has learned.               *)
LearningSound == HistorySound /\ NothingUnlearned

-----------------------------------------------------------------------------
\* Why LearningSound holds.
AgentIds == Nat \X Nat
AgentPolicies == [version : Nat, learned : SUBSET AgentIds]
FeedbackRecords == [id : AgentIds, proposal : Nat, teaches : BOOLEAN]
VersionRecords == [version : Nat, learned : SUBSET AgentIds, artefact : BOOLEAN]

\* Where a call of each kind can be.
Loading == {"load", "coldSave", "coldRecord"}
Fitting == {"versions", "log", "replay", "artefact", "saveFit", "record"}
AgentPlaces ==
    [propose  |-> Loading \cup {"propose"},
     look     |-> Loading \cup {"return"},
     reset    |-> Loading \cup {"clear", "return"},
     feedback |-> {"lock", "find", "rows", "load", "save", "return", "record"},
     retrain  |-> Loading \cup Fitting \cup {"lock"},
     cli      |-> Fitting]

AgentCalls == [at : UNION {AgentPlaces[op] : op \in DOMAIN AgentPlaces}, op : DOMAIN AgentPlaces, no : Nat,
               tenant : Learners, proposal : Nat, edits : Seq(BOOLEAN), mine : SUBSET AgentIds, log : SUBSET FeedbackRecords,
               state : AgentPolicies, version : Nat]

AgentTypes ==
    /\ policyState \in [Learners -> SUBSET AgentPolicies]
    /\ policyVersions \in [Learners -> Seq(VersionRecords)]
    /\ feedbackRows \in [Learners -> SUBSET FeedbackRecords]
    /\ agentProposals \in [Learners -> SUBSET Nat]
    /\ artefacts \in [Learners -> SUBSET AgentPolicies]
    /\ agentStarted \in Nat /\ agentCrashed \in Nat
    /\ DOMAIN agentCall = AgentThreads
    /\ \A c \in AgentThreads : agentCall[c] = NoAgentCall \/ agentCall[c] \in AgentCalls

\* A feedback or a retrain past its lock is alone with the store.
OneWriter ==
    /\ agentRegime = "alone" => \A c, d \in AgentThreads : At(c, "idle") \/ At(d, "idle") \/ c = d
    /\ agentRegime = "warm" => \A c \in AgentThreads : agentCall[c].op \notin {"reset", "cli"}
    /\ \A c \in AgentThreads :
         agentCall[c].op \in {"feedback", "retrain"} /\ agentCall[c].at \notin {"idle", "lock"} => serviceLock = {c}

Newer(version, t) == \A i \in DOMAIN policyVersions[t] : policyVersions[t][i].version < version

Recorded(t, s) ==
    /\ policyVersions[t] # <<>>
    /\ s.version = Last(policyVersions[t]).version /\ s.learned = Last(policyVersions[t]).learned

\* A call with locals w owes the store of t a policy or its row.
Owes(w, t) ==
    w.tenant = t /\ (w.at \in {"coldRecord", "record"} \/ (w.op = "feedback" /\ w.at \in {"rows", "load", "save"}))

StoreInv(t) ==
    /\ \A s, u \in policyState[t] : s = u
    /\ policyState[t] = {} =>
         agentRegime # "warm" /\ feedbackRows[t] = {} /\ agentProposals[t] = {} /\ policyVersions[t] = <<>>
    /\ \A r \in feedbackRows[t] : r.proposal \in agentProposals[t]
    /\ \A i, j \in DOMAIN policyVersions[t] : i < j => policyVersions[t][i].version < policyVersions[t][j].version
    /\ \A i \in DOMAIN policyVersions[t] : policyVersions[t][i].artefact =>
         [version |-> policyVersions[t][i].version, learned |-> policyVersions[t][i].learned] \in artefacts[t]
    /\ \A s \in policyState[t] :
         /\ Newer(s.version + 1, t)
         /\ s.learned \subseteq Ids(feedbackRows[t])
         /\ \/ agentCrashed > 0
            \/ \E c \in AgentThreads : Owes(agentCall[c], t)
            \/ Recorded(t, s) /\ s.learned = Ids(feedbackRows[t])

\* The policy that a retrain has fitted to the log as it is.
Fitted(w) ==
    /\ w.state.version = w.version
    /\ w.state.learned \subseteq Ids(feedbackRows[w.tenant])
    /\ agentCrashed = 0 => w.state.learned = Ids(feedbackRows[w.tenant])

\* A call with locals w.
CallInv(w) ==
    LET t == w.tenant IN
    w # NoAgentCall =>
        /\ w.at \in AgentPlaces[w.op]
        /\ w.at \in {"lock", "find"} => w.mine = {}
        /\ w.at \in {"coldSave", "coldRecord"} =>
             agentRegime = "alone" /\ feedbackRows[t] = {} /\ agentProposals[t] = {} /\ policyVersions[t] = <<>>
        /\ w.at = "coldSave" => policyState[t] = {}
        /\ w.at = "propose" => policyState[t] # {}
        /\ w.at = "coldRecord" => policyState[t] = {ColdStart}
        /\ w.op = "feedback" /\ w.at \in {"rows", "load", "save"} =>
             /\ w.proposal \in agentProposals[t]
             /\ w.mine \subseteq Ids(feedbackRows[t])
             /\ agentCrashed = 0 => \A s \in policyState[t] : Recorded(t, s) /\ Ids(feedbackRows[t]) = s.learned \cup w.mine
        /\ w.at = "save" => w.state \in policyState[t]
        /\ w.at \in {"log", "replay", "artefact", "saveFit"} => Newer(w.version, t)
        /\ w.at = "replay" => w.log = feedbackRows[t]
        /\ w.at \in {"artefact", "saveFit"} => Fitted(w)
        /\ w.at = "record" =>
             /\ policyState[t] = {w.state} /\ Newer(w.state.version, t)
             /\ agentCrashed = 0 => w.state.learned = Ids(feedbackRows[t])
        /\ w.at \in {"saveFit", "record"} /\ w.op # "feedback" => w.state \in artefacts[t]

AgentInv ==
    agentRegime # "any" => /\ AgentTypes /\ OneWriter
                           /\ \A t \in Learners : StoreInv(t)
                           /\ \A c \in AgentThreads : CallInv(agentCall[c])

\* Why AgentTypeOK holds, in every regime.
AgentTypeInv ==
    /\ AgentTypes
    /\ serviceLock \subseteq AgentThreads /\ \A c, d \in serviceLock : c = d
    /\ agentStarted <= MaxAgentCalls
    /\ \A t \in Learners :
         /\ \A s, u \in policyState[t] : s = u
         /\ \A s \in policyState[t] \cup artefacts[t] : s.version > 0
         /\ agentProposals[t] \subseteq 0..agentStarted
    /\ \A c \in AgentThreads : agentCall[c] # NoAgentCall =>
         /\ agentCall[c].no <= agentStarted /\ agentCall[c].state.version > 0
         /\ agentCall[c].at \in {"log", "replay"} => agentCall[c].version > 0
=============================================================================
