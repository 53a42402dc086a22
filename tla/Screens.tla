------------------------------ MODULE Screens ------------------------------
(***************************************************************************)
(* The screens of the web client that list rows and act on them            *)
(* (docs/design/web-kit/components): the manager's inbox of AI proposals,  *)
(* the employee's consent section, leave requests, access grants, users,   *)
(* and shift swaps.  All have the shape refresh / run / busy: lists that   *)
(* are fetched one by one and replace what is shown when all have come,    *)
(* on mount, on a timer and after a call; a button per row and action that *)
(* is disabled while its own call is under way; one banner for errors.     *)
(* The backend is external here: the moves its tables allow, made by this  *)
(* screen's calls or by somebody else at any time, and its refusals: of    *)
(* what the table or the caller's rights forbid, of an approval found      *)
(* infeasible, of a consent too late.  A screen that is left ends the      *)
(* behaviour: the cancelledRef checks only keep its late results from      *)
(* being written into nothing.                                             *)
(***************************************************************************)
EXTENDS Naturals, FiniteSets

CONSTANTS
    ScreenRows,   \* the rows a backend may have
    ScreenCalls,  \* calls that may be under way at once
    ScreenPolls,  \* refreshes outside of a call that may be under way at once
    ScreenCases   \* a set of [kind, rows, is, polls, moves, faults]: a screen ("inbox", "consent",
                  \* "leave", "access", "users" or "swaps"), the rows of its backend, what the caller
                  \* is to them (a subset of {"owner", "target", "decider"}), and how many timer
                  \* ticks, moves of others and lost requests a behaviour may have

ScreenKinds == {"inbox", "consent", "leave", "access", "users", "swaps"}

\* Somebody is asked to swap, but not to give leave.
ASSUME ScreensAssumption ==
    /\ ScreenPolls # {} /\ ScreenCalls \cap ScreenPolls = {}
    /\ ScreenCases \subseteq [kind : ScreenKinds, rows : SUBSET ScreenRows,
                             is : SUBSET {"owner", "target", "decider"}, polls : Nat, moves : Nat, faults : Nat]
    /\ \A l \in ScreenCases : l.kind = "leave" => "target" \notin l.is

VARIABLES
    scrKind,    \* the screen
    scrServer,  \* row -> its state at the backend
    scrShown,   \* what the screen shows: <<section, row, state>>
    scrBusy,    \* <<row, action>> of the disabled buttons
    scrBanner,  \* "none" or "error"
    scrCall,    \* call -> [at, row, act, saw]
    scrRead,    \* call or poll -> [on, todo, rows]: a refresh under way
    scrLeft     \* the case, and what is left of its limits

screenVars == <<scrKind, scrServer, scrShown, scrBusy, scrBanner, scrCall, scrRead, scrLeft>>

SwapTable == INSTANCE SwapMachine WITH Requests <- ScreenRows, state <- scrServer, audit <- scrServer
ProposalTable == INSTANCE ProposalMachine WITH Proposals <- ScreenRows, stage <- scrServer, approvals <- scrServer

-----------------------------------------------------------------------------
(* The backend, by its tables *)

Renamed(table, call) ==
    {<<t[1], call[t[2]], t[3]>> : t \in {u \in table : u[2] \in DOMAIN call}}

SwapCall == [submit |-> "submit", peer_accept |-> "peer-accept", peer_reject |-> "peer-reject",
             submit_to_manager |-> "to-manager", manager_approve |-> "approve", manager_reject |-> "reject",
             cancel |-> "cancel"]

InboxCall == [ask_consent |-> "request-consent", direct_escalate |-> "request-consent",
              manager_approve |-> "approve", manager_reject |-> "reject"]

\* <<from, action of the screen, to>>.  A declined consent goes on to
\* somebody else: for this screen the row is then "ASKED_ANOTHER".
Moves(k) ==
    CASE k = "swaps"   -> Renamed(SwapTable!TRANSITIONS, SwapCall)
      [] k = "inbox"   -> {t \in Renamed(ProposalTable!AI_TRANSITIONS, InboxCall) :
                             t[1] \in {"DRAFT", "PENDING_MANAGER"}}
      [] k = "consent" -> {<<"PENDING_EMPLOYEE_CONSENT", "accept", "PENDING_MANAGER">>,
                           <<"PENDING_EMPLOYEE_CONSENT", "decline", "ASKED_ANOTHER">>,
                           <<"PENDING_EMPLOYEE_CONSENT", "decline", "ESCALATED">>}
      [] k = "leave"   -> {<<"PENDING", "approve", "APPROVED">>, <<"PENDING", "reject", "REJECTED">>,
                           <<"PENDING", "cancel", "CANCELLED">>}
      [] k = "access"  -> {<<"ACTIVE", "revoke", "REVOKED">>}
      [] k = "users"   -> {<<"active", "deactivate", "inactive">>, <<"inactive", "deactivate", "inactive">>}

\* What somebody else, or time, may do to a row meanwhile.  "LAPSED" is a
\* consent that is stored as pending and past its deadline.
OtherMoves(k) ==
    Moves(k) \cup (IF k = "inbox" THEN {<<"PENDING_EMPLOYEE_CONSENT", "employee", "PENDING_MANAGER">>,
                                        <<"PENDING_EMPLOYEE_CONSENT", "employee", "ESCALATED">>}
                   ELSE IF k = "consent" THEN {<<"PENDING_EMPLOYEE_CONSENT", "lapse", "LAPSED">>,
                                               <<"LAPSED", "expire", "ESCALATED">>}
                   ELSE IF k = "access" THEN {<<"ACTIVE", "lose", "LOST">>} ELSE {})

FirstStates(k) ==
    CASE k = "swaps" -> {"DRAFT", "PEER_AGREED"}
      [] k = "inbox" -> {"DRAFT", "PENDING_MANAGER"}
      [] k = "consent" -> {"PENDING_EMPLOYEE_CONSENT"}
      [] k = "leave" -> {"PENDING"}
      [] k = "access" -> {"ACTIVE"}
      [] k = "users" -> {"active"}

\* The users are the global admins of the tenant, one of whom must stay active.
LastAdmin(r, active) == scrKind = "users" /\ active \subseteq {r}

\* The row-level checks: nobody decides on their own leave; a swap is sent
\* and cancelled by its requester, answered by its target, decided by a
\* manager of both.
Allowed(a) ==
    CASE scrKind = "leave" -> IF a = "cancel" THEN "owner" \in scrLeft.is
                              ELSE "decider" \in scrLeft.is /\ "owner" \notin scrLeft.is
      [] scrKind = "swaps" -> CASE a \in {"approve", "reject"} -> "decider" \in scrLeft.is
                                [] a \in {"peer-accept", "peer-reject"} -> "target" \in scrLeft.is
                                [] OTHER -> "owner" \in scrLeft.is
      [] OTHER -> TRUE

Accepted(c) ==
    {t \in Moves(scrKind) : /\ Allowed(t[2])
                            /\ t[1] = scrServer[scrCall[c].row]
                            /\ t[2] = scrCall[c].act
                            /\ ~LastAdmin(scrCall[c].row, {r \in DOMAIN scrServer : scrServer[r] = "active"})}

\* An approval is vetted anew: the shifts of a swap and the candidate of a
\* proposal go to the optimizer, whose verdict no row of the screen tells.
VettedAnew(c) == scrKind \in {"swaps", "inbox"} /\ scrCall[c].act = "approve"

\* The serializable count of admins fails when the roster has changed.
Clashed(c) == scrKind = "users" /\ \E x \in scrCall[c].saw : scrServer[x[2]] # x[3]

Refusable(c) == Accepted(c) = {} \/ VettedAnew(c) \/ Clashed(c)

\* A lapsed consent is escalated by whoever reads it next.
Escalated(rows) ==
    [r \in DOMAIN scrServer |-> IF r \in rows /\ scrServer[r] = "LAPSED" THEN "ESCALATED" ELSE scrServer[r]]

-----------------------------------------------------------------------------
(* What the screens fetch and offer *)

\* The lists of a refresh; {} is no filter.  A plain employee's leave screen
\* asks for no inbox; the inbox of swaps is the backend's list, which holds
\* the caller's own swaps too.
Fetches(k) ==
    CASE k = "inbox"   -> [manager |-> {"PENDING_MANAGER"}, draft |-> {"DRAFT"}, escalated |-> {"ESCALATED"}]
      [] k = "consent" -> [mine |-> {"PENDING_EMPLOYEE_CONSENT"}]
      [] k = "leave"   -> IF "decider" \in scrLeft.is THEN [mine |-> {}, inbox |-> {"PENDING"}] ELSE [mine |-> {}]
      [] k = "swaps"   -> [mine |-> {}, inbox |-> {"PENDING_MANAGER"}]
      [] OTHER         -> [all |-> {}]

\* mine=true lists what the caller is a party of.
Lists(section) == scrKind \in {"leave", "swaps"} /\ section = "mine" => scrLeft.is \cap {"owner", "target"} # {}

AiProposalActions(s) ==
    CASE s = "PENDING_MANAGER" -> {"approve", "reject"}
      [] s = "PENDING_EMPLOYEE_CONSENT" -> {"accept", "decline"}
      [] OTHER -> {}

\* Variant: cancelling is offered whatever has become of the request.
LeaveActionsAnyStatus(s, relation) ==
    IF relation = "mine" THEN {"cancel"} ELSE IF s = "PENDING" THEN {"approve", "reject"} ELSE {}

LeaveActions(s, relation) ==
    IF s # "PENDING" THEN {} ELSE IF relation = "mine" THEN {"cancel"} ELSE {"approve", "reject"}

\* mineActions; enrichRow never knows the caller's side (mineRole: null), so
\* that the target's buttons never appear.
MineActions(s) ==
    CASE s = "DRAFT" -> {"submit", "cancel"}
      [] s = "PENDING_PEER" -> {"cancel"}
      [] s = "PEER_AGREED" -> {"to-manager", "cancel"}
      [] s = "PENDING_MANAGER" -> {"cancel"}
      [] OTHER -> {}

\* canManageUser, from what is shown.
CanManageUser(r, shown) == ~LastAdmin(r, {x[2] : x \in {y \in shown : y[3] = "active"}})

Offered(x, shown) ==
    CASE scrKind = "inbox" -> IF x[3] = "DRAFT" THEN {"request-consent"} ELSE AiProposalActions(x[3])
      [] scrKind = "consent" -> AiProposalActions(x[3])
      [] scrKind = "leave" -> LeaveActions(x[3], x[1])
      [] scrKind = "access" -> IF x[3] = "ACTIVE" THEN {"revoke"} ELSE {}
      [] scrKind = "users" -> IF x[3] = "active" /\ CanManageUser(x[2], shown) THEN {"deactivate"} ELSE {}
      [] scrKind = "swaps" -> IF x[1] = "mine" THEN MineActions(x[3]) ELSE {"approve", "reject"}

-----------------------------------------------------------------------------
(* Refreshes *)

NoCall == [at |-> "idle", row |-> "", act |-> "", saw |-> {}]
NoRead == [on |-> FALSE, todo |-> {}, rows |-> {}]

StartRead == [on |-> TRUE, todo |-> DOMAIN Fetches(scrKind), rows |-> {}]

ScreensInit ==
    /\ scrLeft \in ScreenCases
    /\ scrKind = scrLeft.kind
    /\ scrServer \in [scrLeft.rows -> FirstStates(scrKind)]
    /\ scrShown = {}
    /\ scrBusy = {}
    /\ scrBanner = "none"
    /\ scrCall = [c \in ScreenCalls |-> NoCall]
    /\ scrRead = [x \in ScreenCalls \cup ScreenPolls |->
                    IF x = CHOOSE p \in ScreenPolls : TRUE THEN StartRead ELSE NoRead]

\* The timer; access grants and users are not polled.
PollTick(p) ==
    /\ scrKind \notin {"access", "users"}
    /\ scrLeft.polls > 0
    /\ ~scrRead[p].on
    /\ scrRead' = [scrRead EXCEPT ![p] = StartRead]
    /\ scrLeft' = [scrLeft EXCEPT !.polls = @ - 1]
    /\ UNCHANGED <<scrKind, scrServer, scrShown, scrBusy, scrBanner, scrCall>>

\* One of the requests of a refresh is answered; a lapsed consent is not listed.
ListAnswered(x) ==
    \E section \in scrRead[x].todo :
      LET states == Fetches(scrKind)[section]
          rows == {r \in DOMAIN scrServer : Lists(section) /\ (states = {} \/ scrServer[r] \in states)}
      IN  /\ scrRead' = [scrRead EXCEPT ![x] = [on |-> scrRead[x].on, todo |-> scrRead[x].todo \ {section},
                            rows |-> scrRead[x].rows \cup {<<section, r, scrServer[r]>> : r \in rows}]]
          /\ scrServer' = Escalated(DOMAIN scrServer)
          /\ UNCHANGED <<scrKind, scrShown, scrBusy, scrBanner, scrCall, scrLeft>>

\* finally: the swaps screen has one busy button for all, the others a set.
Freed(x) ==
    IF x \notin ScreenCalls THEN scrBusy
    ELSE IF scrKind = "swaps" THEN {} ELSE scrBusy \ {<<scrCall[x].row, scrCall[x].act>>}

EndsRefresh(x) ==
    /\ scrRead' = [scrRead EXCEPT ![x] = NoRead]
    /\ scrBusy' = Freed(x)
    /\ scrCall' = IF x \in ScreenCalls THEN [scrCall EXCEPT ![x] = NoCall] ELSE scrCall

\* All lists have come; only the swaps screen leaves the banner alone.
Land(x) ==
    /\ scrRead[x].on /\ scrRead[x].todo = {}
    /\ scrShown' = scrRead[x].rows
    /\ scrBanner' = IF scrKind = "swaps" THEN scrBanner ELSE "none"
    /\ EndsRefresh(x)
    /\ UNCHANGED <<scrKind, scrServer, scrLeft>>

\* Variant: a refresh that fails is ignored.
RefreshFailsUnseen(x) ==
    /\ scrRead[x].on
    /\ scrLeft.faults > 0
    /\ scrLeft' = [scrLeft EXCEPT !.faults = @ - 1]
    /\ EndsRefresh(x)
    /\ UNCHANGED <<scrKind, scrServer, scrShown, scrBanner>>

\* A request of the refresh, or of the names for its rows, fails.  A poll of
\* the swaps screen fails unseen.
RefreshFails(x) ==
    /\ scrRead[x].on
    /\ scrLeft.faults > 0
    /\ scrLeft' = [scrLeft EXCEPT !.faults = @ - 1]
    /\ scrBanner' = IF scrKind = "swaps" /\ x \in ScreenPolls THEN scrBanner ELSE "error"
    /\ EndsRefresh(x)
    /\ UNCHANGED <<scrKind, scrServer, scrShown>>

-----------------------------------------------------------------------------
(* Calls *)

MarkBusy(key) == IF scrKind = "swaps" THEN {key} ELSE scrBusy \cup {key}

Click(c) ==
    /\ scrCall[c].at = "idle"
    /\ \E x \in scrShown : \E a \in Offered(x, scrShown) :
         /\ <<x[2], a>> \notin scrBusy
         /\ scrBusy' = MarkBusy(<<x[2], a>>)
         /\ scrCall' = [scrCall EXCEPT ![c] = [at |-> "sent", row |-> x[2], act |-> a,
                                               saw |-> IF scrKind = "users" THEN scrShown ELSE {x}]]
    /\ scrBanner' = "none"
    /\ UNCHANGED <<scrKind, scrServer, scrShown, scrRead, scrLeft>>

\* The backend makes the move, or refuses it.
Handled(c) ==
    /\ scrCall[c].at = "sent"
    /\ \/ \E t \in Accepted(c) :
            /\ scrServer' = [scrServer EXCEPT ![scrCall[c].row] = t[3]]
            /\ scrCall' = [scrCall EXCEPT ![c].at = "done"]
       \/ /\ Refusable(c)
          /\ scrCall' = [scrCall EXCEPT ![c].at = "refused"]
          /\ scrServer' = Escalated({scrCall[c].row})
    /\ UNCHANGED <<scrKind, scrShown, scrBusy, scrBanner, scrRead, scrLeft>>

\* The connection breaks before the move, or after it, in the answer or in
\* the request for the names that follows it.
CallLost(c) ==
    /\ scrCall[c].at \in {"sent", "done"}
    /\ scrLeft.faults > 0
    /\ scrLeft' = [scrLeft EXCEPT !.faults = @ - 1]
    /\ scrCall' = [scrCall EXCEPT ![c].at = "failed"]
    /\ UNCHANGED <<scrKind, scrServer, scrShown, scrBusy, scrBanner, scrRead>>

\* await refresh()
CallDone(c) ==
    /\ scrCall[c].at = "done"
    /\ scrCall' = [scrCall EXCEPT ![c].at = "refresh"]
    /\ scrRead' = [scrRead EXCEPT ![c] = StartRead]
    /\ UNCHANGED <<scrKind, scrServer, scrShown, scrBusy, scrBanner, scrLeft>>

\* catch: the banner, and the button is free again.
CallFailed(c) ==
    /\ scrCall[c].at \in {"refused", "failed"}
    /\ scrKind # "users"
    /\ scrBanner' = "error"
    /\ EndsRefresh(c)
    /\ UNCHANGED <<scrKind, scrServer, scrShown, scrLeft>>

\* withBusy of the users screen refreshes after a failure too.
UsersCallFailed(c) ==
    /\ scrCall[c].at \in {"refused", "failed"}
    /\ scrKind = "users"
    /\ scrBanner' = "error"
    /\ scrCall' = [scrCall EXCEPT ![c].at = "refresh"]
    /\ scrRead' = [scrRead EXCEPT ![c] = StartRead]
    /\ UNCHANGED <<scrKind, scrServer, scrShown, scrBusy, scrLeft>>

SomebodyElse ==
    /\ scrLeft.moves > 0
    /\ \E r \in DOMAIN scrServer, t \in OtherMoves(scrKind) :
         /\ t[1] = scrServer[r]
         /\ ~LastAdmin(r, {q \in DOMAIN scrServer : scrServer[q] = "active"})
         /\ scrServer' = [scrServer EXCEPT ![r] = t[3]]
    /\ scrLeft' = [scrLeft EXCEPT !.moves = @ - 1]
    /\ UNCHANGED <<scrKind, scrShown, scrBusy, scrBanner, scrCall, scrRead>>

ScreensNext ==
    \/ \E p \in ScreenPolls : PollTick(p)
    \/ \E x \in ScreenCalls \cup ScreenPolls : ListAnswered(x) \/ Land(x) \/ RefreshFails(x)
    \/ \E c \in ScreenCalls : Click(c) \/ Handled(c) \/ CallLost(c) \/ CallDone(c) \/ CallFailed(c)
                              \/ UsersCallFailed(c)
    \/ SomebodyElse

ScreensSpec == ScreensInit /\ [][ScreensNext]_screenVars

-----------------------------------------------------------------------------
(* Properties *)

\* The types of the screen's state.
ScreensTypeOK ==
    /\ scrBanner \in {"none", "error"}
    /\ \A c \in ScreenCalls : scrCall[c].at \in {"idle", "sent", "done", "refused", "failed", "refresh"}
    /\ \A x \in scrShown : x[2] \in DOMAIN scrServer

\* The buttons that the screens offer and the backend always refuses: the
\* decision on one's own leave, the decision on a swap to somebody who does
\* not manage both sides, the requester's buttons to a swap's target.
Misoffered(a) ==
    \/ scrKind = "leave" /\ "owner" \in scrLeft.is /\ a \in {"approve", "reject"}
    \/ scrKind = "swaps" /\ "decider" \notin scrLeft.is /\ a \in {"approve", "reject"}
    \/ scrKind = "swaps" /\ "owner" \notin scrLeft.is /\ a \in {"to-manager", "cancel", "submit"}

(* But for these, and for approvals, which the backend vets anew (the       *)
(* screen says so), a click is refused only because a row has changed, or  *)
(* a consent's deadline has passed, since the screen looked: the buttons   *)
(* offered (mineActions, aiProposalActions, leaveActions, canRevoke,       *)
(* canManageUser) are moves of the backend's own tables.  What the caller  *)
(* is to the rows does not change meanwhile.                               *)
RefusedOnlyWhenStale ==
    [][\A c \in ScreenCalls :
          (scrCall[c].at = "sent" /\ scrCall'[c].at = "refused")
             => \/ Misoffered(scrCall[c].act) \/ VettedAnew(c)
                \/ \E x \in scrCall[c].saw : scrServer[x[2]] # x[3]]_screenVars

(* When a button becomes free again, the screen no longer shows the row as *)
(* it was clicked, or it says that something went wrong, whichever of the  *)
(* requests failed.  Not so the users screen, whose refresh after a        *)
(* failure clears the banner (users-screen.tsx, withBusy).                 *)
EndsTold ==
    [][\A c \in ScreenCalls :
          (scrKind # "users" /\ scrCall[c].at # "idle" /\ scrCall'[c].at = "idle")
             => scrBanner' = "error" \/ scrCall[c].saw \cap scrShown' = {}]_screenVars

-----------------------------------------------------------------------------
(* The inductive invariant                                                 *)

\* How far a row has come: no move of a backend leads back.
Progress(s) ==
    IF s \in {"DRAFT", "PENDING", "ACTIVE", "active"} THEN 0
    ELSE IF s \in {"PENDING_PEER", "PENDING_EMPLOYEE_CONSENT"} THEN 1
    ELSE IF s \in {"PEER_AGREED", "LAPSED"} THEN 2
    ELSE IF s = "PENDING_MANAGER" THEN 3
    ELSE 4

\* A list holds rows as the backend had them, in the states it asks for.
AsFetched(y) ==
    /\ y = <<y[1], y[2], y[3]>>
    /\ y[1] \in DOMAIN Fetches(scrKind) /\ Lists(y[1])
    /\ Fetches(scrKind)[y[1]] # {} => y[3] \in Fetches(scrKind)[y[1]]
    /\ y[2] \in DOMAIN scrServer
    /\ Progress(y[3]) <= Progress(scrServer[y[2]])

\* A call was offered by what the person saw.
Clicked(k) ==
    /\ \A y \in k.saw : AsFetched(y)
    /\ \E x \in k.saw : /\ k.row = x[2] /\ k.act \in Offered(x, k.saw)
                        /\ scrKind # "users" => k.saw = {x}

\* After a move the backend, and what a refresh has read since, is ahead of it.
Ahead(k, rows) ==
    /\ k.at \in {"done", "refresh"} => \A x \in k.saw : Progress(x[3]) < Progress(scrServer[x[2]])
    /\ k.at = "refresh" => \A x \in k.saw, y \in rows : y[2] = x[2] => Progress(x[3]) < Progress(y[3])

CallFits(c) ==
    /\ scrCall[c].at # "idle" => Clicked(scrCall[c])
    /\ scrKind # "users" => Ahead(scrCall[c], scrRead[c].rows)
    /\ scrRead[c].on => scrCall[c].at = "refresh"

\* Lists are of rows, calls of what was seen, refreshes of calls that are done.
ScreensInv ==
    /\ scrLeft.kind = scrKind /\ scrKind \in ScreenKinds
    /\ scrLeft = [kind |-> scrKind, rows |-> scrLeft.rows, is |-> scrLeft.is, polls |-> scrLeft.polls,
                  moves |-> scrLeft.moves, faults |-> scrLeft.faults]
    /\ scrKind = "leave" => "target" \notin scrLeft.is
    /\ scrServer = [r \in DOMAIN scrServer |-> scrServer[r]]
    /\ scrCall = [c \in ScreenCalls |-> [at |-> scrCall[c].at, row |-> scrCall[c].row,
                                         act |-> scrCall[c].act, saw |-> scrCall[c].saw]]
    /\ scrRead = [x \in ScreenCalls \cup ScreenPolls |->
                    [on |-> scrRead[x].on, todo |-> scrRead[x].todo, rows |-> scrRead[x].rows]]
    /\ \A x \in scrShown : AsFetched(x)
    /\ \A x \in ScreenCalls \cup ScreenPolls : \A y \in scrRead[x].rows : AsFetched(y)
    /\ \A x \in ScreenCalls \cup ScreenPolls : scrRead[x].todo \subseteq DOMAIN Fetches(scrKind)
    /\ \A c \in ScreenCalls : CallFits(c)
=============================================================================
