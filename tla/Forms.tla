------------------------------- MODULE Forms -------------------------------
(***************************************************************************)
(* The screens of the web client on which a person edits a form or chooses *)
(* what is shown (docs/design/web-kit/components):                         *)
(*   "profile"   the card of the employee in the address, with its form    *)
(*   "units"     the tree of units with one row open for editing           *)
(*   "company"   the company's form on the same screen                     *)
(*   "policy"    the form of the AI policy                                 *)
(*   "schedule"  a manager's week of shifts with its filter of units, the  *)
(*               solve, and an editor over it                              *)
(*   "costs"     the cost of one unit and week, and the form of a rate     *)
(* A request carries what the screen knew when it was sent; its answer is  *)
(* applied to whatever the screen shows by then.  A row is one value, that *)
(* of an employee two fields; what the forms refuse by themselves but a    *)
(* cycle, and the first read of the rates, are left out, and what a solve  *)
(* or a rate changes at the backend is in Grafik and Costs.                *)
(***************************************************************************)
EXTENDS Naturals, FiniteSets, Functions

CONSTANTS
    FormRequests,  \* bound on the requests under way at once
    FormCases,     \* a set of [kind, rows, more, choices, first, global, roster, clicks, moves, faults]: the
                   \* rows of the backend and those that may be added, what can be chosen and is at first,
                   \* whether the caller sees every unit, whether the employees, and so the units, are yet
                   \* to come, and how many clicks, moves of others and lost requests there are
    Nowhere        \* no parent, no unit, no result

VARIABLES
    frmCase,     \* the case, and what is left of its limits
    frmServer,   \* row -> its value at the backend
    frmShown,    \* row -> its value on the screen
    frmChosen,   \* the employee, or the unit (Nowhere: all of them) and week
    frmResult,   \* the choice that the solve or the cost on the screen is about
    frmEditor,   \* [on, new, form]: the row that is edited, is it yet to be made, and what has been typed
    frmTold,     \* what the screen says: "loadError", "createError", "error", "saved"
    frmLoading,  \* is the spinner shown?
    frmRequest,  \* id -> [what, of, body, at, answer, chosen, after, live]: the requests under way
    frmCrossed   \* history: "choice" if the last choice was made while an answer was awaited, "unit" if
                 \* the filter has been turned since the solve was sent, "editor" if the last row was
                 \* opened, or the last key pressed, during a save

formVars == <<frmCase, frmServer, frmShown, frmChosen, frmResult, frmEditor, frmTold, frmLoading, frmRequest, frmCrossed>>

Kind == frmCase.kind

Fields == {"unitId", "etat"}

Values == IF Kind = "profile" THEN [Fields -> {0, 1}] ELSE {0, 1}

Drop(f, x) == Restrict(f, DOMAIN f \ {x})

OneRow(x, v) == [y \in {x} |-> v]

\* The rows of g with those of f in their place or beside them.
Upon(f, g) == [x \in DOMAIN f \cup DOMAIN g |-> IF x \in DOMAIN f THEN f[x] ELSE g[x]]

-----------------------------------------------------------------------------
(* Requests *)

FormRequest(what, of, body) ==
    [what |-> what, of |-> of, body |-> body, at |-> "sent", answer |-> <<>>, chosen |-> frmChosen,
     after |-> "", live |-> TRUE]

UnusedId == CHOOSE i \in 1..FormRequests : i \notin DOMAIN frmRequest
                /\ \A j \in 1..FormRequests : j \notin DOMAIN frmRequest => i <= j

MaySend == \E i \in 1..FormRequests : i \notin DOMAIN frmRequest

Sends(request) == frmRequest' = Upon(OneRow(UnusedId, request), frmRequest)

FormAwaited(kinds) == \E i \in DOMAIN frmRequest : frmRequest[i].live /\ frmRequest[i].what \in kinds

AnyAwaited == \E i \in DOMAIN frmRequest : frmRequest[i].live

\* companySaving, savingUnit, submitting, editorBusy, savingRate: from the
\* click until the last request that follows it.
Saving == \E i \in DOMAIN frmRequest : /\ frmRequest[i].live
                                       /\ \/ frmRequest[i].what \in {"save", "delete", "rates"}
                                          \/ frmRequest[i].what = "create" /\ Kind = "schedule"
                                          \/ frmRequest[i].after = "save"

Crossed(how, it) == frmCrossed' = IF it THEN frmCrossed \cup {how} ELSE frmCrossed \ {how}

Solving == \E i \in DOMAIN frmRequest : frmRequest[i].what = "solve" \/ frmRequest[i].after = "solve"

FormClick == frmCase.clicks > 0 /\ frmCase' = [frmCase EXCEPT !.clicks = @ - 1]

Cell == "cell"  \* an empty cell of the week, where a shift may be added

NoEditor == [on |-> Nowhere, new |-> FALSE, form |-> Nowhere]

FormKinds == {"profile", "units", "company", "policy", "schedule", "costs"}

\* A case with its limits.  The company and the policy are read as a row also
\* before one has been saved.
IsFormCase(c) ==
    /\ c = [kind |-> c.kind, rows |-> c.rows, more |-> c.more, choices |-> c.choices, first |-> c.first,
            global |-> c.global, roster |-> c.roster, clicks |-> c.clicks, moves |-> c.moves, faults |-> c.faults]
    /\ c.kind \in FormKinds
    /\ IsFiniteSet(c.rows \cup c.more)
    /\ {Nowhere, Cell} \cap (c.rows \cup c.more) = {}
    /\ c.kind \in {"company", "policy"} => c.rows # {}

ASSUME FormsAssumption ==
    /\ FormRequests \in Nat \ {0}
    /\ \A c \in FormCases : IsFormCase(c)

FormsInit ==
    /\ frmCase \in FormCases
    /\ frmServer \in [frmCase.rows -> IF Kind = "units" THEN {Nowhere} ELSE IF Kind = "profile" THEN [Fields -> {0}] ELSE {0}]
    /\ frmShown = <<>>
    /\ frmChosen = frmCase.first
    /\ frmResult = Nowhere
    /\ frmEditor = NoEditor
    /\ frmTold = {}
    /\ frmLoading = TRUE
    /\ frmRequest = IF Kind = "costs" /\ ~frmCase.global THEN <<>>
                    ELSE OneRow(1, FormRequest(IF Kind = "costs" THEN "week" ELSE "load", frmChosen, Nowhere))
    /\ frmCrossed = {}

-----------------------------------------------------------------------------
(* The tree of units on the screen *)

\* The walk from the proposed parent towards the root: the place after n steps.
Ancestor(parents, p) ==
    LET up[n \in 0..Cardinality(DOMAIN parents)] ==
          IF n = 0 THEN p ELSE IF up[n - 1] \in DOMAIN parents THEN parents[up[n - 1]] ELSE Nowhere
    IN  up

wouldCreateCycle(parents, id, p) ==
    \E n \in 0..Cardinality(DOMAIN parents) : Ancestor(parents, p)[n] = id

\* The backend, by what its walk is for: no unit is its own ancestor.
ClosesCycle(parents) ==
    \E loop \in SUBSET DOMAIN parents : loop # {} /\ \A u \in loop : parents[u] \in loop

parentOptions(id) ==
    {Nowhere} \cup {u \in DOMAIN frmShown \ {id} : ~wouldCreateCycle(frmShown, id, u)}

-----------------------------------------------------------------------------
(* Choosing what is shown *)

\* Another employee in the address: the effect clears the card, and nothing
\* that is still awaited for the old one is looked at.
ChooseEmployee(e) ==
    /\ Kind = "profile" /\ FormClick /\ MaySend
    /\ frmChosen' = e
    /\ frmShown' = <<>>
    /\ frmEditor' = NoEditor
    /\ frmTold' = {}
    /\ frmLoading' = TRUE
    /\ frmRequest' = Upon(OneRow(UnusedId, FormRequest("load", e, Nowhere)),
                          [i \in DOMAIN frmRequest |-> [frmRequest[i] EXCEPT !.live = FALSE]])
    /\ frmCrossed' = {}
    /\ UNCHANGED <<frmServer, frmResult>>

\* Variant: the result of the last solve stays.
GoWeekKeepsResult(scope) ==
    /\ Kind = "schedule" /\ frmEditor.on = Nowhere /\ scope[1] = frmChosen[1] /\ FormClick
    /\ frmChosen' = scope
    /\ Crossed("choice", Solving)
    /\ UNCHANGED <<frmServer, frmShown, frmResult, frmEditor, frmTold, frmLoading, frmRequest>>

\* The editor lies over the whole screen, so the week is turned without it.
GoWeek(scope) ==
    /\ Kind = "schedule" /\ frmEditor.on = Nowhere /\ scope[1] = frmChosen[1] /\ FormClick
    /\ frmChosen' = scope
    /\ frmResult' = Nowhere
    /\ Crossed("choice", Solving)
    /\ UNCHANGED <<frmServer, frmShown, frmEditor, frmTold, frmLoading, frmRequest>>

\* The button "today" turns the week and leaves the result.
Today ==
    /\ Kind = "schedule" /\ frmEditor.on = Nowhere /\ FormClick
    /\ \E scope \in frmCase.choices \cup {frmCase.first} :
         scope[1] = frmChosen[1] /\ scope[2] = frmCase.first[2] /\ frmChosen' = scope
    /\ Crossed("choice", TRUE)
    /\ UNCHANGED <<frmServer, frmShown, frmResult, frmEditor, frmTold, frmLoading, frmRequest>>

\* The filter of units, those of the employees that have come: nothing is
\* asked for, and the result of a solve stays where it is, also one that is
\* still awaited.
ChooseUnit(scope) ==
    /\ Kind = "schedule" /\ frmEditor.on = Nowhere /\ ~frmCase.roster
    /\ scope[2] = frmChosen[2] /\ FormClick
    /\ frmChosen' = scope
    /\ Crossed("unit", Solving \/ frmResult # Nowhere)
    /\ UNCHANGED <<frmServer, frmShown, frmResult, frmEditor, frmTold, frmLoading, frmRequest>>

\* The banner of a solve is put away.
DismissResult ==
    /\ Kind = "schedule" /\ frmEditor.on = Nowhere /\ frmResult # Nowhere /\ FormClick
    /\ frmResult' = Nowhere
    /\ UNCHANGED <<frmServer, frmShown, frmChosen, frmEditor, frmTold, frmLoading, frmRequest, frmCrossed>>

\* loadWeek, for a unit and week: no sequence number, the last answer stays.
LoadWeek(scope) ==
    /\ Sends(FormRequest("week", scope, Nowhere))
    /\ frmLoading' = TRUE
    /\ frmTold' = frmTold \ {"loadError"}

\* Only those who see every unit can choose all of them; the other units
\* are known when the employees have come.
ChooseScope(scope) ==
    /\ Kind = "costs" /\ FormClick /\ MaySend
    /\ IF frmCase.roster THEN scope[1] = Nowhere ELSE scope[1] # Nowhere \/ frmCase.global
    /\ frmChosen' = scope
    /\ IF scope[1] = Nowhere /\ ~frmCase.global
       THEN UNCHANGED <<frmTold, frmLoading, frmRequest>>
       ELSE LoadWeek(scope)
    /\ Crossed("choice", AnyAwaited)
    /\ UNCHANGED <<frmServer, frmShown, frmResult, frmEditor>>

\* The employees arrive, and with them the units: the first is chosen.
RosterArrives ==
    /\ Kind = "costs" /\ frmCase.roster /\ MaySend
    /\ frmCase' = [frmCase EXCEPT !.roster = FALSE]
    /\ \E scope \in frmCase.choices :
         /\ scope[1] # Nowhere /\ scope[2] = frmChosen[2]
         /\ frmChosen' = scope
         /\ LoadWeek(scope)
    /\ Crossed("choice", AnyAwaited)
    /\ UNCHANGED <<frmServer, frmShown, frmResult, frmEditor>>

Chooses == \E x \in frmCase.choices \ {frmChosen} :
             ChooseEmployee(x) \/ GoWeek(x) \/ ChooseUnit(x) \/ ChooseScope(x)

-----------------------------------------------------------------------------
(* Editing *)

\* The rows that can be opened: any other unit, and with the editor closed
\* the employee shown, a shift or an empty cell.
Openable ==
    IF frmLoading \/ Kind \notin {"profile", "units", "schedule"} THEN {}
    ELSE IF Kind = "units" THEN IF "loadError" \in frmTold THEN {} ELSE DOMAIN frmShown \ {frmEditor.on}
    ELSE IF frmEditor.on # Nowhere THEN {}
    ELSE IF Kind = "schedule" THEN DOMAIN frmShown \cup {Cell}
    ELSE DOMAIN frmShown

StartEdit(r) ==
    /\ r \in Openable /\ FormClick
    /\ r = Cell => frmCase.more \ DOMAIN frmServer # {}
    /\ frmEditor' = [on |-> r, new |-> r = Cell, form |-> IF r = Cell THEN 0 ELSE frmShown[r]]
    /\ frmTold' = frmTold \ {"error", "saved"}
    /\ Crossed("editor", Saving)
    /\ UNCHANGED <<frmServer, frmShown, frmChosen, frmResult, frmLoading, frmRequest>>

\* cancelEdit, onCancel, onClose: only the cross and the backdrop of the
\* shift editor work while a save is under way.
CancelEdit ==
    /\ Kind \in {"profile", "units", "schedule"}
    /\ frmEditor.on # Nowhere
    /\ Saving => Kind = "schedule"
    /\ FormClick
    /\ frmEditor' = NoEditor
    /\ frmTold' = frmTold \ {"error"}
    /\ UNCHANGED <<frmServer, frmShown, frmChosen, frmResult, frmLoading, frmRequest, frmCrossed>>

Type ==
    /\ frmEditor.on # Nowhere /\ FormClick
    /\ \E v \in (IF Kind = "units" THEN parentOptions(frmEditor.on) ELSE Values) \ {frmEditor.form} :
         frmEditor' = [frmEditor EXCEPT !.form = v]
    /\ frmTold' = CASE Kind = "company" -> frmTold \ {"saved"}
                    [] Kind = "policy" -> frmTold \ {"saved", "error"}
                    [] OTHER -> frmTold
    /\ Crossed("editor", Saving \/ "editor" \in frmCrossed)
    /\ UNCHANGED <<frmServer, frmShown, frmChosen, frmResult, frmLoading, frmRequest>>

\* Variant: the whole form is sent.
buildEmployeePatchWhole(form, profile) == form

\* buildEmployeePatch: the fields that differ from the card.
buildEmployeePatch(form, profile) == [f \in {g \in Fields : form[g] # profile[g]} |-> form[f]]

\* What a save sends: the difference of an employee, otherwise the form.
Body ==
    IF Kind = "profile" THEN buildEmployeePatch(frmEditor.form, frmShown[frmEditor.on]) ELSE frmEditor.form

\* handleSaveUnit, handleCompanySubmit, handleSubmit, submit, submitShift.
Save ==
    /\ frmEditor.on # Nowhere /\ ~Saving /\ MaySend /\ FormClick
    /\ IF Kind = "units" /\ wouldCreateCycle(frmShown, frmEditor.on, frmEditor.form)
       THEN frmTold' = frmTold \cup {"error"} /\ UNCHANGED <<frmRequest, frmCrossed>>
       ELSE /\ Sends(FormRequest(IF frmEditor.new THEN "create" ELSE "save",
                          frmEditor.on, Body))
            /\ frmTold' = frmTold \ {"error", "saved"}
            /\ Crossed("editor", FALSE)
    /\ UNCHANGED <<frmServer, frmShown, frmChosen, frmResult, frmEditor, frmLoading>>

deleteShift ==
    /\ Kind = "schedule" /\ frmEditor.on # Nowhere /\ ~frmEditor.new /\ ~Saving /\ MaySend /\ FormClick
    /\ Sends(FormRequest("delete", frmEditor.on, Nowhere))
    /\ frmTold' = frmTold \ {"error"}
    /\ Crossed("editor", FALSE)
    /\ UNCHANGED <<frmServer, frmShown, frmChosen, frmResult, frmEditor, frmLoading>>

\* handleCreateUnit: a form of its own below the tree.
handleCreateUnit ==
    /\ Kind = "units" /\ ~frmLoading /\ "loadError" \notin frmTold
    /\ ~FormAwaited({"create"}) /\ frmCase.more \ DOMAIN frmServer # {} /\ MaySend /\ FormClick
    /\ \E p \in {Nowhere} \cup DOMAIN frmShown : Sends(FormRequest("create", Nowhere, p))
    /\ frmTold' = frmTold \ {"createError"}
    /\ UNCHANGED <<frmServer, frmShown, frmChosen, frmResult, frmEditor, frmLoading, frmCrossed>>

\* submitRate: the form of a rate beside the costs, for those who see it.
submitRate(r) ==
    /\ Kind = "costs" /\ frmCase.global /\ ~Saving /\ MaySend /\ FormClick
    /\ \E v \in Values : Sends(FormRequest("save", r, v))
    /\ frmTold' = frmTold \ {"error", "saved"}
    /\ UNCHANGED <<frmServer, frmShown, frmChosen, frmResult, frmEditor, frmLoading, frmCrossed>>

\* The solve is asked for the week and, but for all of them, the unit chosen.
generate ==
    /\ Kind = "schedule" /\ frmEditor.on = Nowhere /\ ~Solving /\ ~frmLoading /\ MaySend /\ FormClick
    /\ Sends(FormRequest("solve", frmChosen, Nowhere))
    /\ frmResult' = Nowhere
    /\ frmTold' = frmTold \ {"loadError"}
    /\ frmCrossed' = frmCrossed \ {"choice", "unit"}
    /\ UNCHANGED <<frmServer, frmShown, frmChosen, frmEditor, frmLoading>>

\* The button beside the error of a load.
Retry ==
    /\ Kind \in {"units", "company", "policy", "schedule"} /\ "loadError" \in frmTold /\ ~frmLoading
    /\ MaySend /\ FormClick
    /\ Sends(FormRequest("load", frmChosen, Nowhere))
    /\ frmLoading' = TRUE
    /\ frmTold' = frmTold \ {"loadError"}
    /\ UNCHANGED <<frmServer, frmShown, frmChosen, frmResult, frmEditor, frmCrossed>>

-----------------------------------------------------------------------------
(* The backend *)

Reads == {"load", "reload", "week", "rates", "solve"}

Patched(row, patch) == [f \in DOMAIN row |-> IF f \in DOMAIN patch THEN patch[f] ELSE row[f]]

\* What the rows become, with the answer; nothing if the backend refuses.
Outcome(q) ==
    CASE q.what \in Reads -> {[rows |-> frmServer, answer |-> frmServer]}
      [] q.what = "delete" ->
           {[rows |-> Drop(frmServer, r), answer |-> <<>>] : r \in DOMAIN frmServer \cap {q.of}}
      [] q.what = "create" ->
           {[rows |-> Upon(OneRow(r, q.body), frmServer), answer |-> OneRow(r, q.body)] : r \in frmCase.more \ DOMAIN frmServer}
      [] q.what = "save" ->
           {o \in {LET v == IF Kind = "profile" THEN Patched(frmServer[r], q.body) ELSE q.body
                   IN  [rows |-> Upon(OneRow(r, v), frmServer), answer |-> OneRow(r, v)] : r \in DOMAIN frmServer \cap {q.of}} :
              Kind = "units" => ~ClosesCycle(o.rows)}

FormHandled(i) ==
    /\ frmRequest[i].at = "sent"
    /\ \/ \E outcome \in Outcome(frmRequest[i]) :
            /\ frmServer' = outcome.rows
            /\ frmRequest' = [frmRequest EXCEPT ![i].at = "answered", ![i].answer = outcome.answer]
       \/ /\ Outcome(frmRequest[i]) = {}
          /\ frmRequest' = [frmRequest EXCEPT ![i].at = "failed"]
          /\ UNCHANGED frmServer
    /\ UNCHANGED <<frmCase, frmShown, frmChosen, frmResult, frmEditor, frmTold, frmLoading, frmCrossed>>

\* A request is lost before the backend has it, or its answer is.
FormLost(i) ==
    /\ frmRequest[i].at \in {"sent", "answered"}
    /\ frmCase.faults > 0
    /\ frmCase' = [frmCase EXCEPT !.faults = @ - 1]
    /\ frmRequest' = [frmRequest EXCEPT ![i].at = "failed"]
    /\ UNCHANGED <<frmServer, frmShown, frmChosen, frmResult, frmEditor, frmTold, frmLoading, frmCrossed>>

SomebodyEdits ==
    /\ frmCase.moves > 0
    /\ frmCase' = [frmCase EXCEPT !.moves = @ - 1]
    /\ \E r \in DOMAIN frmServer :
         CASE Kind = "profile" -> \E f \in Fields : frmServer' = [frmServer EXCEPT ![r][f] = 1 - @]
           [] Kind = "units" -> \E p \in DOMAIN frmServer : /\ frmServer' = [frmServer EXCEPT ![r] = p]
                                                            /\ ~ClosesCycle(frmServer')
           [] Kind = "schedule" -> frmServer' = Drop(frmServer, r)
           [] OTHER -> frmServer' = [frmServer EXCEPT ![r] = 1 - @]
    /\ UNCHANGED <<frmShown, frmChosen, frmResult, frmEditor, frmTold, frmLoading, frmRequest, frmCrossed>>

-----------------------------------------------------------------------------
(* Answers *)

Answered(i, kinds, whats) ==
    frmRequest[i].at = "answered" /\ frmRequest[i].live /\ Kind \in kinds /\ frmRequest[i].what \in whats

RequestEnds(i) == frmRequest' = Drop(frmRequest, i)

\* The next request of the same handler.
GoesOn(i, what, of, after) ==
    frmRequest' = [frmRequest EXCEPT ![i] = [FormRequest(what, of, Nowhere) EXCEPT !.chosen = frmRequest[i].chosen, !.after = after]]

\* Nothing is done with the answers for a card that has been left.
AnswerDropped(i) ==
    /\ frmRequest[i].at \in {"answered", "failed"} /\ ~frmRequest[i].live
    /\ RequestEnds(i)
    /\ UNCHANGED <<frmCase, frmServer, frmShown, frmChosen, frmResult, frmEditor, frmTold, frmLoading, frmCrossed>>

LoadAnswer(i) ==
    /\ Answered(i, {"profile", "units", "company", "policy"}, {"load"})
    /\ frmShown' = IF Kind = "profile" THEN Restrict(frmRequest[i].answer, DOMAIN frmRequest[i].answer \cap {frmRequest[i].of}) ELSE frmRequest[i].answer
    /\ frmEditor' = IF Kind \notin {"company", "policy"} THEN frmEditor
                    ELSE LET r == CHOOSE x \in DOMAIN frmShown' : TRUE IN [on |-> r, new |-> FALSE, form |-> frmShown'[r]]
    /\ frmLoading' = FALSE
    /\ RequestEnds(i)
    /\ UNCHANGED <<frmCase, frmServer, frmChosen, frmResult, frmTold, frmCrossed>>

\* The employees come with the shifts.
ScheduleLoaded(i) ==
    /\ Answered(i, {"schedule"}, {"load"})
    /\ frmCase' = [frmCase EXCEPT !.roster = FALSE]
    /\ frmShown' = frmRequest[i].answer
    /\ frmLoading' = FALSE
    /\ RequestEnds(i)
    /\ UNCHANGED <<frmServer, frmChosen, frmResult, frmEditor, frmTold, frmCrossed>>

\* onSaved of the card; the row replaces the old one and the editor closes.
SaveAnswer(i) ==
    /\ Answered(i, {"profile", "units"}, {"save"})
    /\ frmShown' = Upon(frmRequest[i].answer, frmShown)
    /\ frmEditor' = NoEditor
    /\ frmTold' = IF Kind = "profile" THEN frmTold \cup {"saved"} ELSE frmTold
    /\ RequestEnds(i)
    /\ UNCHANGED <<frmCase, frmServer, frmChosen, frmResult, frmLoading, frmCrossed>>

\* The company's form takes the row that was saved, the policy's stays.
FormSaved(i) ==
    /\ Answered(i, {"company", "policy"}, {"save"})
    /\ frmEditor' = IF Kind = "company" THEN [frmEditor EXCEPT !.form = frmRequest[i].answer[frmRequest[i].of]] ELSE frmEditor
    /\ frmTold' = frmTold \cup {"saved"}
    /\ RequestEnds(i)
    /\ UNCHANGED <<frmCase, frmServer, frmShown, frmChosen, frmResult, frmLoading, frmCrossed>>

UnitCreated(i) ==
    /\ Answered(i, {"units"}, {"create"})
    /\ frmShown' = Upon(frmRequest[i].answer, frmShown)
    /\ RequestEnds(i)
    /\ UNCHANGED <<frmCase, frmServer, frmChosen, frmResult, frmEditor, frmTold, frmLoading, frmCrossed>>

\* await reloadSchedule()
ShiftSaved(i) ==
    /\ Answered(i, {"schedule"}, {"save", "create", "delete"})
    /\ GoesOn(i, "reload", frmRequest[i].of, "save")
    /\ UNCHANGED <<frmCase, frmServer, frmShown, frmChosen, frmResult, frmEditor, frmTold, frmLoading, frmCrossed>>

Solved(i) ==
    /\ Answered(i, {"schedule"}, {"solve"})
    /\ frmResult' = frmRequest[i].of
    /\ GoesOn(i, "reload", frmRequest[i].of, "solve")
    /\ UNCHANGED <<frmCase, frmServer, frmShown, frmChosen, frmEditor, frmTold, frmLoading, frmCrossed>>

Reloaded(i) ==
    /\ Answered(i, {"schedule"}, {"reload"})
    /\ frmShown' = frmRequest[i].answer
    /\ frmEditor' = IF frmRequest[i].after = "save" THEN NoEditor ELSE frmEditor
    /\ RequestEnds(i)
    /\ UNCHANGED <<frmCase, frmServer, frmChosen, frmResult, frmTold, frmLoading, frmCrossed>>

RateSaved(i) ==
    /\ Answered(i, {"costs"}, {"save"})
    /\ frmTold' = frmTold \cup {"saved"}
    /\ GoesOn(i, "rates", frmRequest[i].of, "save")
    /\ UNCHANGED <<frmCase, frmServer, frmShown, frmChosen, frmResult, frmEditor, frmLoading, frmCrossed>>

\* loadRates swallows its failure; then loadWeek, for the unit and week that
\* were chosen when the rate was submitted.
RatesEnd(i) ==
    /\ frmRequest[i].what = "rates" /\ frmRequest[i].at \in {"answered", "failed"}
    /\ frmShown' = IF frmRequest[i].at = "answered" THEN frmRequest[i].answer ELSE frmShown
    /\ frmLoading' = TRUE
    /\ frmTold' = frmTold \ {"loadError"}
    /\ GoesOn(i, "week", frmRequest[i].chosen, "save")
    /\ UNCHANGED <<frmCase, frmServer, frmChosen, frmResult, frmEditor, frmCrossed>>

WeekAnswer(i) ==
    /\ Answered(i, {"costs"}, {"week"})
    /\ frmResult' = frmRequest[i].of
    /\ frmLoading' = FALSE
    /\ RequestEnds(i)
    /\ UNCHANGED <<frmCase, frmServer, frmShown, frmChosen, frmEditor, frmTold, frmCrossed>>

\* The catch of a load, of a solve with its reload, or of a save with its.
RequestFails(i) ==
    /\ frmRequest[i].at = "failed" /\ frmRequest[i].live /\ frmRequest[i].what # "rates"
    /\ frmTold' = frmTold \cup {IF frmRequest[i].what \in {"load", "week", "solve"} \/ frmRequest[i].after = "solve"
                                 THEN "loadError"
                                 ELSE IF Kind = "units" /\ frmRequest[i].what = "create" THEN "createError" ELSE "error"}
    /\ frmLoading' = (frmLoading /\ frmRequest[i].what \notin {"load", "week"})
    /\ RequestEnds(i)
    /\ UNCHANGED <<frmCase, frmServer, frmShown, frmChosen, frmResult, frmEditor, frmCrossed>>

FormsNext ==
    \/ Chooses \/ Today \/ DismissResult \/ RosterArrives
    \/ \E r \in frmCase.rows \cup frmCase.more \cup {Cell} : StartEdit(r)
    \/ CancelEdit \/ Type \/ Save \/ deleteShift \/ handleCreateUnit \/ generate \/ Retry
    \/ \E r \in frmCase.rows : submitRate(r)
    \/ \E i \in DOMAIN frmRequest :
         \/ FormHandled(i) \/ FormLost(i) \/ AnswerDropped(i) \/ RequestFails(i)
         \/ LoadAnswer(i) \/ ScheduleLoaded(i) \/ SaveAnswer(i) \/ FormSaved(i) \/ UnitCreated(i)
         \/ ShiftSaved(i) \/ Solved(i) \/ Reloaded(i)
         \/ RateSaved(i) \/ RatesEnd(i) \/ WeekAnswer(i)
    \/ SomebodyEdits

FormsSpec == FormsInit /\ [][FormsNext]_formVars

-----------------------------------------------------------------------------
(* Properties *)

\* The types of the screens' state.
FormsTypeOK ==
    /\ frmTold \subseteq {"loadError", "createError", "error", "saved"}
    /\ frmLoading \in BOOLEAN
    /\ frmCrossed \subseteq {"choice", "unit", "editor"}
    /\ frmChosen \in frmCase.choices \cup {frmCase.first}
    /\ frmResult \in frmCase.choices \cup {frmCase.first, Nowhere}
    /\ frmEditor.on \in frmCase.rows \cup frmCase.more \cup {Nowhere, Cell}
    /\ DOMAIN frmShown \cup DOMAIN frmServer \subseteq frmCase.rows \cup frmCase.more
    /\ DOMAIN frmRequest \subseteq 1..FormRequests

\* A solve is of the week chosen, unless that was turned during the solve or
\* by "today", and of the unit chosen, unless the filter has been turned
\* since: what is on the screen then says nothing of the unit.
SolveFits(of) ==
    /\ of[2] = frmChosen[2] \/ "choice" \in frmCrossed
    /\ of[1] = frmChosen[1] \/ "unit" \in frmCrossed

\* The card is never another employee's; a cost on the screen is that of the
\* unit and week chosen, unless the choice was changed under a request; a
\* solve on the screen fits.
ShowsTheChosen ==
    CASE Kind = "profile" -> DOMAIN frmShown \subseteq {frmChosen}
      [] Kind = "costs" -> \/ frmLoading \/ "loadError" \in frmTold \/ "choice" \in frmCrossed
                           \/ frmResult \in {frmChosen, Nowhere}
      [] Kind = "schedule" -> frmResult = Nowhere \/ SolveFits(frmResult)
      [] OTHER -> TRUE

\* Where "saved" is said, the form holds what was saved, unless somebody
\* typed while it was.
SaidSaved ==
    (Kind \in {"company", "policy"} /\ "saved" \in frmTold')
       => IF "saved" \in frmTold THEN frmEditor'.form = frmEditor.form
          ELSE (Kind = "policy" /\ "editor" \in frmCrossed) \/ \E i \in DOMAIN frmRequest : frmEditor'.form = frmRequest[i].body

\* An editor that an answer closes is the one whose save it answers, unless
\* another was opened while the save was under way.
ClosesItsOwn ==
    \A i \in DOMAIN frmRequest :
       (frmRequest[i].live /\ frmRequest[i].at = "answered" /\ i \notin DOMAIN frmRequest' /\ frmEditor.on # Nowhere /\ frmEditor'.on = Nowhere)
          => frmRequest[i].of = frmEditor.on \/ "editor" \in frmCrossed

\* A save of a card changes no field that has not been edited there, whatever
\* has been saved by others since the card was loaded.
UntouchedKept ==
    \A i \in DOMAIN frmRequest :
       (/\ Kind = "profile" /\ frmRequest[i].live /\ "editor" \notin frmCrossed
        /\ frmRequest[i].what = "save" /\ frmRequest[i].at = "sent" /\ frmRequest'[i].at = "answered")
          => \A f \in Fields : frmServer'[frmChosen][f] # frmServer[frmChosen][f]
                                  => frmEditor.form[f] # frmShown[frmChosen][f]

\* The backend refuses a parent only when the tree has changed since the
\* screen loaded it.
ParentsAccepted ==
    \A i \in DOMAIN frmRequest :
       (Kind = "units" /\ frmRequest[i].at = "sent" /\ Outcome(frmRequest[i]) = {}) => frmServer # frmShown

(* What a form screen shows, says, closes and saves belongs together, as   *)
(* long as nobody chooses or types under an open request (the employee's   *)
(* card even then) and, for a solve, the filter and "today" stay untouched *)
(* after it.                                                               *)
FormsAgree == [][ShowsTheChosen' /\ SaidSaved /\ ClosesItsOwn /\ UntouchedKept /\ ParentsAccepted]_formVars

-----------------------------------------------------------------------------
(* Why FormsAgree holds, screen by screen *)

Rows == frmCase.rows \cup frmCase.more

Choosable == frmCase.choices \cup {frmCase.first}

IsRequest(q) ==
    /\ DOMAIN q = {"what", "of", "body", "at", "answer", "chosen", "after", "live"}
    /\ q.what \in Reads \cup {"save", "create", "delete"}
    /\ q.at \in {"sent", "answered", "failed"}
    /\ q.live \in BOOLEAN /\ (q.live \/ Kind = "profile")
    /\ q.chosen \in Choosable
    /\ q.what \in {"week", "solve"} => q.of \in Choosable
    /\ q.at = "answered" => DOMAIN q.answer \subseteq Rows

FormsShape ==
    /\ IsFormCase(frmCase)
    /\ frmEditor = [on |-> frmEditor.on, new |-> frmEditor.new, form |-> frmEditor.form]
    /\ \A i \in DOMAIN frmRequest : IsRequest(frmRequest[i])

\* What is awaited for a card is one request: its load, which no form is open
\* beside, or the save of the form, which holds what was typed until it ends.
CardAwaits(q) ==
    /\ q.of = frmChosen
    /\ q.what = "load" => frmLoading
    /\ q.what = "save" =>
         /\ frmEditor.on = frmChosen /\ frmChosen # Nowhere
         /\ q.at = "answered" => DOMAIN q.answer \subseteq {frmChosen}
         /\ (q.at = "sent" /\ "editor" \notin frmCrossed)
              => \A f \in DOMAIN q.body : frmEditor.form[f] # frmShown[frmChosen][f]

ProfileInv == Kind = "profile" =>
    /\ \A r \in DOMAIN frmServer : DOMAIN frmServer[r] = Fields
    /\ DOMAIN frmShown \subseteq {frmChosen}
    /\ ~frmEditor.new
    /\ frmEditor.on # Nowhere => frmEditor.on \in DOMAIN frmShown /\ ~frmLoading
    /\ \A i \in DOMAIN frmRequest : /\ frmRequest[i].what \in {"load", "save"} /\ frmRequest[i].after = ""
                                    /\ frmRequest[i].live => CardAwaits(frmRequest[i])
    /\ \A i, j \in DOMAIN frmRequest : frmRequest[i].live /\ frmRequest[j].live => i = j

\* Every walk towards the root ends.
IsForest(parents) ==
    (\A u \in DOMAIN parents : parents[u] \in DOMAIN parents \cup {Nowhere}) /\ ~ClosesCycle(parents)

Loaded == ~frmLoading /\ "loadError" \notin frmTold

\* Requests of one kind come one at a time, and the tree is not loaded while
\* it is edited: a save fits the tree on the screen, and an answered create is
\* a unit that the screen does not have yet.
TreeAwaits(q) ==
    /\ q.what \in {"load", "save", "create"} /\ q.after = ""
    /\ q.what = "load" =>
         /\ frmLoading /\ "loadError" \notin frmTold
         /\ q.at = "answered" => IsForest(q.answer) /\ DOMAIN q.answer \subseteq DOMAIN frmServer
    /\ q.what \in {"save", "create"} => Loaded /\ q.body \in DOMAIN frmShown \cup {Nowhere}
    /\ q.what = "save" =>
         /\ q.of \in DOMAIN frmShown
         /\ ~ClosesCycle(Upon(OneRow(q.of, q.body), frmShown))
         /\ q.at = "answered" => q.answer = OneRow(q.of, q.body)
         /\ frmEditor.on \in {Nowhere, q.of} \/ "editor" \in frmCrossed
    /\ q.what = "create" =>
         /\ q.at = "sent" => frmCase.more \ DOMAIN frmServer # {}
         /\ q.at = "answered" => \E r \in DOMAIN frmServer \ DOMAIN frmShown : q.answer = OneRow(r, q.body)

OneOfEach == \A i, j \in DOMAIN frmRequest : frmRequest[i].what = frmRequest[j].what => i = j

UnitsInv == Kind = "units" =>
    /\ IsForest(frmServer) /\ IsForest(frmShown)
    /\ DOMAIN frmShown \subseteq DOMAIN frmServer
    /\ ~frmEditor.new
    /\ frmEditor.on # Nowhere =>
         Loaded /\ frmEditor.on \in DOMAIN frmShown /\ frmEditor.form \in DOMAIN frmShown \cup {Nowhere}
    /\ \A i \in DOMAIN frmRequest : TreeAwaits(frmRequest[i])
    /\ OneOfEach

\* The one form of a page is there from the load to the end, and "saved" is
\* not said before the save that is under way has ended.
PageAwaits(q) ==
    /\ q.what \in {"load", "save"} /\ q.after = ""
    /\ q.what = "load" => /\ frmLoading /\ "loadError" \notin frmTold
                          /\ q.at = "answered" => DOMAIN q.answer = frmCase.rows
    /\ q.what = "save" =>
         /\ frmEditor.on # Nowhere /\ "saved" \notin frmTold
         /\ q.at = "answered" => q.answer = OneRow(q.of, q.body)
         /\ (Kind = "policy" /\ "editor" \notin frmCrossed) => frmEditor.form = q.body

PageInv == Kind \in {"company", "policy"} =>
    /\ DOMAIN frmServer = frmCase.rows
    /\ ~frmEditor.new
    /\ frmEditor.on # Nowhere => Loaded
    /\ "saved" \in frmTold => frmEditor.on # Nowhere
    /\ \A i \in DOMAIN frmRequest : PageAwaits(frmRequest[i])
    /\ OneOfEach

\* A save, with the reload that follows, is about the open editor, and a solve
\* about the unit and week, unless somebody has gone on meanwhile.
WeekAwaits(q) ==
    /\ q.what \in {"load", "save", "create", "delete", "reload", "solve"}
    /\ (q.what \in {"save", "create", "delete"} \/ q.after = "save")
         => frmEditor.on \in {Nowhere, q.of} \/ "editor" \in frmCrossed
    /\ q.what = "solve" => SolveFits(q.of)

ScheduleInv == Kind = "schedule" =>
    /\ \A i \in DOMAIN frmRequest : WeekAwaits(frmRequest[i])
    /\ frmResult = Nowhere \/ SolveFits(frmResult)

\* What is awaited leads to the cost of the unit and week chosen, unless the
\* choice has been changed meanwhile.
CostAwaits(q) ==
    /\ q.what \in {"week", "save", "rates"}
    /\ "choice" \notin frmCrossed => IF q.what = "week" THEN q.of = frmChosen ELSE q.chosen = frmChosen

CostFormInv == Kind = "costs" =>
    /\ frmEditor.on = Nowhere
    /\ \A i \in DOMAIN frmRequest : CostAwaits(frmRequest[i])
    /\ frmCase.roster /\ ~frmCase.global => DOMAIN frmRequest = {} /\ frmLoading
    /\ \/ frmLoading \/ "loadError" \in frmTold \/ "choice" \in frmCrossed
       \/ frmResult \in {frmChosen, Nowhere}

FormsInv == FormsShape /\ ProfileInv /\ UnitsInv /\ PageInv /\ ScheduleInv /\ CostFormInv
=============================================================================
