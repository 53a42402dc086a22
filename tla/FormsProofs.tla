----------------------------- MODULE FormsProofs ----------------------------
(***************************************************************************)
(* The screens with a form, for every set of rows and choices, any number  *)
(* of requests under way and any clicks, changes by others and failures:   *)
(* an answer is shown where it was asked for, and a save is of what was    *)
(* typed.                                                                  *)
(***************************************************************************)
EXTENDS Forms, FiniteSetTheorems, TLAPS

(* The screens with a form *)

\* A set of naturals has a least element.
LEMMA LeastIn ==
  ASSUME NEW T \in SUBSET Nat, T # {}
  PROVE  \E x \in T : \A y \in T : x <= y
  <1> DEFINE R == OpToRel(<, Nat)
  <1>1. IsWellFoundedOn(R, Nat)
    BY NatLessThanWellFounded
  <1> HIDE DEF R
  <1>2. PICK x \in T : \A y \in T : <<y, x>> \notin R
    BY <1>1, WFMin
  <1>3. ASSUME NEW y \in T PROVE ~(y < x)
    BY <1>2 DEF R, OpToRel
  <1> QED
    BY <1>2, <1>3

\* What a step leaves of a case: only its limits change.
SameCase ==
    /\ frmCase'.kind = frmCase.kind /\ frmCase'.rows = frmCase.rows /\ frmCase'.more = frmCase.more
    /\ frmCase'.choices = frmCase.choices /\ frmCase'.first = frmCase.first
    /\ frmCase'.global = frmCase.global /\ IsFormCase(frmCase')

LEMMA LimitsSpent ==
  ASSUME FormsShape, NEW n,
         \/ frmCase' = [frmCase EXCEPT !.clicks = n] \/ frmCase' = [frmCase EXCEPT !.moves = n]
         \/ frmCase' = [frmCase EXCEPT !.faults = n] \/ frmCase' = [frmCase EXCEPT !.roster = n]
         \/ frmCase' = frmCase
  PROVE  SameCase /\ (frmCase'.roster = frmCase.roster \/ frmCase'.roster = n)
  BY DEF FormsShape, IsFormCase, SameCase

LEMMA ClickSpent == ASSUME FormsShape, FormClick PROVE SameCase /\ frmCase'.roster = frmCase.roster
  BY DEF FormsShape, IsFormCase, SameCase, FormClick

LEMMA StillCase == ASSUME FormsShape, UNCHANGED frmCase PROVE SameCase /\ frmCase'.roster = frmCase.roster
  BY DEF FormsShape, IsFormCase, SameCase

LEMMA FreshId ==
  ASSUME MaySend
  PROVE  UnusedId \in 1..FormRequests /\ UnusedId \notin DOMAIN frmRequest
  <1> DEFINE T == {i \in 1..FormRequests : i \notin DOMAIN frmRequest}
  <1>1. T \in SUBSET Nat /\ T # {}
    BY FormsAssumption DEF MaySend
  <1>2. \E x \in T : \A y \in T : x <= y
    <2> HIDE DEF T
    <2> QED
      BY <1>1, LeastIn
  <1> QED
    BY <1>2 DEF UnusedId

\* The requests but x stay as they are.
OthersStay(x) ==
    \A j \in DOMAIN frmRequest' \ {x} : j \in DOMAIN frmRequest /\ frmRequest'[j] = frmRequest[j]

LEMMA UponOne ==
  ASSUME NEW f, NEW x, NEW v
  PROVE  /\ DOMAIN Upon(OneRow(x, v), f) = DOMAIN f \cup {x}
         /\ Upon(OneRow(x, v), f)[x] = v
         /\ \A y \in DOMAIN f \ {x} : Upon(OneRow(x, v), f)[y] = f[y]
  BY DEF Upon, OneRow

LEMMA SendsOne ==
  ASSUME MaySend, NEW q, Sends(q)
  PROVE  /\ UnusedId \in 1..FormRequests /\ UnusedId \notin DOMAIN frmRequest
         /\ DOMAIN frmRequest' = DOMAIN frmRequest \cup {UnusedId}
         /\ frmRequest'[UnusedId] = q
         /\ OthersStay(UnusedId)
  <1>1. frmRequest' = Upon(OneRow(UnusedId, q), frmRequest)
    BY DEF Sends
  <1>2. /\ DOMAIN frmRequest' = DOMAIN frmRequest \cup {UnusedId}
        /\ frmRequest'[UnusedId] = q
        /\ OthersStay(UnusedId)
    BY <1>1 DEF Upon, OneRow, OthersStay
  <1> QED
    BY <1>2, FreshId

LEMMA EndsOne ==
  ASSUME NEW i \in DOMAIN frmRequest, RequestEnds(i)
  PROVE  DOMAIN frmRequest' = DOMAIN frmRequest \ {i} /\ OthersStay(i)
  BY DEF RequestEnds, Drop, Restrict, OthersStay

LEMMA GoesOnOne ==
  ASSUME NEW i \in DOMAIN frmRequest, NEW what, NEW of, NEW after, GoesOn(i, what, of, after)
  PROVE  /\ DOMAIN frmRequest' = DOMAIN frmRequest
         /\ frmRequest'[i] = [what |-> what, of |-> of, body |-> Nowhere, at |-> "sent", answer |-> <<>>,
                              chosen |-> frmRequest[i].chosen, after |-> after, live |-> TRUE]
         /\ OthersStay(i)
  BY DEF GoesOn, FormRequest, OthersStay

LEMMA AllRequests ==
  ASSUME FormsTypeOK, FormsShape, NEW x \in 1..FormRequests, OthersStay(x),
         x \in DOMAIN frmRequest' => IsRequest(frmRequest'[x])
  PROVE  \A j \in DOMAIN frmRequest' : j \in 1..FormRequests /\ IsRequest(frmRequest'[j])
  BY DEF OthersStay, FormsTypeOK, FormsShape

\* A step that leaves the requests, and the other fields, as they have to be.
LEMMA ShapeKept ==
  ASSUME FormsTypeOK, FormsShape, SameCase,
         \A j \in DOMAIN frmRequest' : j \in 1..FormRequests /\ IsRequest(frmRequest'[j]),
         frmEditor' = [on |-> frmEditor'.on, new |-> frmEditor'.new, form |-> frmEditor'.form],
         frmEditor'.on \in Rows \cup {Nowhere, Cell},
         frmTold' \subseteq {"loadError", "createError", "error", "saved"},
         frmLoading' \in BOOLEAN, frmCrossed' \subseteq {"choice", "unit", "editor"},
         frmChosen' \in Choosable, frmResult' \in Choosable \cup {Nowhere},
         DOMAIN frmShown' \subseteq Rows, DOMAIN frmServer' \subseteq Rows
  PROVE  FormsTypeOK' /\ FormsShape'
  <1>1. Rows' = Rows /\ Choosable' = Choosable /\ Kind' = Kind
    BY DEF SameCase, Rows, Choosable, Kind
  <1>2. ASSUME NEW j \in DOMAIN frmRequest' PROVE IsRequest(frmRequest[j])'
    BY <1>1 DEF IsRequest
  <1>3. DOMAIN frmRequest' \subseteq 1..FormRequests
    OBVIOUS
  <1>4. FormsShape'
    BY <1>2 DEF FormsShape, SameCase
  <1> QED
    BY <1>1, <1>3, <1>4 DEF FormsTypeOK, Rows, Choosable

\* The fields of a state of the right type.
LEMMA TypeParts ==
  ASSUME FormsTypeOK, FormsShape
  PROVE  /\ frmTold \subseteq {"loadError", "createError", "error", "saved"}
         /\ frmLoading \in BOOLEAN /\ frmCrossed \subseteq {"choice", "unit", "editor"}
         /\ frmChosen \in Choosable /\ frmCase.first \in Choosable /\ frmCase.choices \subseteq Choosable
         /\ frmResult \in Choosable \cup {Nowhere}
         /\ frmEditor = [on |-> frmEditor.on, new |-> frmEditor.new, form |-> frmEditor.form]
         /\ frmEditor.on \in Rows \cup {Nowhere, Cell}
         /\ NoEditor = [on |-> NoEditor.on, new |-> NoEditor.new, form |-> NoEditor.form]
         /\ NoEditor.on = Nowhere /\ ~NoEditor.new
         /\ DOMAIN frmShown \subseteq Rows /\ DOMAIN frmServer \subseteq Rows
         /\ DOMAIN frmRequest \subseteq 1..FormRequests
         /\ \A i \in DOMAIN frmRequest : IsRequest(frmRequest[i])
         /\ 1 \in 1..FormRequests
  BY FormsAssumption DEF FormsTypeOK, FormsShape, Rows, Choosable, NoEditor

LEMMA SameRequests ==
  ASSUME FormsTypeOK, FormsShape, UNCHANGED frmRequest
  PROVE  \A j \in DOMAIN frmRequest' : j \in 1..FormRequests /\ IsRequest(frmRequest'[j])
  BY DEF FormsTypeOK, FormsShape

LEMMA NewRequest ==
  ASSUME FormsTypeOK, FormsShape, NEW what \in Reads \cup {"save", "create", "delete"}, NEW of, NEW body,
         what \in {"week", "solve"} => of \in Choosable
  PROVE  IsRequest(FormRequest(what, of, body))
  BY TypeParts DEF IsRequest, FormRequest

LEMMA SentRequests ==
  ASSUME FormsTypeOK, FormsShape, NEW what \in Reads \cup {"save", "create", "delete"}, NEW of, NEW body,
         what \in {"week", "solve"} => of \in Choosable,
         MaySend, Sends(FormRequest(what, of, body))
  PROVE  \A j \in DOMAIN frmRequest' : j \in 1..FormRequests /\ IsRequest(frmRequest'[j])
  <1>1. PICK q : q = FormRequest(what, of, body)
    OBVIOUS
  <1>2. IsRequest(q)
    BY <1>1, NewRequest
  <1>3. UnusedId \in 1..FormRequests /\ OthersStay(UnusedId) /\ frmRequest'[UnusedId] = q
    BY <1>1, SendsOne
  <1> QED
    BY <1>2, <1>3, AllRequests

LEMMA EndedRequests ==
  ASSUME FormsTypeOK, FormsShape, NEW i \in DOMAIN frmRequest, RequestEnds(i)
  PROVE  \A j \in DOMAIN frmRequest' : j \in 1..FormRequests /\ IsRequest(frmRequest'[j])
  BY EndsOne, TypeParts DEF OthersStay

LEMMA ResentRequests ==
  ASSUME FormsTypeOK, FormsShape, NEW i \in DOMAIN frmRequest, NEW what \in {"reload", "rates", "week"}, NEW of,
         NEW after, GoesOn(i, what, of, after), what = "week" => of \in Choosable
  PROVE  \A j \in DOMAIN frmRequest' : j \in 1..FormRequests /\ IsRequest(frmRequest'[j])
  <1>1. i \in 1..FormRequests /\ IsRequest(frmRequest[i])
    BY TypeParts
  <1>2. frmRequest'[i] = [what |-> what, of |-> of, body |-> Nowhere, at |-> "sent", answer |-> <<>>,
                          chosen |-> frmRequest[i].chosen, after |-> after, live |-> TRUE]
        /\ OthersStay(i)
    BY GoesOnOne
  <1>3. frmRequest[i].chosen \in Choosable
    BY <1>1 DEF IsRequest
  <1>4. IsRequest(frmRequest'[i])
    BY <1>2, <1>3 DEF IsRequest, Reads
  <1> QED
    BY <1>1, <1>2, <1>4, AllRequests

LEMMA OutcomeTypes ==
  ASSUME FormsTypeOK, FormsShape, NEW i \in DOMAIN frmRequest, NEW o \in Outcome(frmRequest[i])
  PROVE  DOMAIN o.rows \subseteq Rows /\ DOMAIN o.answer \subseteq Rows
  <1>1. PICK q : q = frmRequest[i]
    OBVIOUS
  <1>2. DOMAIN frmServer \subseteq Rows /\ frmCase.more \subseteq Rows
    BY DEF FormsTypeOK, Rows
  <1>3. CASE q.what \in Reads
    <2>1. o = [rows |-> frmServer, answer |-> frmServer]
      BY <1>1, <1>3 DEF Outcome, Reads
    <2> QED
      BY <1>2, <2>1
  <1>4. CASE q.what = "delete"
    <2>1. PICK r : o = [rows |-> Drop(frmServer, r), answer |-> <<>>]
      BY <1>1, <1>4 DEF Outcome, Reads
    <2> QED
      BY <1>2, <2>1 DEF Drop, Restrict
  <1>5. CASE q.what = "create"
    <2>1. PICK r \in frmCase.more : o = [rows |-> Upon(OneRow(r, q.body), frmServer), answer |-> OneRow(r, q.body)]
      BY <1>1, <1>5 DEF Outcome, Reads
    <2> QED
      BY <1>2, <2>1 DEF Upon, OneRow
  <1>6. CASE q.what = "save"
    <2>1. \E r \in DOMAIN frmServer : \E v : o = [rows |-> Upon(OneRow(r, v), frmServer), answer |-> OneRow(r, v)]
      BY <1>1, <1>6 DEF Outcome, Reads
    <2> QED
      BY <1>2, <2>1 DEF Upon, OneRow
  <1> QED
    BY <1>1, <1>3, <1>4, <1>5, <1>6, TypeParts DEF IsRequest

LEMMA ClicksShape ==
  ASSUME FormsTypeOK, FormsShape,
         \/ Chooses \/ Today \/ DismissResult \/ RosterArrives
         \/ \E r \in frmCase.rows \cup frmCase.more \cup {Cell} : StartEdit(r)
         \/ CancelEdit \/ Type \/ Save \/ deleteShift \/ handleCreateUnit \/ generate \/ Retry
         \/ \E r \in frmCase.rows : submitRate(r)
  PROVE  FormsTypeOK' /\ FormsShape'
  <1>1. ASSUME NEW x \in Choosable, ChooseEmployee(x) PROVE FormsTypeOK' /\ FormsShape'
    <2>1. PICK q : q = FormRequest("load", x, Nowhere)
      OBVIOUS
    <2>2. IsRequest(q)
      BY <2>1, NewRequest DEF Reads
    <2>3. frmRequest' = Upon(OneRow(UnusedId, q), [i \in DOMAIN frmRequest |-> [frmRequest[i] EXCEPT !.live = FALSE]])
          /\ Kind = "profile" /\ UnusedId \in 1..FormRequests
      BY <1>1, <2>1, FreshId DEF ChooseEmployee
    <2>4. ASSUME NEW i \in DOMAIN frmRequest PROVE IsRequest([frmRequest[i] EXCEPT !.live = FALSE])
      <3>1. PICK p : p = frmRequest[i]
        OBVIOUS
      <3>2. PICK r : r = [p EXCEPT !.live = FALSE]
        OBVIOUS
      <3>3. IsRequest(p)
        BY <3>1, TypeParts
      <3>4. /\ DOMAIN r = DOMAIN p /\ r.live = FALSE /\ r.what = p.what /\ r.of = p.of /\ r.at = p.at
            /\ r.answer = p.answer /\ r.chosen = p.chosen
        BY <3>2, <3>3 DEF IsRequest
      <3> QED
        BY <2>3, <3>1, <3>2, <3>3, <3>4 DEF IsRequest
    <2>5. \A j \in DOMAIN frmRequest' : j \in 1..FormRequests /\ IsRequest(frmRequest'[j])
      <3> SUFFICES ASSUME NEW j \in DOMAIN frmRequest' PROVE j \in 1..FormRequests /\ IsRequest(frmRequest'[j])
        OBVIOUS
      <3>1. CASE j = UnusedId
        BY <2>2, <2>3, <3>1 DEF Upon, OneRow
      <3>2. CASE j # UnusedId
        <4>1. j \in DOMAIN frmRequest /\ frmRequest'[j] = [frmRequest[j] EXCEPT !.live = FALSE]
          BY <2>3, <3>2 DEF Upon, OneRow
        <4> QED
          BY <2>4, <4>1, TypeParts
      <3> QED
        BY <3>1, <3>2
    <2>6. SameCase
      BY <1>1, ClickSpent DEF ChooseEmployee
    <2> QED
      BY <1>1, <2>5, <2>6, TypeParts, ShapeKept DEF ChooseEmployee
  <1>2. ASSUME NEW x \in Choosable, GoWeek(x) PROVE FormsTypeOK' /\ FormsShape'
    BY <1>2, ClickSpent, TypeParts, SameRequests, ShapeKept DEF GoWeek, Crossed
  <1>18. ASSUME NEW x \in Choosable, ChooseUnit(x) PROVE FormsTypeOK' /\ FormsShape'
    BY <1>18, ClickSpent, TypeParts, SameRequests, ShapeKept DEF ChooseUnit, Crossed
  <1>3. ASSUME NEW x \in Choosable, LoadWeek(x), MaySend, SameCase, frmChosen' = x,
               UNCHANGED <<frmServer, frmShown, frmResult, frmEditor>>, frmCrossed' \subseteq {"choice", "unit", "editor"}
        PROVE  FormsTypeOK' /\ FormsShape'
    <2>1. \A j \in DOMAIN frmRequest' : j \in 1..FormRequests /\ IsRequest(frmRequest'[j])
      BY <1>3, SentRequests DEF LoadWeek, Reads
    <2> QED
      BY <1>3, <2>1, TypeParts, ShapeKept DEF LoadWeek
  <1>4. ASSUME NEW x \in Choosable, ChooseScope(x) PROVE FormsTypeOK' /\ FormsShape'
    <2>1. SameCase /\ frmCrossed' \subseteq {"choice", "unit", "editor"}
      BY <1>4, ClickSpent, TypeParts DEF ChooseScope, Crossed
    <2>2. CASE x[1] = Nowhere /\ ~frmCase.global
      BY <1>4, <2>1, <2>2, TypeParts, SameRequests, ShapeKept DEF ChooseScope
    <2>3. CASE ~(x[1] = Nowhere /\ ~frmCase.global)
      BY <1>3, <1>4, <2>1, <2>3 DEF ChooseScope
    <2> QED
      BY <2>2, <2>3
  <1>5. CASE Chooses
    BY <1>1, <1>2, <1>4, <1>5, <1>18, TypeParts DEF Chooses
  <1>6. CASE Today \/ DismissResult
    <2>1. frmChosen' \in Choosable
      BY <1>6, TypeParts DEF Today, DismissResult, Choosable
    <2> QED
      BY <1>6, <2>1, ClickSpent, TypeParts, SameRequests, ShapeKept DEF Today, DismissResult, Crossed
  <1>7. CASE RosterArrives
    <2>1. PICK x \in frmCase.choices : frmChosen' = x /\ LoadWeek(x)
      BY <1>7 DEF RosterArrives
    <2>2. SameCase /\ MaySend /\ UNCHANGED <<frmServer, frmShown, frmResult, frmEditor>>
      BY <1>7, LimitsSpent DEF RosterArrives
    <2>3. frmCrossed' \subseteq {"choice", "unit", "editor"}
      BY <1>7, TypeParts DEF RosterArrives, Crossed
    <2> QED
      BY <1>3, <2>1, <2>2, <2>3, TypeParts
  <1>8. ASSUME NEW r \in Rows \cup {Cell}, StartEdit(r) PROVE FormsTypeOK' /\ FormsShape'
    BY <1>8, ClickSpent, TypeParts, SameRequests, ShapeKept DEF StartEdit, Crossed
  <1>9. CASE CancelEdit
    BY <1>9, ClickSpent, TypeParts, SameRequests, ShapeKept DEF CancelEdit
  <1>10. CASE Type
    <2>1. PICK v : frmEditor' = [frmEditor EXCEPT !.form = v]
      BY <1>10 DEF Type
    <2>2. frmTold' \subseteq {"loadError", "createError", "error", "saved"}
      BY <1>10, TypeParts DEF Type
    <2>3. frmEditor' = [on |-> frmEditor.on, new |-> frmEditor.new, form |-> v]
      BY <2>1, TypeParts
    <2> QED
      BY <1>10, <2>2, <2>3, ClickSpent, TypeParts, SameRequests, ShapeKept DEF Type, Crossed
  <1>11. CASE Save
    <2>1. \A j \in DOMAIN frmRequest' : j \in 1..FormRequests /\ IsRequest(frmRequest'[j])
      <3>1. CASE UNCHANGED frmRequest
        BY <3>1, SameRequests
      <3>2. CASE frmRequest' # frmRequest
        BY <1>11, <3>2, SentRequests DEF Save
      <3> QED
        BY <3>1, <3>2
    <2> QED
      BY <1>11, <2>1, ClickSpent, TypeParts, ShapeKept DEF Save, Crossed
  <1>12. CASE deleteShift
    <2>1. \A j \in DOMAIN frmRequest' : j \in 1..FormRequests /\ IsRequest(frmRequest'[j])
      BY <1>12, SentRequests DEF deleteShift
    <2> QED
      BY <1>12, <2>1, ClickSpent, TypeParts, ShapeKept DEF deleteShift, Crossed
  <1>13. CASE handleCreateUnit
    <2>1. \A j \in DOMAIN frmRequest' : j \in 1..FormRequests /\ IsRequest(frmRequest'[j])
      BY <1>13, SentRequests DEF handleCreateUnit
    <2> QED
      BY <1>13, <2>1, ClickSpent, TypeParts, ShapeKept DEF handleCreateUnit
  <1>14. CASE generate
    <2>1. \A j \in DOMAIN frmRequest' : j \in 1..FormRequests /\ IsRequest(frmRequest'[j])
      BY <1>14, SentRequests, TypeParts DEF generate, Reads
    <2> QED
      BY <1>14, <2>1, ClickSpent, TypeParts, ShapeKept DEF generate
  <1>15. CASE Retry
    <2>1. \A j \in DOMAIN frmRequest' : j \in 1..FormRequests /\ IsRequest(frmRequest'[j])
      BY <1>15, SentRequests DEF Retry, Reads
    <2> QED
      BY <1>15, <2>1, ClickSpent, TypeParts, ShapeKept DEF Retry
  <1>16. ASSUME NEW r, submitRate(r) PROVE FormsTypeOK' /\ FormsShape'
    <2>1. \A j \in DOMAIN frmRequest' : j \in 1..FormRequests /\ IsRequest(frmRequest'[j])
      BY <1>16, SentRequests DEF submitRate
    <2> QED
      BY <1>16, <2>1, ClickSpent, TypeParts, ShapeKept DEF submitRate
  <1> QED
    BY <1>5, <1>6, <1>7, <1>8, <1>9, <1>10, <1>11, <1>12, <1>13, <1>14, <1>15, <1>16 DEF Rows

\* A request that stays the same but for what has come of it.
Becomes(i, at, answer) ==
    /\ DOMAIN frmRequest' = DOMAIN frmRequest /\ OthersStay(i)
    /\ LET q == frmRequest[i]
           r == frmRequest'[i]
       IN  /\ DOMAIN r = DOMAIN q /\ r.what = q.what /\ r.of = q.of /\ r.body = q.body
           /\ r.chosen = q.chosen /\ r.after = q.after /\ r.live = q.live
           /\ r.at = at /\ r.answer = answer

LEMMA BecomesOf ==
  ASSUME FormsShape, NEW i \in DOMAIN frmRequest
  PROVE  /\ frmRequest' = [frmRequest EXCEPT ![i].at = "failed"] => Becomes(i, "failed", frmRequest[i].answer)
         /\ \A a : frmRequest' = [frmRequest EXCEPT ![i].at = "answered", ![i].answer = a] => Becomes(i, "answered", a)
  <1>1. PICK q : q = frmRequest[i]
    OBVIOUS
  <1>2. DOMAIN q = {"what", "of", "body", "at", "answer", "chosen", "after", "live"}
    BY <1>1 DEF FormsShape, IsRequest
  <1>3. ASSUME frmRequest' = [frmRequest EXCEPT ![i].at = "failed"] PROVE Becomes(i, "failed", frmRequest[i].answer)
    <2>1. frmRequest'[i] = [q EXCEPT !.at = "failed"] /\ DOMAIN frmRequest' = DOMAIN frmRequest /\ OthersStay(i)
      BY <1>1, <1>3 DEF OthersStay
    <2> QED
      BY <1>1, <1>2, <2>1 DEF Becomes
  <1>4. ASSUME NEW a, frmRequest' = [frmRequest EXCEPT ![i].at = "answered", ![i].answer = a]
        PROVE  Becomes(i, "answered", a)
    <2>1. frmRequest'[i] = [q EXCEPT !.at = "answered", !.answer = a]
          /\ DOMAIN frmRequest' = DOMAIN frmRequest /\ OthersStay(i)
      BY <1>1, <1>4 DEF OthersStay
    <2> QED
      BY <1>1, <1>2, <2>1 DEF Becomes
  <1> QED
    BY <1>3, <1>4

LEMMA HandledBecomes ==
  ASSUME FormsShape, NEW i \in DOMAIN frmRequest, FormHandled(i)
  PROVE  /\ frmRequest[i].at = "sent"
         /\ UNCHANGED <<frmCase, frmShown, frmChosen, frmResult, frmEditor, frmTold, frmLoading, frmCrossed>>
         /\ \/ /\ Outcome(frmRequest[i]) = {} /\ UNCHANGED frmServer
               /\ Becomes(i, "failed", frmRequest[i].answer)
            \/ \E o \in Outcome(frmRequest[i]) : frmServer' = o.rows /\ Becomes(i, "answered", o.answer)
  BY BecomesOf DEF FormHandled

LEMMA LostBecomes ==
  ASSUME FormsShape, NEW i \in DOMAIN frmRequest, FormLost(i)
  PROVE  /\ frmRequest[i].at \in {"sent", "answered"} /\ SameCase /\ frmCase'.roster = frmCase.roster
         /\ UNCHANGED <<frmServer, frmShown, frmChosen, frmResult, frmEditor, frmTold, frmLoading, frmCrossed>>
         /\ Becomes(i, "failed", frmRequest[i].answer)
  <1>1. SameCase /\ frmCase'.roster = frmCase.roster
    BY DEF FormLost, FormsShape, IsFormCase, SameCase
  <1> QED
    BY <1>1, BecomesOf DEF FormLost

LEMMA AnswersShape ==
  ASSUME FormsTypeOK, FormsShape, PageInv, NEW i \in DOMAIN frmRequest,
         \/ FormHandled(i) \/ FormLost(i) \/ AnswerDropped(i) \/ RequestFails(i)
         \/ LoadAnswer(i) \/ ScheduleLoaded(i) \/ SaveAnswer(i) \/ FormSaved(i) \/ UnitCreated(i)
         \/ ShiftSaved(i) \/ Solved(i) \/ Reloaded(i)
         \/ RateSaved(i) \/ RatesEnd(i) \/ WeekAnswer(i)
  PROVE  FormsTypeOK' /\ FormsShape'
  <1>1. PICK q : q = frmRequest[i]
    OBVIOUS
  <1>2. IsRequest(q) /\ i \in 1..FormRequests /\ (q.at = "answered" => DOMAIN q.answer \subseteq Rows)
    BY <1>1, TypeParts DEF IsRequest
  <1>4. ASSUME NEW at \in {"sent", "answered", "failed"}, NEW answer, at = "answered" => DOMAIN answer \subseteq Rows,
               Becomes(i, at, answer)
        PROVE  \A j \in DOMAIN frmRequest' : j \in 1..FormRequests /\ IsRequest(frmRequest'[j])
    <2>1. IsRequest(frmRequest'[i])
      BY <1>1, <1>2, <1>4 DEF IsRequest, Becomes
    <2> QED
      BY <1>2, <1>4, <2>1, AllRequests DEF Becomes
  <1>5. CASE FormHandled(i)
    <2>1. CASE Becomes(i, "failed", q.answer) /\ UNCHANGED frmServer
      <3>1. \A j \in DOMAIN frmRequest' : j \in 1..FormRequests /\ IsRequest(frmRequest'[j])
        BY <1>4, <2>1
      <3> QED
        BY <1>5, <2>1, <3>1, HandledBecomes, StillCase, TypeParts, ShapeKept
    <2>2. ASSUME NEW o \in Outcome(q), frmServer' = o.rows, Becomes(i, "answered", o.answer)
          PROVE  FormsTypeOK' /\ FormsShape'
      <3>1. DOMAIN o.rows \subseteq Rows /\ DOMAIN o.answer \subseteq Rows
        BY <1>1, OutcomeTypes
      <3>2. \A j \in DOMAIN frmRequest' : j \in 1..FormRequests /\ IsRequest(frmRequest'[j])
        BY <1>4, <2>2, <3>1
      <3> QED
        BY <1>5, <2>2, <3>1, <3>2, HandledBecomes, StillCase, TypeParts, ShapeKept
    <2> QED
      BY <1>1, <1>5, <2>1, <2>2, HandledBecomes
  <1>6. CASE FormLost(i)
    <2>1. \A j \in DOMAIN frmRequest' : j \in 1..FormRequests /\ IsRequest(frmRequest'[j])
      BY <1>1, <1>4, <1>6, LostBecomes
    <2> QED
      BY <1>6, <2>1, LostBecomes, TypeParts, ShapeKept
  <1>7. CASE AnswerDropped(i)
    BY <1>7, EndedRequests, StillCase, TypeParts, ShapeKept DEF AnswerDropped
  <1>8. CASE RequestFails(i)
    <2>1. frmTold' \subseteq {"loadError", "createError", "error", "saved"} /\ frmLoading' \in BOOLEAN
      BY <1>8, TypeParts DEF RequestFails
    <2> QED
      BY <1>8, <2>1, EndedRequests, StillCase, TypeParts, ShapeKept DEF RequestFails
  <1>9. CASE LoadAnswer(i)
    <2>1. q.at = "answered" /\ q.what = "load"
      BY <1>1, <1>9 DEF LoadAnswer, Answered
    <2>2. DOMAIN frmShown' \subseteq Rows
      BY <1>1, <1>2, <1>9, <2>1 DEF LoadAnswer, Restrict
    <2>3. /\ frmEditor' = [on |-> frmEditor'.on, new |-> frmEditor'.new, form |-> frmEditor'.form]
          /\ frmEditor'.on \in Rows \cup {Nowhere, Cell}
      <3>1. CASE Kind \notin {"company", "policy"}
        <4>1. frmEditor' = frmEditor
          BY <1>9, <3>1 DEF LoadAnswer
        <4> QED
          BY <4>1, TypeParts
      <3>2. CASE Kind \in {"company", "policy"}
        <4>1. PageAwaits(q)
          BY <1>1, <3>2 DEF PageInv
        <4>2. DOMAIN q.answer # {}
          BY <2>1, <3>2, <4>1 DEF PageAwaits, FormsShape, IsFormCase, Kind
        <4>3. frmShown' = q.answer
          BY <1>1, <1>9, <3>2 DEF LoadAnswer
        <4>4. PICK r : r = CHOOSE x \in DOMAIN frmShown' : TRUE
          OBVIOUS
        <4>5. r \in DOMAIN frmShown'
          BY <4>2, <4>3, <4>4
        <4>6. frmEditor' = [on |-> r, new |-> FALSE, form |-> frmShown'[r]]
          BY <1>9, <3>2, <4>4 DEF LoadAnswer
        <4> QED
          BY <2>2, <4>5, <4>6
      <3> QED
        BY <3>1, <3>2
    <2>4. frmLoading' = FALSE /\ RequestEnds(i)
          /\ UNCHANGED <<frmCase, frmServer, frmChosen, frmResult, frmTold, frmCrossed>>
      BY <1>9 DEF LoadAnswer
    <2> QED
      BY <2>2, <2>3, <2>4, EndedRequests, StillCase, TypeParts, ShapeKept
  <1>19. CASE ScheduleLoaded(i)
    <2>1. SameCase /\ DOMAIN frmShown' \subseteq Rows
      BY <1>1, <1>2, <1>19, LimitsSpent DEF ScheduleLoaded, Answered
    <2> QED
      BY <1>19, <2>1, EndedRequests, TypeParts, ShapeKept DEF ScheduleLoaded
  <1>10. CASE SaveAnswer(i)
    <2>1. DOMAIN frmShown' \subseteq Rows
      BY <1>1, <1>2, <1>10, TypeParts DEF SaveAnswer, Answered, Upon
    <2> QED
      BY <1>10, <2>1, EndedRequests, StillCase, TypeParts, ShapeKept DEF SaveAnswer
  <1>11. CASE FormSaved(i)
    <2>1. \E v : frmEditor' = [frmEditor EXCEPT !.form = v]
      <3>1. frmEditor = [frmEditor EXCEPT !.form = frmEditor.form]
        BY TypeParts
      <3> QED
        BY <1>11, <3>1 DEF FormSaved
    <2>2. PICK v : frmEditor' = [on |-> frmEditor.on, new |-> frmEditor.new, form |-> v]
      BY <2>1, TypeParts
    <2> QED
      BY <1>11, <2>2, EndedRequests, StillCase, TypeParts, ShapeKept DEF FormSaved
  <1>12. CASE UnitCreated(i)
    <2>1. DOMAIN frmShown' \subseteq Rows
      BY <1>1, <1>2, <1>12, TypeParts DEF UnitCreated, Answered, Upon
    <2> QED
      BY <1>12, <2>1, EndedRequests, StillCase, TypeParts, ShapeKept DEF UnitCreated
  <1>13. CASE ShiftSaved(i)
    BY <1>13, ResentRequests, StillCase, TypeParts, ShapeKept DEF ShiftSaved
  <1>14. CASE Solved(i)
    <2>1. frmResult' \in Choosable
      BY <1>1, <1>2, <1>14 DEF Solved, Answered, IsRequest
    <2> QED
      BY <1>14, <2>1, ResentRequests, StillCase, TypeParts, ShapeKept DEF Solved
  <1>15. CASE Reloaded(i)
    <2>1. DOMAIN frmShown' \subseteq Rows
      BY <1>1, <1>2, <1>15 DEF Reloaded, Answered
    <2> QED
      BY <1>15, <2>1, EndedRequests, StillCase, TypeParts, ShapeKept DEF Reloaded
  <1>16. CASE RateSaved(i)
    BY <1>16, ResentRequests, StillCase, TypeParts, ShapeKept DEF RateSaved
  <1>17. CASE RatesEnd(i)
    <2>1. DOMAIN frmShown' \subseteq Rows
      BY <1>1, <1>2, <1>17, TypeParts DEF RatesEnd
    <2>2. q.chosen \in Choosable
      BY <1>2 DEF IsRequest
    <2>3. \A j \in DOMAIN frmRequest' : j \in 1..FormRequests /\ IsRequest(frmRequest'[j])
      BY <1>1, <1>17, <2>2, ResentRequests DEF RatesEnd
    <2> QED
      BY <1>17, <2>1, <2>3, StillCase, TypeParts, ShapeKept DEF RatesEnd
  <1>18. CASE WeekAnswer(i)
    <2>1. frmResult' \in Choosable
      BY <1>1, <1>2, <1>18 DEF WeekAnswer, Answered, IsRequest
    <2> QED
      BY <1>18, <2>1, EndedRequests, StillCase, TypeParts, ShapeKept DEF WeekAnswer
  <1> QED
    BY <1>5, <1>6, <1>7, <1>8, <1>9, <1>10, <1>11, <1>12, <1>13, <1>14, <1>15, <1>16, <1>17, <1>18, <1>19

LEMMA EditsShape == ASSUME FormsTypeOK, FormsShape, SomebodyEdits PROVE FormsTypeOK' /\ FormsShape'
  <1>1. DOMAIN frmServer' \subseteq DOMAIN frmServer
    BY DEF SomebodyEdits, Drop, Restrict
  <1>2. SameCase
    BY LimitsSpent DEF SomebodyEdits
  <1> QED
    BY <1>1, <1>2, SameRequests, TypeParts, ShapeKept DEF SomebodyEdits

LEMMA NextShape == ASSUME FormsTypeOK, FormsShape, PageInv, FormsNext PROVE FormsTypeOK' /\ FormsShape'
  BY ClicksShape, AnswersShape, EditsShape DEF FormsNext

FormsOK == FormsTypeOK /\ FormsInv

\* What the step of one screen has to show.
HoldTogether == ShowsTheChosen' /\ SaidSaved /\ ClosesItsOwn /\ UntouchedKept /\ ParentsAccepted

(* The card of an employee *)

LEMMA CardSteps ==
  ASSUME FormsOK, Kind = "profile", FormsNext
  PROVE  \/ \E x : ChooseEmployee(x)
         \/ \E r : StartEdit(r)
         \/ CancelEdit \/ Type \/ Save
         \/ \E i \in DOMAIN frmRequest : \/ FormHandled(i) \/ FormLost(i) \/ AnswerDropped(i)
                                         \/ RequestFails(i) \/ LoadAnswer(i) \/ SaveAnswer(i)
         \/ SomebodyEdits
  BY DEF FormsNext, FormsOK, FormsInv, ProfileInv, Chooses, GoWeek, ChooseUnit, ChooseScope, Today, DismissResult, RosterArrives, deleteShift,
         handleCreateUnit, generate, Retry, submitRate, Answered, FormSaved, UnitCreated, ShiftSaved,
         ScheduleLoaded, Solved, Reloaded, RateSaved, RatesEnd, WeekAnswer

\* What a click finds with the form open, or closed and the card loaded: no
\* request but the save.
LEMMA CardAtRest ==
  ASSUME FormsOK, Kind = "profile", ~frmLoading, frmEditor.on = Nowhere \/ ~Saving,
         NEW i \in DOMAIN frmRequest
  PROVE  ~frmRequest[i].live
  BY DEF FormsOK, FormsInv, FormsShape, IsRequest, ProfileInv, CardAwaits, Saving

LEMMA CardProperties ==
  ASSUME Kind = "profile", Kind' = "profile", ProfileInv', ClosesItsOwn, UntouchedKept
  PROVE  ProfileInv' /\ HoldTogether
  BY DEF HoldTogether, ShowsTheChosen, SaidSaved, ParentsAccepted, ProfileInv

LEMMA CardClicks ==
  ASSUME FormsOK, FormsTypeOK', FormsShape', Kind = "profile",
         \/ \E x : ChooseEmployee(x)
         \/ \E r : StartEdit(r)
         \/ CancelEdit \/ Type \/ Save
  PROVE  ProfileInv' /\ HoldTogether
  <1>1. Kind' = "profile" /\ UNCHANGED frmServer
    BY ClickSpent DEF FormsOK, FormsInv, SameCase, Kind, ChooseEmployee, StartEdit, CancelEdit, Type, Save
  <1>2. /\ ~frmEditor.new /\ DOMAIN frmShown \subseteq {frmChosen}
        /\ frmEditor.on # Nowhere => frmEditor.on \in DOMAIN frmShown /\ ~frmLoading
        /\ \A i \in DOMAIN frmRequest : /\ frmRequest[i].what \in {"load", "save"} /\ frmRequest[i].after = ""
                                        /\ frmRequest[i].live => CardAwaits(frmRequest[i])
                                        /\ IsRequest(frmRequest[i])
        /\ \A r \in DOMAIN frmServer : DOMAIN frmServer[r] = Fields
        /\ \A i, j \in DOMAIN frmRequest : frmRequest[i].live /\ frmRequest[j].live => i = j
        /\ Nowhere \notin DOMAIN frmShown /\ Cell \notin DOMAIN frmShown
    BY DEF FormsOK, FormsInv, FormsShape, ProfileInv, FormsTypeOK, IsFormCase, Kind
  <1>3. NoEditor.on = Nowhere /\ ~NoEditor.new
    BY DEF NoEditor
  <1>4. ASSUME NEW x, ChooseEmployee(x) PROVE ProfileInv' /\ HoldTogether
    <2>1. PICK q : q = FormRequest("load", x, Nowhere)
      OBVIOUS
    <2>2. /\ frmRequest' = Upon(OneRow(UnusedId, q), [i \in DOMAIN frmRequest |-> [frmRequest[i] EXCEPT !.live = FALSE]])
          /\ UnusedId \notin DOMAIN frmRequest
          /\ frmShown' = <<>> /\ frmChosen' = x /\ frmEditor' = NoEditor /\ frmLoading' = TRUE
      BY <1>4, <2>1, FreshId DEF ChooseEmployee
    <2>3. q.what = "load" /\ q.of = x /\ q.after = ""
      BY <2>1 DEF FormRequest
    <2>4. DOMAIN frmRequest' = DOMAIN frmRequest \cup {UnusedId} /\ frmRequest'[UnusedId] = q
      BY <2>2 DEF Upon, OneRow
    <2>5. ASSUME NEW j \in DOMAIN frmRequest
          PROVE  /\ ~frmRequest'[j].live /\ frmRequest'[j].what = frmRequest[j].what
                 /\ frmRequest'[j].after = frmRequest[j].after /\ frmRequest'[j].at = frmRequest[j].at
      <3>1. PICK p : p = frmRequest[j]
        OBVIOUS
      <3>2. frmRequest'[j] = [p EXCEPT !.live = FALSE]
        BY <2>2, <3>1 DEF Upon, OneRow
      <3>3. DOMAIN p = {"what", "of", "body", "at", "answer", "chosen", "after", "live"}
        BY <1>2, <3>1 DEF IsRequest
      <3> QED
        BY <3>1, <3>2, <3>3
    <2>6. ProfileInv'
      <3>1. DOMAIN frmShown' = {} /\ frmEditor'.on = Nowhere /\ ~frmEditor'.new
        BY <1>3, <2>2
      <3>3. \A i \in DOMAIN frmRequest' :
               /\ frmRequest'[i].what \in {"load", "save"} /\ frmRequest'[i].after = ""
               /\ frmRequest'[i].live => i = UnusedId
        BY <1>2, <2>3, <2>4, <2>5
      <3>4. \A i \in DOMAIN frmRequest' : frmRequest'[i].live => CardAwaits(frmRequest[i])'
        <4> SUFFICES ASSUME NEW i \in DOMAIN frmRequest', frmRequest'[i].live PROVE CardAwaits(frmRequest[i])'
          OBVIOUS
        <4>1. frmRequest'[i] = q
          BY <2>4, <3>3
        <4> QED
          BY <2>2, <2>3, <4>1 DEF CardAwaits
      <3>5. \A r \in DOMAIN frmServer' : DOMAIN frmServer'[r] = Fields
        BY <1>1, <1>2
      <3>6. DOMAIN frmShown' \subseteq {frmChosen'}
        BY <3>1
      <3>7. \A i, j \in DOMAIN frmRequest' : frmRequest'[i].live /\ frmRequest'[j].live => i = j
        BY <3>3
      <3> QED
        BY <3>1, <3>3, <3>4, <3>5, <3>6, <3>7 DEF ProfileInv
    <2>7. ClosesItsOwn /\ UntouchedKept
      BY <2>4, <2>5 DEF ClosesItsOwn, UntouchedKept
    <2> QED
      BY <1>1, <2>6, <2>7, CardProperties
  <1>5. ASSUME UNCHANGED frmRequest PROVE ClosesItsOwn /\ UntouchedKept
    BY <1>5 DEF ClosesItsOwn, UntouchedKept
  <1>6. ASSUME NEW r, StartEdit(r) PROVE ProfileInv' /\ HoldTogether
    <2>1. /\ r \in DOMAIN frmShown /\ ~frmLoading /\ frmEditor.on = Nowhere
          /\ frmEditor'.on = r /\ frmEditor'.new = (r = Cell)
          /\ UNCHANGED <<frmServer, frmShown, frmChosen, frmLoading, frmRequest>>
      BY <1>6 DEF StartEdit, Openable
    <2>2. \A i \in DOMAIN frmRequest : ~frmRequest[i].live
      BY <2>1, CardAtRest
    <2>3. ProfileInv'
      BY <1>1, <1>2, <2>1, <2>2 DEF ProfileInv
    <2> QED
      BY <1>1, <1>5, <2>1, <2>3, CardProperties
  <1>7. CASE CancelEdit
    <2>1. /\ frmEditor.on # Nowhere /\ ~Saving /\ frmEditor' = NoEditor
          /\ UNCHANGED <<frmServer, frmShown, frmChosen, frmLoading, frmRequest>>
      BY <1>7 DEF CancelEdit
    <2>2. \A i \in DOMAIN frmRequest : ~frmRequest[i].live
      BY <1>2, <2>1, CardAtRest
    <2>3. ProfileInv'
      BY <1>1, <1>2, <1>3, <2>1, <2>2 DEF ProfileInv
    <2> QED
      BY <1>1, <1>5, <2>1, <2>3, CardProperties
  <1>8. CASE Type
    <2>1. PICK v : frmEditor' = [frmEditor EXCEPT !.form = v]
      BY <1>8 DEF Type
    <2>2. frmEditor'.on = frmEditor.on /\ frmEditor'.new = frmEditor.new /\ frmEditor.on # Nowhere
      BY <1>8, <2>1 DEF Type, FormsOK, FormsInv, FormsShape
    <2>3. UNCHANGED <<frmServer, frmShown, frmChosen, frmLoading, frmRequest>>
      BY <1>8 DEF Type
    <2>4. ASSUME NEW i \in DOMAIN frmRequest, frmRequest[i].live PROVE "editor" \in frmCrossed'
      <3>1. Saving
        BY <1>2, <2>2, <2>4, CardAtRest
      <3> QED
        BY <1>8, <3>1 DEF Type, Crossed
    <2>5. ASSUME NEW i \in DOMAIN frmRequest, frmRequest[i].live PROVE CardAwaits(frmRequest[i])'
      BY <1>2, <2>2, <2>3, <2>4, <2>5 DEF CardAwaits
    <2>6. ProfileInv'
      BY <1>1, <1>2, <2>2, <2>3, <2>5 DEF ProfileInv
    <2> QED
      BY <1>1, <1>5, <2>3, <2>6, CardProperties
  <1>9. CASE Save
    <2>1. /\ frmEditor.on = frmChosen /\ frmChosen # Nowhere /\ ~Saving /\ MaySend
          /\ Sends(FormRequest("save", frmEditor.on, Body)) /\ "editor" \notin frmCrossed'
          /\ UNCHANGED <<frmServer, frmShown, frmChosen, frmEditor, frmLoading>>
      BY <1>2, <1>9 DEF Save, Crossed
    <2>2. PICK q : q = FormRequest("save", frmEditor.on, Body)
      OBVIOUS
    <2>3. /\ q.what = "save" /\ q.after = "" /\ q.of = frmChosen /\ q.at = "sent"
          /\ q.body = buildEmployeePatch(frmEditor.form, frmShown[frmChosen])
      BY <2>1, <2>2 DEF FormRequest, Body
    <2>4. \A i \in DOMAIN frmRequest : ~frmRequest[i].live
      BY <1>2, <2>1, CardAtRest
    <2>5. /\ UnusedId \notin DOMAIN frmRequest /\ DOMAIN frmRequest' = DOMAIN frmRequest \cup {UnusedId}
          /\ frmRequest'[UnusedId] = q /\ \A i \in DOMAIN frmRequest : frmRequest'[i] = frmRequest[i]
      BY <2>1, <2>2, SendsOne DEF OthersStay
    <2>6. CardAwaits(q)'
      BY <2>1, <2>3 DEF CardAwaits, buildEmployeePatch
    <2>7. ProfileInv'
      BY <1>1, <1>2, <2>1, <2>3, <2>4, <2>5, <2>6 DEF ProfileInv
    <2>8. ClosesItsOwn /\ UntouchedKept
      BY <2>5 DEF ClosesItsOwn, UntouchedKept
    <2> QED
      BY <1>1, <2>7, <2>8, CardProperties
  <1> QED
    BY <1>4, <1>6, <1>7, <1>8, <1>9

\* Nothing of a card is disturbed by the end of a request.
LEMMA CardEnds ==
  ASSUME FormsOK, Kind = "profile", NEW i \in DOMAIN frmRequest, frmRequest[i].at \in {"answered", "failed"},
         RequestEnds(i), UNCHANGED <<frmServer, frmChosen, frmCrossed>>
  PROVE  /\ UntouchedKept
         /\ \A r \in DOMAIN frmServer' : DOMAIN frmServer'[r] = Fields
         /\ \A j \in DOMAIN frmRequest' :
               /\ j \in DOMAIN frmRequest \ {i} /\ frmRequest'[j] = frmRequest[j]
               /\ frmRequest'[j].what \in {"load", "save"} /\ frmRequest'[j].after = ""
               /\ frmRequest[j].live => CardAwaits(frmRequest[j]) /\ ~frmRequest[i].live
         /\ \A j, k \in DOMAIN frmRequest' : frmRequest'[j].live /\ frmRequest'[k].live => j = k
         /\ \A j \in DOMAIN frmRequest : j # i => j \in DOMAIN frmRequest'
         /\ frmRequest[i].live => CardAwaits(frmRequest[i])
  <1>1. DOMAIN frmRequest' = DOMAIN frmRequest \ {i} /\ OthersStay(i)
    BY EndsOne
  <1>2. ProfileInv
    BY DEF FormsOK, FormsInv
  <1>3. \A j \in DOMAIN frmRequest' : j \in DOMAIN frmRequest \ {i} /\ frmRequest'[j] = frmRequest[j]
    BY <1>1 DEF OthersStay
  <1>4. \A j \in DOMAIN frmRequest : j # i => j \in DOMAIN frmRequest' /\ frmRequest'[j] = frmRequest[j]
    BY <1>1, <1>3
  <1>5. UntouchedKept
    BY <1>4 DEF UntouchedKept
  <1> QED
    BY <1>2, <1>3, <1>4, <1>5 DEF ProfileInv

LEMMA CardChanges ==
  ASSUME FormsOK, Kind = "profile", NEW i \in DOMAIN frmRequest, NEW at \in {"answered", "failed"}, NEW answer,
         Becomes(i, at, answer), frmRequest[i].live /\ frmRequest[i].what = "save" /\ at = "answered" => DOMAIN answer \subseteq {frmChosen},
         \A r \in DOMAIN frmServer' : DOMAIN frmServer'[r] = Fields, Kind' = "profile",
         UNCHANGED <<frmShown, frmChosen, frmEditor, frmLoading, frmCrossed>>
  PROVE  ProfileInv' /\ ClosesItsOwn
  <1>1. ProfileInv
    BY DEF FormsOK, FormsInv
  <1>2. /\ DOMAIN frmRequest' = DOMAIN frmRequest
        /\ \A j \in DOMAIN frmRequest \ {i} : frmRequest'[j] = frmRequest[j]
        /\ \A j \in DOMAIN frmRequest : /\ frmRequest'[j].what = frmRequest[j].what /\ frmRequest'[j].after = frmRequest[j].after
                                        /\ frmRequest'[j].live = frmRequest[j].live
    BY DEF Becomes, OthersStay
  <1>3. frmRequest[i].live => CardAwaits(frmRequest[i])'
    BY <1>1 DEF ProfileInv, CardAwaits, Becomes
  <1>4. \A j \in DOMAIN frmRequest \ {i} : CardAwaits(frmRequest[j]) => CardAwaits(frmRequest[j])'
    BY <1>2 DEF CardAwaits
  <1>5. \A j \in DOMAIN frmRequest' : frmRequest'[j].live => CardAwaits(frmRequest[j])'
    BY <1>1, <1>2, <1>3, <1>4 DEF ProfileInv
  <1>6. ProfileInv'
    BY <1>1, <1>2, <1>5 DEF ProfileInv
  <1> QED
    BY <1>6 DEF ClosesItsOwn

LEMMA CardHandled ==
  ASSUME FormsOK, Kind = "profile", NEW i \in DOMAIN frmRequest, FormHandled(i)
  PROVE  ProfileInv' /\ HoldTogether
  <1>1. PICK q : q = frmRequest[i]
    OBVIOUS
  <1>2. /\ q.at = "sent" /\ q.what \in {"load", "save"} /\ (q.live => CardAwaits(q))
        /\ \A r \in DOMAIN frmServer : DOMAIN frmServer[r] = Fields
        /\ DOMAIN frmShown \subseteq {frmChosen} /\ FormsShape
    BY <1>1 DEF FormsOK, FormsInv, ProfileInv, FormHandled
  <1>3. Kind' = "profile" /\ UNCHANGED <<frmShown, frmChosen, frmEditor, frmLoading, frmCrossed>>
    BY DEF FormHandled, Kind
  <1>4. ASSUME UNCHANGED frmServer, Becomes(i, "failed", q.answer) PROVE ProfileInv' /\ HoldTogether
    <2>1. ProfileInv' /\ ClosesItsOwn
      BY <1>1, <1>2, <1>3, <1>4, CardChanges
    <2>2. UntouchedKept
      BY <1>4 DEF UntouchedKept, Becomes, OthersStay
    <2> QED
      BY <1>3, <2>1, <2>2, CardProperties
  <1>5. ASSUME NEW o \in Outcome(q), frmServer' = o.rows, Becomes(i, "answered", o.answer)
        PROVE  ProfileInv' /\ HoldTogether
    <2>1. \A j \in DOMAIN frmRequest \ {i} : frmRequest'[j] = frmRequest[j]
      BY <1>5 DEF Becomes, OthersStay
    <2>2. CASE q.what = "load"
      <3>1. o = [rows |-> frmServer, answer |-> frmServer]
        BY <2>2 DEF Outcome, Reads
      <3>2. UntouchedKept
        BY <1>1, <2>1, <2>2 DEF UntouchedKept
      <3>3. UNCHANGED frmServer /\ q.what # "save"
        BY <1>5, <2>2, <3>1
      <3>4. ProfileInv' /\ ClosesItsOwn
        BY <1>1, <1>2, <1>3, <1>5, <3>3, CardChanges
      <3> QED
        BY <1>3, <3>2, <3>4, CardProperties
    <2>3. CASE q.what = "save"
      <3>1. PICK r \in DOMAIN frmServer \cap {q.of} :
               LET v == Patched(frmServer[r], q.body)
               IN  o = [rows |-> Upon(OneRow(r, v), frmServer), answer |-> OneRow(r, v)]
        BY <1>2, <2>3 DEF Outcome, Reads
      <3>2. PICK v : v = Patched(frmServer[r], q.body)
        OBVIOUS
      <3>3. frmServer' = Upon(OneRow(r, v), frmServer) /\ DOMAIN o.answer = {q.of}
        BY <1>5, <3>1, <3>2 DEF OneRow
      <3>4. DOMAIN v = Fields /\ \A f \in Fields : v[f] # frmServer[r][f] => f \in DOMAIN q.body
        BY <1>2, <3>2 DEF Patched
      <3>5. \A x \in DOMAIN frmServer' : DOMAIN frmServer'[x] = Fields
        BY <1>2, <3>3, <3>4 DEF Upon, OneRow
      <3>6. q.live => q.of = frmChosen
        BY <1>2 DEF CardAwaits
      <3>7. ProfileInv' /\ ClosesItsOwn
        BY <1>1, <1>3, <1>5, <3>3, <3>5, <3>6, CardChanges
      <3>8. ASSUME NEW j \in DOMAIN frmRequest, frmRequest[j].live, "editor" \notin frmCrossed,
                   frmRequest[j].at = "sent", frmRequest'[j].at = "answered", NEW f \in Fields,
                   frmServer'[frmChosen][f] # frmServer[frmChosen][f]
            PROVE  frmEditor.form[f] # frmShown[frmChosen][f]
        <4>1. j = i
          BY <2>1, <3>8
        <4>2. r = frmChosen
          BY <1>1, <3>6, <3>8, <4>1
        <4>3. v[f] # frmServer[r][f]
          BY <3>3, <3>8, <4>2 DEF Upon, OneRow
        <4>4. f \in DOMAIN q.body
          BY <3>4, <4>3
        <4> QED
          BY <1>1, <1>2, <2>3, <3>8, <4>1, <4>4 DEF CardAwaits
      <3>9. UntouchedKept
        BY <3>8 DEF UntouchedKept
      <3> QED
        BY <1>3, <3>7, <3>9, CardProperties
    <2> QED
      BY <1>2, <2>2, <2>3
  <1> QED
    BY <1>1, <1>2, <1>4, <1>5, HandledBecomes

LEMMA CardAnswers ==
  ASSUME FormsOK, Kind = "profile", NEW i \in DOMAIN frmRequest,
         FormLost(i) \/ AnswerDropped(i) \/ RequestFails(i) \/ LoadAnswer(i) \/ SaveAnswer(i)
  PROVE  ProfileInv' /\ HoldTogether
  <1>1. PICK q : q = frmRequest[i]
    OBVIOUS
  <1>2. /\ ProfileInv /\ FormsShape
    BY DEF FormsOK, FormsInv
  <1>3. CASE FormLost(i)
    <2>1. /\ UNCHANGED <<frmServer, frmShown, frmChosen, frmEditor, frmLoading, frmCrossed>>
          /\ SameCase /\ Becomes(i, "failed", frmRequest[i].answer)
      BY <1>2, <1>3, LostBecomes
    <2>2. Kind' = "profile" /\ \A r \in DOMAIN frmServer' : DOMAIN frmServer'[r] = Fields
      BY <1>2, <2>1 DEF SameCase, Kind, ProfileInv
    <2>3. ProfileInv' /\ ClosesItsOwn
      BY <2>1, <2>2, CardChanges
    <2>4. UntouchedKept
      BY <2>1 DEF UntouchedKept, Becomes, OthersStay
    <2> QED
      BY <2>2, <2>3, <2>4, CardProperties
  <1>4. CASE AnswerDropped(i)
    <2>1. q.at \in {"answered", "failed"} /\ ~q.live /\ RequestEnds(i)
          /\ UNCHANGED <<frmCase, frmServer, frmShown, frmChosen, frmEditor, frmLoading, frmCrossed>>
      BY <1>1, <1>4 DEF AnswerDropped
    <2>2. Kind' = "profile"
      BY <2>1 DEF Kind
    <2>3. \A j \in DOMAIN frmRequest' : frmRequest'[j].live => CardAwaits(frmRequest[j])'
      <3> SUFFICES ASSUME NEW j \in DOMAIN frmRequest', frmRequest'[j].live PROVE CardAwaits(frmRequest[j])'
        OBVIOUS
      <3>1. frmRequest'[j] = frmRequest[j] /\ (frmRequest[j].live => CardAwaits(frmRequest[j]))
        BY <1>1, <2>1, CardEnds
      <3> QED
        BY <2>1, <3>1 DEF CardAwaits
    <2>4. ProfileInv'
      BY <1>1, <1>2, <2>1, <2>3, CardEnds DEF ProfileInv
    <2>5. ClosesItsOwn /\ UntouchedKept
      BY <1>1, <2>1, CardEnds DEF ClosesItsOwn
    <2> QED
      BY <2>2, <2>4, <2>5, CardProperties
  <1>5. ASSUME q.live, q.at \in {"answered", "failed"}, RequestEnds(i),
               UNCHANGED <<frmCase, frmServer, frmChosen, frmCrossed>>,
               DOMAIN frmShown' \subseteq {frmChosen}, ~frmEditor'.new,
               frmEditor'.on # Nowhere => frmEditor'.on \in DOMAIN frmShown' /\ ~frmLoading',
               frmEditor'.on = Nowhere => frmEditor.on \in {Nowhere, q.of}
        PROVE  ProfileInv' /\ HoldTogether
    <2>1. Kind' = "profile"
      BY <1>5 DEF Kind
    <2>2. \A j \in DOMAIN frmRequest' : ~frmRequest'[j].live
      BY <1>1, <1>5, CardEnds
    <2>3. ProfileInv'
      BY <1>1, <1>5, <2>2, CardEnds DEF ProfileInv
    <2>4. UntouchedKept
      BY <1>1, <1>5, CardEnds
    <2>5. ClosesItsOwn
      BY <1>1, <1>5, CardEnds DEF ClosesItsOwn
    <2> QED
      BY <2>1, <2>3, <2>4, <2>5, CardProperties
  <1>6. CASE RequestFails(i)
    <2>1. /\ q.live /\ q.at = "failed" /\ RequestEnds(i)
          /\ UNCHANGED <<frmCase, frmServer, frmShown, frmChosen, frmEditor, frmCrossed>>
          /\ frmLoading' => frmLoading
      BY <1>1, <1>6 DEF RequestFails
    <2> QED
      BY <1>2, <1>5, <2>1 DEF ProfileInv
  <1>7. CASE LoadAnswer(i)
    <2>1. /\ q.live /\ q.at = "answered" /\ q.what = "load" /\ RequestEnds(i) /\ ~frmLoading'
          /\ UNCHANGED <<frmCase, frmServer, frmEditor, frmChosen, frmCrossed>>
          /\ frmShown' = Restrict(q.answer, DOMAIN q.answer \cap {q.of})
      BY <1>1, <1>7 DEF LoadAnswer, Answered
    <2>2. q.of = frmChosen /\ frmLoading
      BY <1>1, <1>2, <2>1 DEF ProfileInv, CardAwaits
    <2>3. DOMAIN frmShown' \subseteq {frmChosen}
      BY <2>1, <2>2 DEF Restrict
    <2>4. frmEditor.on = Nowhere /\ ~frmEditor.new
      BY <1>2, <2>2 DEF ProfileInv
    <2> QED
      BY <1>5, <2>1, <2>3, <2>4
  <1>8. CASE SaveAnswer(i)
    <2>1. /\ q.live /\ q.at = "answered" /\ q.what = "save" /\ RequestEnds(i)
          /\ UNCHANGED <<frmCase, frmServer, frmChosen, frmCrossed>>
          /\ frmShown' = Upon(q.answer, frmShown) /\ frmEditor' = NoEditor
      BY <1>1, <1>8, <1>2 DEF SaveAnswer, Answered
    <2>2. q.of = frmChosen /\ DOMAIN q.answer \subseteq {frmChosen} /\ frmEditor.on = frmChosen
      BY <1>1, <1>2, <2>1 DEF ProfileInv, CardAwaits
    <2>3. DOMAIN frmShown' \subseteq {frmChosen}
      BY <1>2, <2>1, <2>2 DEF Upon, ProfileInv
    <2>4. frmEditor'.on = Nowhere /\ ~frmEditor'.new
      BY <2>1 DEF NoEditor
    <2> QED
      BY <1>5, <2>1, <2>2, <2>3, <2>4
  <1> QED
    BY <1>3, <1>4, <1>6, <1>7, <1>8

LEMMA CardEdited ==
  ASSUME FormsOK, Kind = "profile", SomebodyEdits
  PROVE  ProfileInv' /\ HoldTogether
  <1>1. Kind' = "profile" /\ UNCHANGED <<frmShown, frmChosen, frmEditor, frmLoading, frmRequest, frmCrossed>>
    BY LimitsSpent DEF SomebodyEdits, SameCase, Kind, FormsOK, FormsInv
  <1>2. PICK r \in DOMAIN frmServer, f \in Fields : frmServer' = [frmServer EXCEPT ![r][f] = 1 - @]
    BY DEF SomebodyEdits
  <1>3. ProfileInv
    BY DEF FormsOK, FormsInv
  <1>4. PICK v : frmServer' = [frmServer EXCEPT ![r] = v] /\ DOMAIN v = DOMAIN frmServer[r]
    <2>1. PICK v : v = [frmServer[r] EXCEPT ![f] = 1 - frmServer[r][f]]
      OBVIOUS
    <2>2. frmServer' = [frmServer EXCEPT ![r] = v]
      BY <1>2, <2>1
    <2>3. DOMAIN v = DOMAIN frmServer[r]
      BY <2>1
    <2> QED
      BY <2>2, <2>3
  <1>5. \A x \in DOMAIN frmServer' : DOMAIN frmServer'[x] = Fields
    BY <1>3, <1>4 DEF ProfileInv
  <1>6. \A j \in DOMAIN frmRequest : CardAwaits(frmRequest[j]) => CardAwaits(frmRequest[j])'
    BY <1>1 DEF CardAwaits
  <1>7. ProfileInv'
    BY <1>1, <1>3, <1>5, <1>6 DEF ProfileInv
  <1>8. ClosesItsOwn /\ UntouchedKept
    BY <1>1 DEF ClosesItsOwn, UntouchedKept
  <1> QED
    BY <1>1, <1>7, <1>8, CardProperties

LEMMA CardNext ==
  ASSUME FormsOK, FormsTypeOK', FormsShape', Kind = "profile", FormsNext
  PROVE  ProfileInv' /\ HoldTogether
  BY CardSteps, CardClicks, CardHandled, CardAnswers, CardEdited

(* The company's form and the policy's *)

LEMMA OneMore ==
  ASSUME OneOfEach, MaySend, NEW q, Sends(q), \A i \in DOMAIN frmRequest : frmRequest[i].what # q.what
  PROVE  OneOfEach'
  <1>1. \A j \in DOMAIN frmRequest' \ {UnusedId} : j \in DOMAIN frmRequest /\ frmRequest'[j] = frmRequest[j]
    BY SendsOne DEF OthersStay
  <1>2. frmRequest'[UnusedId] = q
    BY SendsOne
  <1>3. ASSUME NEW u, u = UnusedId PROVE OneOfEach'
    BY <1>1, <1>2, <1>3 DEF OneOfEach
  <1> QED
    BY <1>3

LEMMA OneLess ==
  ASSUME OneOfEach, NEW i \in DOMAIN frmRequest, RequestEnds(i)
  PROVE  /\ OneOfEach'
         /\ \A j \in DOMAIN frmRequest' : /\ j \in DOMAIN frmRequest /\ frmRequest'[j] = frmRequest[j]
                                          /\ frmRequest[j].what # frmRequest[i].what
  <1>1. DOMAIN frmRequest' = DOMAIN frmRequest \ {i} /\ OthersStay(i)
    BY EndsOne
  <1> QED
    BY <1>1 DEF OneOfEach, OthersStay

LEMMA OneChanged ==
  ASSUME OneOfEach, NEW i \in DOMAIN frmRequest, NEW at, NEW answer, Becomes(i, at, answer)
  PROVE  OneOfEach'
  <1>1. DOMAIN frmRequest' = DOMAIN frmRequest /\ \A j \in DOMAIN frmRequest : frmRequest'[j].what = frmRequest[j].what
    BY DEF Becomes, OthersStay
  <1> QED
    BY <1>1 DEF OneOfEach

OnPage == Kind \in {"company", "policy"}

LEMMA PageSteps ==
  ASSUME FormsOK, OnPage, FormsNext
  PROVE  \/ Type \/ Save \/ Retry
         \/ \E i \in DOMAIN frmRequest : \/ FormHandled(i) \/ FormLost(i) \/ RequestFails(i)
                                         \/ LoadAnswer(i) \/ FormSaved(i)
         \/ SomebodyEdits
  <1>1. \A i \in DOMAIN frmRequest : frmRequest[i].live /\ frmRequest[i].what \in {"load", "save"}
    BY DEF OnPage, FormsOK, FormsInv, FormsShape, IsRequest, PageInv, PageAwaits
  <1> QED
    BY <1>1 DEF OnPage, FormsNext, Chooses, ChooseEmployee, GoWeek, ChooseUnit, ChooseScope, Today, DismissResult, RosterArrives,
         StartEdit, Openable, CancelEdit, deleteShift, handleCreateUnit, generate, submitRate, AnswerDropped, Answered,
         SaveAnswer, UnitCreated, ScheduleLoaded, ShiftSaved, Solved, Reloaded, RateSaved, RatesEnd, WeekAnswer

LEMMA PageProperties ==
  ASSUME OnPage, Kind' = Kind, SaidSaved, frmEditor.on # Nowhere => frmEditor'.on # Nowhere
  PROVE  HoldTogether
  BY DEF OnPage, HoldTogether, ShowsTheChosen, ClosesItsOwn, UntouchedKept, ParentsAccepted

LEMMA PageClicks ==
  ASSUME FormsOK, OnPage, Type \/ Save \/ Retry
  PROVE  PageInv' /\ HoldTogether
  <1>1. SameCase /\ Kind' = Kind /\ frmCase'.rows = frmCase.rows /\ UNCHANGED frmServer
    BY ClickSpent DEF FormsOK, FormsInv, SameCase, Kind, Type, Save, Retry
  <1>2. /\ DOMAIN frmServer = frmCase.rows /\ ~frmEditor.new
        /\ frmEditor.on # Nowhere => Loaded
        /\ "saved" \in frmTold => frmEditor.on # Nowhere
        /\ \A i \in DOMAIN frmRequest : PageAwaits(frmRequest[i]) /\ frmRequest[i].live
        /\ OneOfEach
    BY DEF FormsOK, FormsInv, FormsShape, IsRequest, PageInv, OnPage
  <1>3. CASE Type
    <2>1. PICK v : frmEditor' = [frmEditor EXCEPT !.form = v]
      BY <1>3 DEF Type
    <2>2. frmEditor'.on = frmEditor.on /\ ~frmEditor'.new /\ frmEditor.on # Nowhere
      BY <1>2, <1>3, <2>1 DEF Type, FormsOK, FormsInv, FormsShape
    <2>3. /\ UNCHANGED <<frmLoading, frmRequest>> /\ "saved" \notin frmTold' /\ frmTold' \subseteq frmTold
          /\ "loadError" \in frmTold' => "loadError" \in frmTold
      BY <1>3 DEF Type, OnPage
    <2>4. ASSUME NEW i \in DOMAIN frmRequest PROVE PageAwaits(frmRequest[i])'
      <3>1. frmRequest[i].what = "save" => "editor" \in frmCrossed'
        BY <1>2, <1>3 DEF Type, Crossed, Saving
      <3> QED
        BY <1>1, <1>2, <2>2, <2>3, <3>1 DEF PageAwaits
    <2>5. PageInv'
      BY <1>1, <1>2, <2>2, <2>3, <2>4 DEF PageInv, Loaded, OneOfEach
    <2>6. SaidSaved
      BY <2>3 DEF SaidSaved
    <2> QED
      BY <1>1, <2>2, <2>5, <2>6, PageProperties
  <1>4. ASSUME NEW q, MaySend, Sends(q), \A i \in DOMAIN frmRequest : frmRequest[i].what # q.what, PageAwaits(q)',
               UNCHANGED frmEditor, "saved" \notin frmTold', frmEditor.on # Nowhere => Loaded',
               \A i \in DOMAIN frmRequest : frmRequest'[i] = frmRequest[i] => PageAwaits(frmRequest[i])'
        PROVE  PageInv' /\ HoldTogether
    <2>1. OneOfEach'
      BY <1>2, <1>4, OneMore
    <2>2. \A j \in DOMAIN frmRequest' : PageAwaits(frmRequest[j])'
      <3> SUFFICES ASSUME NEW j \in DOMAIN frmRequest' PROVE PageAwaits(frmRequest[j])'
        OBVIOUS
      <3>1. CASE j = UnusedId
        <4>1. frmRequest'[j] = q
          BY <1>4, <3>1, SendsOne
        <4> QED
          BY <1>4, <4>1 DEF PageAwaits
      <3>2. CASE j # UnusedId
        BY <1>4, <3>2, SendsOne DEF OthersStay
      <3> QED
        BY <3>1, <3>2
    <2>3. PageInv'
      BY <1>1, <1>2, <1>4, <2>1, <2>2 DEF PageInv
    <2>4. SaidSaved
      BY <1>4 DEF SaidSaved
    <2> QED
      BY <1>1, <1>4, <2>3, <2>4, PageProperties
  <1>5. CASE Save
    <2>1. /\ frmEditor.on # Nowhere /\ ~Saving /\ MaySend /\ "saved" \notin frmTold' /\ Loaded
          /\ Sends(FormRequest("save", frmEditor.on, frmEditor.form)) /\ "loadError" \notin frmTold'
          /\ UNCHANGED <<frmEditor, frmLoading>> /\ "editor" \notin frmCrossed'
      BY <1>2, <1>5 DEF Save, Body, OnPage, Crossed, Loaded
    <2>2. PICK q : q = FormRequest("save", frmEditor.on, frmEditor.form)
      OBVIOUS
    <2>3. q.what = "save" /\ q.after = "" /\ q.at = "sent" /\ q.body = frmEditor.form
      BY <2>2 DEF FormRequest
    <2>4. \A i \in DOMAIN frmRequest : frmRequest[i].what # "save"
      BY <1>2, <2>1 DEF Saving
    <2>5. PageAwaits(q)'
      BY <2>1, <2>3 DEF PageAwaits
    <2>6. ASSUME NEW i \in DOMAIN frmRequest, frmRequest'[i] = frmRequest[i] PROVE PageAwaits(frmRequest[i])'
      BY <1>1, <1>2, <2>1, <2>4, <2>6 DEF PageAwaits
    <2> QED
      BY <1>4, <2>1, <2>2, <2>3, <2>4, <2>5, <2>6 DEF Loaded
  <1>6. CASE Retry
    <2>1. /\ "loadError" \in frmTold /\ ~frmLoading /\ MaySend
          /\ Sends(FormRequest("load", frmChosen, Nowhere)) /\ frmLoading' /\ frmTold' = frmTold \ {"loadError"}
          /\ UNCHANGED <<frmEditor, frmCrossed>>
      BY <1>6 DEF Retry
    <2>2. PICK q : q = FormRequest("load", frmChosen, Nowhere)
      OBVIOUS
    <2>3. q.what = "load" /\ q.after = "" /\ q.at = "sent"
      BY <2>2 DEF FormRequest
    <2>4. \A i \in DOMAIN frmRequest : frmRequest[i].what # "load"
      BY <1>2, <2>1 DEF PageAwaits
    <2>5. PageAwaits(q)'
      BY <2>1, <2>3 DEF PageAwaits
    <2>6. ASSUME NEW i \in DOMAIN frmRequest, frmRequest'[i] = frmRequest[i] PROVE PageAwaits(frmRequest[i])'
      BY <1>1, <1>2, <2>1, <2>4, <2>6 DEF PageAwaits
    <2>7. frmEditor.on = Nowhere /\ "saved" \notin frmTold'
      BY <1>2, <2>1 DEF Loaded
    <2> QED
      BY <1>4, <2>1, <2>2, <2>3, <2>4, <2>5, <2>6, <2>7
  <1> QED
    BY <1>3, <1>5, <1>6

LEMMA PageAnswers ==
  ASSUME FormsOK, OnPage, NEW i \in DOMAIN frmRequest,
         FormHandled(i) \/ FormLost(i) \/ RequestFails(i) \/ LoadAnswer(i) \/ FormSaved(i)
  PROVE  PageInv' /\ HoldTogether
  <1>1. PICK q : q = frmRequest[i]
    OBVIOUS
  <1>2. /\ DOMAIN frmServer = frmCase.rows /\ ~frmEditor.new
        /\ frmEditor.on # Nowhere => Loaded
        /\ "saved" \in frmTold => frmEditor.on # Nowhere
        /\ \A j \in DOMAIN frmRequest : PageAwaits(frmRequest[j])
        /\ OneOfEach /\ PageAwaits(q) /\ FormsShape /\ FormsTypeOK /\ q.what \in {"load", "save"}
    BY <1>1 DEF FormsOK, FormsInv, PageInv, OnPage, PageAwaits
  <1>3. ASSUME NEW at \in {"answered", "failed"}, NEW answer, Becomes(i, at, answer), SameCase, DOMAIN frmServer' = DOMAIN frmServer,
               UNCHANGED <<frmEditor, frmTold, frmLoading, frmCrossed>>,
               at = "answered" => IF q.what = "load" THEN DOMAIN answer = frmCase.rows ELSE answer = OneRow(q.of, q.body)
        PROVE  PageInv' /\ HoldTogether
    <2>1. OneOfEach'
      BY <1>2, <1>3, OneChanged
    <2>2. DOMAIN frmRequest' = DOMAIN frmRequest /\ Kind' = Kind /\ frmCase'.rows = frmCase.rows
      BY <1>3 DEF Becomes, SameCase, Kind
    <2>3. PageAwaits(frmRequest[i])'
      BY <1>1, <1>2, <1>3, <2>2 DEF PageAwaits, Becomes
    <2>4. ASSUME NEW j \in DOMAIN frmRequest, j # i PROVE PageAwaits(frmRequest[j])'
      <3>1. frmRequest'[j] = frmRequest[j]
        BY <1>3, <2>4 DEF Becomes, OthersStay
      <3>2. PageAwaits(frmRequest[j])
        BY <1>2
      <3>3. UNCHANGED <<frmEditor, frmTold, frmLoading, frmCrossed>>
        BY <1>3
      <3> QED
        BY <2>2, <3>1, <3>2, <3>3 DEF PageAwaits
    <2>5. PageInv'
      BY <1>2, <1>3, <2>1, <2>2, <2>3, <2>4 DEF PageInv, Loaded
    <2>6. SaidSaved
      BY <1>3 DEF SaidSaved
    <2> QED
      BY <1>3, <2>2, <2>5, <2>6, PageProperties
  <1>4. CASE FormHandled(i)
    <2>1. SameCase /\ UNCHANGED <<frmEditor, frmTold, frmLoading, frmCrossed>>
      BY <1>2, <1>4, StillCase DEF FormHandled
    <2>2. ASSUME UNCHANGED frmServer, Becomes(i, "failed", q.answer) PROVE PageInv' /\ HoldTogether
      BY <1>3, <2>1, <2>2
    <2>3. ASSUME NEW o \in Outcome(q), frmServer' = o.rows, Becomes(i, "answered", o.answer) PROVE PageInv' /\ HoldTogether
      <3>1. CASE q.what = "load"
        <4>1. o = [rows |-> frmServer, answer |-> frmServer]
          BY <3>1 DEF Outcome, Reads
        <4> QED
          BY <1>2, <1>3, <2>1, <2>3, <3>1, <4>1
      <3>2. CASE q.what = "save"
        <4>1. PICK r \in DOMAIN frmServer \cap {q.of} :
                 o = [rows |-> Upon(OneRow(r, q.body), frmServer), answer |-> OneRow(r, q.body)]
          BY <3>2 DEF Outcome, Reads, OnPage
        <4>2. DOMAIN frmServer' = DOMAIN frmServer /\ o.answer = OneRow(q.of, q.body)
          BY <2>3, <4>1 DEF Upon, OneRow
        <4> QED
          BY <1>3, <2>1, <2>3, <3>2, <4>2
      <3> QED
        BY <1>2, <3>1, <3>2
    <2> QED
      BY <1>1, <1>2, <1>4, <2>2, <2>3, HandledBecomes
  <1>5. CASE FormLost(i)
    BY <1>2, <1>3, <1>5, LostBecomes
  <1>6. ASSUME RequestEnds(i), UNCHANGED <<frmCase, frmServer, frmCrossed>>, ~frmEditor'.new,
               frmEditor'.on # Nowhere => Loaded', frmEditor.on # Nowhere => frmEditor'.on # Nowhere,
               "saved" \in frmTold' => frmEditor'.on # Nowhere,
               \A j \in DOMAIN frmRequest : frmRequest[j].what # q.what /\ frmRequest'[j] = frmRequest[j] => PageAwaits(frmRequest[j])',
               SaidSaved
        PROVE  PageInv' /\ HoldTogether
    <2>1. OneOfEach' /\ Kind' = Kind /\ frmCase'.rows = frmCase.rows
      BY <1>2, <1>6, OneLess DEF Kind
    <2>2. ASSUME NEW j \in DOMAIN frmRequest' PROVE PageAwaits(frmRequest[j])'
      <3>1. j \in DOMAIN frmRequest /\ frmRequest'[j] = frmRequest[j] /\ frmRequest[j].what # q.what
        BY <1>1, <1>2, <1>6, OneLess
      <3> QED
        BY <1>6, <3>1
    <2>3. PageInv'
      BY <1>2, <1>6, <2>1, <2>2 DEF PageInv
    <2> QED
      BY <1>6, <2>1, <2>3, PageProperties
  <1>7. CASE RequestFails(i)
    <2>1. /\ RequestEnds(i) /\ UNCHANGED <<frmCase, frmServer, frmEditor, frmCrossed>>
          /\ frmTold' = frmTold \cup {IF q.what = "load" THEN "loadError" ELSE "error"}
          /\ frmLoading' = (frmLoading /\ q.what # "load")
      BY <1>1, <1>2, <1>7 DEF RequestFails, OnPage, PageAwaits
    <2>2. SaidSaved
      BY <2>1 DEF SaidSaved
    <2>3. frmEditor.on # Nowhere => Loaded'
      BY <1>2, <2>1 DEF Loaded, PageAwaits
    <2>4. ASSUME NEW j \in DOMAIN frmRequest, frmRequest[j].what # q.what, frmRequest'[j] = frmRequest[j]
          PROVE  PageAwaits(frmRequest[j])'
      <3>1. Kind' = Kind /\ frmCase' = frmCase /\ frmEditor' = frmEditor /\ frmCrossed' = frmCrossed
            /\ ("saved" \in frmTold' => "saved" \in frmTold)
        BY <2>1 DEF Kind
      <3>2. PageAwaits(frmRequest[j]) /\ (frmRequest[j].what = "load" => frmLoading' /\ "loadError" \notin frmTold')
        BY <1>2, <2>1, <2>4 DEF PageAwaits
      <3> QED
        BY <2>4, <3>1, <3>2 DEF PageAwaits
    <2>5. "saved" \in frmTold' => "saved" \in frmTold
      BY <2>1
    <2> QED
      BY <1>2, <1>6, <2>1, <2>2, <2>3, <2>4, <2>5
  <1>8. CASE LoadAnswer(i)
    <2>1. /\ RequestEnds(i) /\ UNCHANGED <<frmCase, frmServer, frmTold, frmCrossed>> /\ ~frmLoading'
          /\ q.what = "load" /\ q.at = "answered" /\ frmShown' = q.answer
      BY <1>1, <1>8 DEF LoadAnswer, Answered, OnPage
    <2>2. frmLoading /\ "loadError" \notin frmTold /\ DOMAIN q.answer = frmCase.rows /\ frmEditor.on = Nowhere
      BY <1>2, <2>1 DEF PageAwaits, Loaded
    <2>3. PICK r : r = CHOOSE x \in DOMAIN frmShown' : TRUE
      OBVIOUS
    <2>4. frmEditor' = [on |-> r, new |-> FALSE, form |-> frmShown'[r]]
      BY <1>8, <2>3 DEF LoadAnswer, OnPage
    <2>5. r \in frmCase.rows /\ r # Nowhere
      BY <1>2, <2>1, <2>2, <2>3 DEF FormsShape, IsFormCase, OnPage, Kind
    <2>6. frmEditor'.on # Nowhere /\ ~frmEditor'.new
      BY <2>4, <2>5
    <2>7. "saved" \notin frmTold
      BY <1>2, <2>2
    <2>8. ASSUME NEW j \in DOMAIN frmRequest, frmRequest[j].what # q.what PROVE FALSE
      BY <1>2, <2>1, <2>2, <2>8 DEF PageAwaits
    <2> QED
      BY <1>6, <2>1, <2>2, <2>6, <2>7, <2>8 DEF Loaded, SaidSaved
  <1>9. CASE FormSaved(i)
    <2>1. /\ RequestEnds(i) /\ UNCHANGED <<frmCase, frmServer, frmLoading, frmCrossed>>
          /\ q.what = "save" /\ q.at = "answered" /\ frmTold' = frmTold \cup {"saved"}
          /\ frmEditor' = IF Kind = "company" THEN [frmEditor EXCEPT !.form = q.answer[q.of]] ELSE frmEditor
      BY <1>1, <1>9 DEF FormSaved, Answered
    <2>2. /\ frmEditor.on # Nowhere /\ "saved" \notin frmTold /\ q.answer[q.of] = q.body
          /\ (Kind = "policy" /\ "editor" \notin frmCrossed) => frmEditor.form = q.body
      <3>1. /\ frmEditor.on # Nowhere /\ "saved" \notin frmTold /\ q.answer = OneRow(q.of, q.body)
            /\ (Kind = "policy" /\ "editor" \notin frmCrossed) => frmEditor.form = q.body
        BY <1>2, <2>1 DEF PageAwaits
      <3>2. q.answer[q.of] = q.body
        BY <3>1 DEF OneRow
      <3> QED
        BY <3>1, <3>2
    <2>3. frmEditor'.on = frmEditor.on /\ ~frmEditor'.new
          /\ (Kind = "company" => frmEditor'.form = q.body) /\ (Kind # "company" => frmEditor'.form = frmEditor.form)
      BY <1>2, <2>1, <2>2 DEF FormsShape
    <2>4. SaidSaved
      BY <1>1, <2>2, <2>3 DEF SaidSaved, OnPage
    <2>5. ASSUME NEW j \in DOMAIN frmRequest, frmRequest[j].what # q.what PROVE FALSE
      BY <1>2, <2>1, <2>2, <2>5 DEF PageAwaits, Loaded
    <2>6. Loaded'
      BY <1>2, <2>1, <2>2 DEF Loaded
    <2> QED
      BY <1>6, <2>1, <2>2, <2>3, <2>4, <2>5, <2>6
  <1> QED
    BY <1>4, <1>5, <1>7, <1>8, <1>9

LEMMA PageEdited == ASSUME FormsOK, OnPage, SomebodyEdits PROVE PageInv' /\ HoldTogether
  <1>1. /\ Kind' = Kind /\ frmCase'.rows = frmCase.rows
        /\ UNCHANGED <<frmShown, frmChosen, frmEditor, frmTold, frmLoading, frmRequest, frmCrossed>>
    BY LimitsSpent DEF SomebodyEdits, SameCase, Kind, FormsOK, FormsInv
  <1>2. DOMAIN frmServer' = DOMAIN frmServer
    BY DEF SomebodyEdits, OnPage
  <1>3. ASSUME NEW j \in DOMAIN frmRequest, PageAwaits(frmRequest[j]) PROVE PageAwaits(frmRequest[j])'
    BY <1>1, <1>3 DEF PageAwaits
  <1>4. PageInv'
    BY <1>1, <1>2, <1>3 DEF FormsOK, FormsInv, PageInv, Loaded, OneOfEach
  <1> QED
    BY <1>1, <1>4, PageProperties DEF SaidSaved

LEMMA PageNext == ASSUME FormsOK, OnPage, FormsNext PROVE PageInv' /\ HoldTogether
  BY PageSteps, PageClicks, PageAnswers, PageEdited

(* A week of shifts, its solve and its editor *)

InWeek == Kind = "schedule"

LEMMA WeekSteps ==
  ASSUME FormsOK, InWeek, FormsNext
  PROVE  \/ \E x : GoWeek(x) \/ ChooseUnit(x)
         \/ \E r : StartEdit(r)
         \/ Today \/ DismissResult \/ CancelEdit \/ Type \/ Save \/ deleteShift \/ generate \/ Retry
         \/ \E i \in DOMAIN frmRequest : \/ FormHandled(i) \/ FormLost(i) \/ RequestFails(i) \/ ScheduleLoaded(i)
                                         \/ ShiftSaved(i) \/ Solved(i) \/ Reloaded(i)
         \/ SomebodyEdits
  <1>1. \A i \in DOMAIN frmRequest : frmRequest[i].live /\ frmRequest[i].what # "rates"
    BY DEF InWeek, FormsOK, FormsInv, FormsShape, IsRequest, ScheduleInv, WeekAwaits
  <1> QED
    BY <1>1 DEF InWeek, FormsNext, Chooses, ChooseEmployee, ChooseScope, RosterArrives, handleCreateUnit, submitRate,
         AnswerDropped, Answered, LoadAnswer, SaveAnswer, FormSaved, UnitCreated, RateSaved, RatesEnd, WeekAnswer

LEMMA WeekProperties ==
  ASSUME InWeek, Kind' = Kind, ScheduleInv', ClosesItsOwn
  PROVE  ScheduleInv' /\ HoldTogether
  BY DEF InWeek, HoldTogether, ShowsTheChosen, SaidSaved, UntouchedKept, ParentsAccepted, ScheduleInv

\* What fitted the unit and the week chosen still does: each is as it was,
\* or has been crossed.
ChoiceKept ==
    /\ "choice" \in frmCrossed' \/ (frmChosen'[2] = frmChosen[2] /\ "choice" \notin frmCrossed)
    /\ "unit" \in frmCrossed' \/ (frmChosen'[1] = frmChosen[1] /\ "unit" \notin frmCrossed)

LEMMA FitsKept == ASSUME NEW of, SolveFits(of), ChoiceKept PROVE SolveFits(of)'
  BY DEF SolveFits, ChoiceKept

\* The requests but x need nothing new as long as the editor, or what has
\* been crossed, stays, and so for the unit and week.
LEMMA WeekOthers ==
  ASSUME FormsOK, InWeek, NEW x, OthersStay(x), x \in DOMAIN frmRequest' => WeekAwaits(frmRequest[x])',
         \/ ~Saving
         \/ "editor" \in frmCrossed'
         \/ frmEditor'.on \in {Nowhere, frmEditor.on} /\ ("editor" \in frmCrossed => "editor" \in frmCrossed'),
         ~Solving \/ ChoiceKept
  PROVE  \A j \in DOMAIN frmRequest' : WeekAwaits(frmRequest[j])'
  <1> SUFFICES ASSUME NEW j \in DOMAIN frmRequest' PROVE WeekAwaits(frmRequest[j])'
    OBVIOUS
  <1>1. CASE j = x
    BY <1>1
  <1>2. CASE j # x
    <2>1. j \in DOMAIN frmRequest /\ frmRequest'[j] = frmRequest[j]
      BY <1>2 DEF OthersStay
    <2>2. PICK q : q = frmRequest[j]
      OBVIOUS
    <2>3. WeekAwaits(q) /\ q.live
      BY <2>1, <2>2 DEF InWeek, FormsOK, FormsInv, FormsShape, IsRequest, ScheduleInv
    <2>4. q.what \in {"save", "create", "delete"} \/ q.after = "save" => Saving
      BY <2>1, <2>2, <2>3 DEF Saving, InWeek
    <2>5. q.what = "solve" => Solving
      BY <2>1, <2>2 DEF Solving
    <2> QED
      BY <2>1, <2>2, <2>3, <2>4, <2>5, FitsKept DEF WeekAwaits
  <1> QED
    BY <1>1, <1>2

LEMMA WeekKept ==
  ASSUME FormsOK, InWeek, Kind' = Kind, NEW x, OthersStay(x), x \in DOMAIN frmRequest' => WeekAwaits(frmRequest[x])',
         \/ ~Saving
         \/ "editor" \in frmCrossed'
         \/ frmEditor'.on \in {Nowhere, frmEditor.on} /\ ("editor" \in frmCrossed => "editor" \in frmCrossed'),
         ~Solving \/ ChoiceKept,
         \/ frmResult' = Nowhere
         \/ SolveFits(frmResult)'
         \/ UNCHANGED frmResult /\ ChoiceKept,
         ClosesItsOwn
  PROVE  ScheduleInv' /\ HoldTogether
  <1>1. \A j \in DOMAIN frmRequest' : WeekAwaits(frmRequest[j])'
    BY WeekOthers
  <1>2. frmResult' = Nowhere \/ SolveFits(frmResult)'
    <2>1. ASSUME UNCHANGED frmResult, ChoiceKept PROVE frmResult' = Nowhere \/ SolveFits(frmResult)'
      <3>1. PICK of : of = frmResult
        OBVIOUS
      <3>2. of = Nowhere \/ SolveFits(of)
        BY <3>1 DEF FormsOK, FormsInv, ScheduleInv, InWeek
      <3>3. of = Nowhere \/ SolveFits(of)'
        BY <2>1, <3>2, FitsKept
      <3> QED
        BY <2>1, <3>1, <3>3
    <2> QED
      BY <2>1
  <1>3. ScheduleInv'
    BY <1>1, <1>2 DEF ScheduleInv
  <1> QED
    BY <1>3, WeekProperties

LEMMA WeekClicks ==
  ASSUME FormsOK, InWeek,
         \/ \E x : GoWeek(x) \/ ChooseUnit(x)
         \/ \E r : StartEdit(r)
         \/ Today \/ DismissResult \/ CancelEdit \/ Type \/ Save \/ deleteShift \/ generate \/ Retry
  PROVE  ScheduleInv' /\ HoldTogether
  <1>1. Kind' = Kind /\ FormsShape
    BY ClickSpent DEF FormsOK, FormsInv, SameCase, Kind, GoWeek, ChooseUnit, StartEdit, Today, DismissResult, CancelEdit, Type,
                      Save, deleteShift, generate, Retry
  <1>2. ASSUME UNCHANGED frmRequest
        PROVE  ClosesItsOwn /\ OthersStay(0) /\ (0 \in DOMAIN frmRequest' => frmRequest'[0] = frmRequest[0])
    BY <1>2 DEF ClosesItsOwn, OthersStay
  <1>3. \A i \in DOMAIN frmRequest : i # 0
    BY FormsAssumption DEF FormsOK, FormsTypeOK
  <1>4. ASSUME NEW x, GoWeek(x) PROVE ScheduleInv' /\ HoldTogether
    <2>1. Solving => ChoiceKept
      BY <1>4 DEF GoWeek, Crossed, ChoiceKept
    <2> QED
      BY <1>1, <1>2, <1>3, <1>4, <2>1, WeekKept DEF GoWeek, Crossed
  <1>15. ASSUME NEW x, ChooseUnit(x) PROVE ScheduleInv' /\ HoldTogether
    <2>1. Solving \/ frmResult # Nowhere => ChoiceKept
      BY <1>15 DEF ChooseUnit, Crossed, ChoiceKept
    <2> QED
      BY <1>1, <1>2, <1>3, <1>15, <2>1, WeekKept DEF ChooseUnit, Crossed
  <1>5. CASE Today
    <2>1. ChoiceKept
      BY <1>5 DEF Today, Crossed, ChoiceKept
    <2> QED
      BY <1>1, <1>2, <1>3, <1>5, <2>1, WeekKept DEF Today, Crossed
  <1>6. CASE DismissResult
    <2>1. ChoiceKept
      BY <1>6 DEF DismissResult, ChoiceKept
    <2> QED
      BY <1>1, <1>2, <1>3, <1>6, <2>1, WeekKept DEF DismissResult
  <1>7. ASSUME NEW r, StartEdit(r) PROVE ScheduleInv' /\ HoldTogether
    <2>1. ChoiceKept
      BY <1>7 DEF StartEdit, Crossed, ChoiceKept
    <2> QED
      BY <1>1, <1>2, <1>3, <1>7, <2>1, WeekKept DEF StartEdit, Crossed
  <1>8. CASE CancelEdit
    <2>1. frmEditor'.on = Nowhere
      BY <1>8 DEF CancelEdit, NoEditor
    <2>2. ChoiceKept
      BY <1>8 DEF CancelEdit, ChoiceKept
    <2> QED
      BY <1>1, <1>2, <1>3, <1>8, <2>1, <2>2, WeekKept DEF CancelEdit
  <1>9. CASE Type
    <2>1. PICK v : frmEditor' = [frmEditor EXCEPT !.form = v]
      BY <1>9 DEF Type
    <2>2. frmEditor'.on = frmEditor.on
      BY <1>1, <2>1 DEF FormsShape
    <2>3. ChoiceKept
      BY <1>9 DEF Type, Crossed, ChoiceKept
    <2> QED
      BY <1>1, <1>2, <1>3, <1>9, <2>2, <2>3, WeekKept DEF Type, Crossed
  <1>10. ASSUME NEW q, MaySend, Sends(q), WeekAwaits(q)', UNCHANGED <<frmEditor, frmChosen>>,
                frmResult' \in {Nowhere, frmResult},
                ~Saving \/ ("editor" \in frmCrossed => "editor" \in frmCrossed'),
                (~Solving /\ frmResult' = Nowhere) \/ ChoiceKept
         PROVE  ScheduleInv' /\ HoldTogether
    <2>1. PICK u : u = UnusedId
      OBVIOUS
    <2>2. OthersStay(u) /\ frmRequest'[u] = q
      BY <1>10, <2>1, SendsOne
    <2>3. WeekAwaits(frmRequest[u])'
      BY <1>10, <2>2 DEF WeekAwaits
    <2>4. ClosesItsOwn
      BY <1>10 DEF ClosesItsOwn
    <2> QED
      BY <1>1, <1>10, <2>2, <2>3, <2>4, WeekKept
  <1>11. CASE Save
    <2>1. PICK q : q = FormRequest(IF frmEditor.new THEN "create" ELSE "save", frmEditor.on, Body)
      OBVIOUS
    <2>2. q.what \in {"create", "save"} /\ q.of = frmEditor.on
      BY <2>1 DEF FormRequest
    <2>3. ~Saving /\ MaySend /\ Sends(q) /\ UNCHANGED <<frmEditor, frmChosen, frmResult>> /\ ChoiceKept
      BY <1>11, <2>1 DEF Save, InWeek, Crossed, ChoiceKept
    <2>4. WeekAwaits(q)'
      BY <2>2, <2>3 DEF WeekAwaits
    <2> QED
      BY <1>10, <2>3, <2>4
  <1>12. CASE deleteShift
    <2>1. PICK q : q = FormRequest("delete", frmEditor.on, Nowhere)
      OBVIOUS
    <2>2. q.what = "delete" /\ q.of = frmEditor.on
      BY <2>1 DEF FormRequest
    <2>3. ~Saving /\ MaySend /\ Sends(q) /\ UNCHANGED <<frmEditor, frmChosen, frmResult>> /\ ChoiceKept
      BY <1>12, <2>1 DEF deleteShift, Crossed, ChoiceKept
    <2>4. WeekAwaits(q)'
      BY <2>2, <2>3 DEF WeekAwaits
    <2> QED
      BY <1>10, <2>3, <2>4
  <1>13. CASE generate
    <2>1. PICK q : q = FormRequest("solve", frmChosen, Nowhere)
      OBVIOUS
    <2>2. q.what = "solve" /\ q.of = frmChosen /\ q.after = ""
      BY <2>1 DEF FormRequest
    <2>3. /\ ~Solving /\ MaySend /\ Sends(q) /\ UNCHANGED <<frmEditor, frmChosen>> /\ frmResult' = Nowhere
          /\ "editor" \in frmCrossed => "editor" \in frmCrossed'
      BY <1>13, <2>1 DEF generate
    <2>4. WeekAwaits(q)'
      BY <2>2, <2>3 DEF WeekAwaits, SolveFits
    <2> QED
      BY <1>10, <2>3, <2>4
  <1>14. CASE Retry
    <2>1. PICK q : q = FormRequest("load", frmChosen, Nowhere)
      OBVIOUS
    <2>2. q.what = "load" /\ q.after = ""
      BY <2>1 DEF FormRequest
    <2>3. /\ MaySend /\ Sends(q) /\ UNCHANGED <<frmEditor, frmChosen, frmResult, frmCrossed>> /\ ChoiceKept
      BY <1>14, <2>1 DEF Retry, ChoiceKept
    <2>4. WeekAwaits(q)'
      BY <2>2 DEF WeekAwaits
    <2> QED
      BY <1>10, <2>3, <2>4
  <1> QED
    BY <1>4, <1>5, <1>6, <1>7, <1>8, <1>9, <1>11, <1>12, <1>13, <1>14, <1>15

LEMMA WeekAnswers ==
  ASSUME FormsOK, InWeek, NEW i \in DOMAIN frmRequest,
         \/ FormHandled(i) \/ FormLost(i) \/ RequestFails(i) \/ ScheduleLoaded(i)
         \/ ShiftSaved(i) \/ Solved(i) \/ Reloaded(i)
  PROVE  ScheduleInv' /\ HoldTogether
  <1>1. PICK q : q = frmRequest[i]
    OBVIOUS
  <1>2. FormsShape /\ WeekAwaits(q)
    BY <1>1 DEF InWeek, FormsOK, FormsInv, ScheduleInv
  <1>3. ASSUME NEW at, NEW answer, Becomes(i, at, answer), SameCase,
               UNCHANGED <<frmChosen, frmResult, frmEditor, frmCrossed>>
        PROVE  ScheduleInv' /\ HoldTogether
    <2>1. WeekAwaits(frmRequest[i])'
      BY <1>1, <1>2, <1>3, FitsKept DEF WeekAwaits, Becomes, SolveFits
    <2>2. ClosesItsOwn /\ OthersStay(i) /\ Kind' = Kind /\ ChoiceKept
      BY <1>3 DEF ClosesItsOwn, Becomes, SameCase, Kind, ChoiceKept
    <2> QED
      BY <1>3, <2>1, <2>2, WeekKept
  <1>4. CASE FormHandled(i)
    <2>1. SameCase /\ UNCHANGED <<frmChosen, frmResult, frmEditor, frmCrossed>>
      BY <1>2, <1>4, StillCase DEF FormHandled
    <2>2. \E at, answer : Becomes(i, at, answer)
      BY <1>2, <1>4, HandledBecomes
    <2> QED
      BY <1>3, <2>1, <2>2
  <1>5. CASE FormLost(i)
    BY <1>2, <1>3, <1>5, LostBecomes
  <1>6. ASSUME RequestEnds(i), Kind' = Kind, UNCHANGED <<frmChosen, frmResult, frmCrossed>>, ClosesItsOwn,
               frmEditor'.on \in {Nowhere, frmEditor.on}
        PROVE  ScheduleInv' /\ HoldTogether
    <2>1. OthersStay(i) /\ i \notin DOMAIN frmRequest' /\ ChoiceKept
      BY <1>6, EndsOne DEF ChoiceKept
    <2> QED
      BY <1>6, <2>1, WeekKept
  <1>7. CASE RequestFails(i) \/ ScheduleLoaded(i)
    <2>1. SameCase
      BY <1>2, <1>7, StillCase, LimitsSpent DEF RequestFails, ScheduleLoaded
    <2> QED
      BY <1>6, <1>7, <2>1 DEF RequestFails, ScheduleLoaded, ClosesItsOwn, SameCase, Kind
  <1>8. CASE Reloaded(i)
    <2>1. /\ RequestEnds(i) /\ Kind' = Kind /\ UNCHANGED <<frmChosen, frmResult, frmCrossed>>
          /\ frmEditor' = IF q.after = "save" THEN NoEditor ELSE frmEditor
      BY <1>1, <1>8 DEF Reloaded, Kind
    <2>2. frmEditor'.on \in {Nowhere, frmEditor.on}
      BY <2>1 DEF NoEditor
    <2>3. \A j \in DOMAIN frmRequest : j # i => j \in DOMAIN frmRequest'
      BY <2>1, EndsOne
    <2>4. q.after # "save" => frmEditor'.on = frmEditor.on
      BY <2>1
    <2>5. ClosesItsOwn
      BY <1>1, <1>2, <2>3, <2>4 DEF ClosesItsOwn, WeekAwaits
    <2> QED
      BY <1>6, <2>1, <2>2, <2>5
  <1>9. ASSUME NEW of, NEW after, GoesOn(i, "reload", of, after), after = "save" => frmEditor.on \in {Nowhere, of} \/ "editor" \in frmCrossed,
               UNCHANGED <<frmCase, frmChosen, frmEditor, frmCrossed>>,
               frmResult' = frmResult \/ SolveFits(frmResult)'
        PROVE  ScheduleInv' /\ HoldTogether
    <2>1. OthersStay(i) /\ frmRequest'[i].what = "reload" /\ frmRequest'[i].of = of /\ frmRequest'[i].after = after
      <3>1. frmRequest'[i] = [what |-> "reload", of |-> of, body |-> Nowhere, at |-> "sent", answer |-> <<>>,
                              chosen |-> frmRequest[i].chosen, after |-> after, live |-> TRUE]
            /\ OthersStay(i)
        BY <1>9, GoesOnOne
      <3> QED
        BY <3>1
    <2>2. WeekAwaits(frmRequest[i])'
      BY <1>9, <2>1 DEF WeekAwaits
    <2>3. ClosesItsOwn /\ Kind' = Kind /\ ChoiceKept
      BY <1>9 DEF ClosesItsOwn, Kind, ChoiceKept
    <2> QED
      BY <1>9, <2>1, <2>2, <2>3, WeekKept
  <1>10. CASE ShiftSaved(i)
    <2>1. frmEditor.on \in {Nowhere, q.of} \/ "editor" \in frmCrossed
      BY <1>1, <1>2, <1>10 DEF ShiftSaved, Answered, WeekAwaits
    <2> QED
      BY <1>1, <1>9, <1>10, <2>1 DEF ShiftSaved
  <1>11. CASE Solved(i)
    <2>1. SolveFits(frmResult)'
      BY <1>1, <1>2, <1>11 DEF Solved, Answered, WeekAwaits, SolveFits
    <2> QED
      BY <1>1, <1>9, <1>11, <2>1 DEF Solved
  <1> QED
    BY <1>4, <1>5, <1>7, <1>8, <1>10, <1>11

LEMMA WeekNext == ASSUME FormsOK, InWeek, FormsNext PROVE ScheduleInv' /\ HoldTogether
  <1>1. CASE SomebodyEdits
    <2>1. OthersStay(0) /\ 0 \notin DOMAIN frmRequest' /\ ClosesItsOwn /\ Kind' = Kind
          /\ UNCHANGED <<frmChosen, frmResult, frmEditor, frmCrossed>> /\ ChoiceKept
      BY <1>1, LimitsSpent, FormsAssumption
      DEF SomebodyEdits, SameCase, Kind, FormsOK, FormsInv, FormsTypeOK, OthersStay, ClosesItsOwn, ChoiceKept
    <2> QED
      BY <2>1, WeekKept
  <1> QED
    BY <1>1, WeekSteps, WeekClicks, WeekAnswers

(* The cost of a unit and week *)

OfCosts == Kind = "costs"

LEMMA CostSteps ==
  ASSUME FormsOK, OfCosts, FormsNext
  PROVE  \/ \E x : ChooseScope(x)
         \/ \E r : submitRate(r)
         \/ RosterArrives
         \/ \E i \in DOMAIN frmRequest : \/ FormHandled(i) \/ FormLost(i) \/ RequestFails(i)
                                         \/ RateSaved(i) \/ RatesEnd(i) \/ WeekAnswer(i)
         \/ SomebodyEdits
  <1>1. \A i \in DOMAIN frmRequest : frmRequest[i].live
    BY DEF OfCosts, FormsOK, FormsInv, FormsShape, IsRequest
  <1>2. frmEditor.on = Nowhere
    BY DEF OfCosts, FormsOK, FormsInv, CostFormInv
  <1> QED
    BY <1>1, <1>2 DEF OfCosts, FormsNext, Chooses, ChooseEmployee, GoWeek, ChooseUnit, Today, DismissResult, StartEdit, Openable,
         CancelEdit, Type, Save, deleteShift, handleCreateUnit, generate, Retry, AnswerDropped, Answered, LoadAnswer,
         ScheduleLoaded, SaveAnswer, FormSaved, UnitCreated, ShiftSaved, Solved, Reloaded

LEMMA CostProperties ==
  ASSUME FormsOK, OfCosts, Kind' = Kind, CostFormInv'
  PROVE  CostFormInv' /\ HoldTogether
  BY DEF OfCosts, HoldTogether, ShowsTheChosen, SaidSaved, ClosesItsOwn, UntouchedKept, ParentsAccepted, CostFormInv,
         FormsOK, FormsInv

\* The requests but x stay as right as they were while nothing is chosen.
LEMMA CostOthers ==
  ASSUME FormsOK, OfCosts, NEW x, OthersStay(x), x \in DOMAIN frmRequest' => CostAwaits(frmRequest[x])',
         \/ ~AnyAwaited
         \/ "choice" \in frmCrossed'
         \/ frmChosen' = frmChosen /\ ("choice" \in frmCrossed => "choice" \in frmCrossed')
  PROVE  \A j \in DOMAIN frmRequest' : CostAwaits(frmRequest[j])'
  <1> SUFFICES ASSUME NEW j \in DOMAIN frmRequest' PROVE CostAwaits(frmRequest[j])'
    OBVIOUS
  <1>1. CASE j = x
    BY <1>1
  <1>2. CASE j # x
    <2>1. j \in DOMAIN frmRequest /\ frmRequest'[j] = frmRequest[j]
      BY <1>2 DEF OthersStay
    <2>2. PICK q : q = frmRequest[j]
      OBVIOUS
    <2>3. CostAwaits(q) /\ q.live
      BY <2>1, <2>2 DEF OfCosts, FormsOK, FormsInv, FormsShape, IsRequest, CostFormInv
    <2>4. AnyAwaited
      BY <2>1, <2>2, <2>3 DEF AnyAwaited
    <2> QED
      BY <2>1, <2>2, <2>3, <2>4 DEF CostAwaits
  <1> QED
    BY <1>1, <1>2

LEMMA CostKept ==
  ASSUME FormsOK, OfCosts, Kind' = Kind, NEW x, OthersStay(x), x \in DOMAIN frmRequest' => CostAwaits(frmRequest[x])',
         \/ ~AnyAwaited
         \/ "choice" \in frmCrossed'
         \/ frmChosen' = frmChosen /\ ("choice" \in frmCrossed => "choice" \in frmCrossed'),
         UNCHANGED frmEditor, ~(frmCase'.roster /\ ~frmCase'.global),
         \/ frmLoading' \/ "loadError" \in frmTold' \/ "choice" \in frmCrossed'
         \/ frmResult' \in {frmChosen', Nowhere}
  PROVE  CostFormInv' /\ HoldTogether
  <1>1. \A j \in DOMAIN frmRequest' : CostAwaits(frmRequest[j])'
    BY CostOthers
  <1>2. CostFormInv'
    BY <1>1 DEF CostFormInv, FormsOK, FormsInv, OfCosts
  <1> QED
    BY <1>2, CostProperties

\* A new choice asks for its week.
LEMMA CostChosen ==
  ASSUME FormsOK, OfCosts, Kind' = Kind, MaySend, NEW scope, LoadWeek(scope), frmChosen' = scope,
         Crossed("choice", AnyAwaited), UNCHANGED frmEditor, ~(frmCase'.roster /\ ~frmCase'.global)
  PROVE  CostFormInv' /\ HoldTogether
  <1>1. PICK q : q = FormRequest("week", scope, Nowhere)
    OBVIOUS
  <1>2. q.what = "week" /\ q.of = scope
    BY <1>1 DEF FormRequest
  <1>3. Sends(q) /\ frmLoading'
    BY <1>1 DEF LoadWeek
  <1>4. PICK u : u = UnusedId
    OBVIOUS
  <1>5. frmRequest'[u] = q /\ OthersStay(u)
    BY <1>3, <1>4, SendsOne
  <1>6. CostAwaits(frmRequest[u])'
    BY <1>2, <1>5 DEF CostAwaits
  <1>7. ~AnyAwaited \/ "choice" \in frmCrossed'
    BY DEF Crossed
  <1> QED
    BY <1>3, <1>5, <1>6, <1>7, CostKept

LEMMA CostClicks ==
  ASSUME FormsOK, OfCosts,
         \/ \E x : ChooseScope(x)
         \/ \E r : submitRate(r)
         \/ RosterArrives
  PROVE  CostFormInv' /\ HoldTogether
  <1>1. FormsShape /\ CostFormInv /\ Kind = "costs"
    BY DEF FormsOK, FormsInv, OfCosts
  <1>2. ASSUME NEW x, ChooseScope(x) PROVE CostFormInv' /\ HoldTogether
    <2>1. /\ Kind' = Kind /\ frmCase'.roster = frmCase.roster /\ frmCase'.global = frmCase.global
          /\ FormClick /\ MaySend /\ frmChosen' = x /\ Crossed("choice", AnyAwaited)
          /\ UNCHANGED <<frmServer, frmShown, frmResult, frmEditor>>
          /\ IF frmCase.roster THEN x[1] = Nowhere ELSE x[1] # Nowhere \/ frmCase.global
          /\ IF x[1] = Nowhere /\ ~frmCase.global THEN UNCHANGED <<frmTold, frmLoading, frmRequest>> ELSE LoadWeek(x)
      BY <1>1, <1>2, ClickSpent DEF ChooseScope, SameCase, Kind
    <2>2. CASE frmCase.roster /\ ~frmCase.global
      <3>1. DOMAIN frmRequest = {} /\ frmLoading
        BY <1>1, <2>2 DEF CostFormInv
      <3>2. UNCHANGED <<frmTold, frmLoading, frmRequest>>
        BY <2>1, <2>2
      <3>3. CostFormInv'
        BY <1>1, <2>1, <3>1, <3>2 DEF CostFormInv
      <3> QED
        BY <2>1, <3>3, CostProperties
    <2>3. CASE ~(frmCase.roster /\ ~frmCase.global)
      <3>1. LoadWeek(x)
        BY <2>1, <2>3
      <3> QED
        BY <2>1, <2>3, <3>1, CostChosen
    <2> QED
      BY <2>2, <2>3
  <1>3. CASE RosterArrives
    <2>1. Kind' = Kind /\ ~frmCase'.roster /\ MaySend /\ Crossed("choice", AnyAwaited) /\ UNCHANGED frmEditor
      BY <1>1, <1>3 DEF RosterArrives, FormsShape, IsFormCase, Kind
    <2>2. PICK scope : frmChosen' = scope /\ LoadWeek(scope)
      BY <1>3 DEF RosterArrives
    <2> QED
      BY <2>1, <2>2, CostChosen
  <1>4. ASSUME NEW r, submitRate(r) PROVE CostFormInv' /\ HoldTogether
    <2>1. PICK v : Sends(FormRequest("save", r, v))
      BY <1>4 DEF submitRate
    <2>2. PICK q : q = FormRequest("save", r, v)
      OBVIOUS
    <2>3. q.what = "save" /\ q.chosen = frmChosen
      BY <2>2 DEF FormRequest
    <2>4. /\ Kind' = Kind /\ frmCase'.global /\ MaySend /\ frmTold' = frmTold \ {"error", "saved"}
          /\ UNCHANGED <<frmChosen, frmResult, frmEditor, frmLoading, frmCrossed>>
      BY <1>1, <1>4, ClickSpent DEF submitRate, SameCase, Kind
    <2>5. PICK u : u = UnusedId
      OBVIOUS
    <2>6. frmRequest'[u] = q /\ OthersStay(u)
      BY <2>1, <2>2, <2>4, <2>5, SendsOne
    <2>7. CostAwaits(frmRequest[u])'
      BY <2>3, <2>4, <2>6 DEF CostAwaits
    <2>8. \/ frmLoading' \/ "loadError" \in frmTold' \/ "choice" \in frmCrossed'
          \/ frmResult' \in {frmChosen', Nowhere}
      BY <1>1, <2>4 DEF CostFormInv
    <2> QED
      BY <2>4, <2>6, <2>7, <2>8, CostKept
  <1> QED
    BY <1>2, <1>3, <1>4

LEMMA CostAnswers ==
  ASSUME FormsOK, OfCosts, NEW i \in DOMAIN frmRequest,
         FormHandled(i) \/ FormLost(i) \/ RequestFails(i) \/ RateSaved(i) \/ RatesEnd(i) \/ WeekAnswer(i)
  PROVE  CostFormInv' /\ HoldTogether
  <1>1. PICK q : q = frmRequest[i]
    OBVIOUS
  <1>2. /\ FormsShape /\ CostAwaits(q) /\ ~(frmCase.roster /\ ~frmCase.global) /\ Kind = "costs"
        /\ \/ frmLoading \/ "loadError" \in frmTold \/ "choice" \in frmCrossed
           \/ frmResult \in {frmChosen, Nowhere}
    BY <1>1 DEF OfCosts, FormsOK, FormsInv, CostFormInv
  <1>3. ASSUME NEW at, NEW answer, Becomes(i, at, answer), SameCase, frmCase'.roster = frmCase.roster,
               UNCHANGED <<frmChosen, frmResult, frmEditor, frmTold, frmLoading, frmCrossed>>
        PROVE  CostFormInv' /\ HoldTogether
    <2>1. CostAwaits(frmRequest[i])'
      BY <1>1, <1>2, <1>3 DEF CostAwaits, Becomes
    <2>2. OthersStay(i) /\ Kind' = Kind /\ ~(frmCase'.roster /\ ~frmCase'.global)
      BY <1>2, <1>3 DEF Becomes, SameCase, Kind
    <2> QED
      BY <1>2, <1>3, <2>1, <2>2, CostKept
  <1>4. CASE FormHandled(i)
    <2>1. SameCase /\ frmCase'.roster = frmCase.roster
          /\ UNCHANGED <<frmChosen, frmResult, frmEditor, frmTold, frmLoading, frmCrossed>>
      BY <1>2, <1>4, StillCase DEF FormHandled
    <2>2. \E at, answer : Becomes(i, at, answer)
      BY <1>2, <1>4, HandledBecomes
    <2> QED
      BY <1>3, <2>1, <2>2
  <1>5. CASE FormLost(i)
    BY <1>2, <1>3, <1>5, LostBecomes
  <1>6. ASSUME RequestEnds(i), UNCHANGED <<frmCase, frmChosen, frmEditor, frmCrossed>>,
               \/ frmLoading' \/ "loadError" \in frmTold' \/ "choice" \in frmCrossed
               \/ frmResult' \in {frmChosen, Nowhere}
        PROVE  CostFormInv' /\ HoldTogether
    <2>1. OthersStay(i) /\ i \notin DOMAIN frmRequest' /\ Kind' = Kind
      BY <1>6, EndsOne DEF Kind
    <2> QED
      BY <1>2, <1>6, <2>1, CostKept
  <1>7. CASE RequestFails(i)
    <2>1. /\ RequestEnds(i) /\ UNCHANGED <<frmCase, frmChosen, frmEditor, frmCrossed, frmResult>>
          /\ frmTold \subseteq frmTold' /\ (q.what = "week" => "loadError" \in frmTold')
          /\ (q.what # "week" /\ q.what # "load" => frmLoading' = frmLoading)
      BY <1>1, <1>2, <1>7 DEF RequestFails, FormsOK, FormsTypeOK
    <2>2. q.what # "load"
      BY <1>2 DEF CostAwaits
    <2> QED
      BY <1>2, <1>6, <2>1, <2>2
  <1>8. CASE WeekAnswer(i)
    <2>1. frmResult' = frmChosen \/ "choice" \in frmCrossed
      BY <1>1, <1>2, <1>8 DEF WeekAnswer, Answered, CostAwaits
    <2> QED
      BY <1>6, <1>8, <2>1 DEF WeekAnswer
  <1>9. ASSUME NEW what \in {"rates", "week"}, NEW of, GoesOn(i, what, of, "save"), what = "week" => of = q.chosen, q.what # "week",
               UNCHANGED <<frmCase, frmChosen, frmResult, frmEditor, frmCrossed>>,
               frmLoading' \/ (frmLoading' = frmLoading /\ frmTold \subseteq frmTold')
        PROVE  CostFormInv' /\ HoldTogether
    <2>1. frmRequest'[i] = [what |-> what, of |-> of, body |-> Nowhere, at |-> "sent", answer |-> <<>>,
                            chosen |-> frmRequest[i].chosen, after |-> "save", live |-> TRUE]
          /\ OthersStay(i)
      BY <1>9, GoesOnOne
    <2>2. frmRequest'[i].what = what /\ frmRequest'[i].of = of /\ frmRequest'[i].chosen = q.chosen
      BY <1>1, <2>1
    <2>3. CostAwaits(frmRequest[i])'
      BY <1>2, <1>9, <2>2 DEF CostAwaits
    <2>4. Kind' = Kind
      BY <1>9 DEF Kind
    <2> QED
      BY <1>2, <1>9, <2>1, <2>3, <2>4, CostKept
  <1>10. CASE RateSaved(i)
    BY <1>1, <1>9, <1>10 DEF RateSaved, Answered
  <1>11. CASE RatesEnd(i)
    BY <1>1, <1>9, <1>11 DEF RatesEnd
  <1> QED
    BY <1>4, <1>5, <1>7, <1>8, <1>10, <1>11

LEMMA CostNext == ASSUME FormsOK, OfCosts, FormsNext PROVE CostFormInv' /\ HoldTogether
  <1>1. CASE SomebodyEdits
    <2>1. /\ Kind' = Kind /\ frmCase'.roster = frmCase.roster /\ frmCase'.global = frmCase.global
          /\ UNCHANGED <<frmChosen, frmResult, frmEditor, frmTold, frmLoading, frmRequest, frmCrossed>>
      BY <1>1 DEF SomebodyEdits, FormsOK, FormsInv, FormsShape, IsFormCase, Kind
    <2>2. \A j \in DOMAIN frmRequest : CostAwaits(frmRequest[j]) => CostAwaits(frmRequest[j])'
      BY <2>1 DEF CostAwaits
    <2>3. CostFormInv'
      BY <2>1, <2>2 DEF FormsOK, FormsInv, CostFormInv, OfCosts
    <2> QED
      BY <2>1, <2>3, CostProperties
  <1> QED
    BY <1>1, CostSteps, CostClicks, CostAnswers

(* Trees of units *)

WalkStep(parents, p, it, n) ==
  IF n = 0 THEN p ELSE IF it[n - 1] \in DOMAIN parents THEN parents[it[n - 1]] ELSE Nowhere
WalkUpTo(parents, p, it, n) == it = [v \in 0..n |-> WalkStep(parents, p, it, v)]

LEMMA WalksExist ==
  ASSUME NEW parents, NEW p, NEW w \in Nat
  PROVE  \E it : WalkUpTo(parents, p, it, w)
  <1> DEFINE B == {n \in Nat : ~\E it : WalkUpTo(parents, p, it, n)}
  <1>1. SUFFICES ASSUME B # {} PROVE FALSE
    OBVIOUS
  <1>2. PICK n \in B : \A m \in B : n <= m
    <2>1. B \in SUBSET Nat
      OBVIOUS
    <2> HIDE DEF B
    <2> QED
      BY <1>1, <2>1, LeastIn
  <1>3. CASE n = 0
    <2> DEFINE it == [v \in 0..0 |-> WalkStep(parents, p, <<>>, v)]
    <2>1. \A v \in 0..0 : WalkStep(parents, p, <<>>, v) = WalkStep(parents, p, it, v)
      BY DEF WalkStep
    <2> HIDE DEF it
    <2>2. it = [v \in 0..0 |-> WalkStep(parents, p, it, v)]
      BY <2>1 DEF it
    <2> QED
      BY <1>2, <1>3, <2>2 DEF WalkUpTo
  <1>4. CASE n # 0
    <2>1. n - 1 \in Nat /\ n - 1 \notin B
      BY <1>2, <1>4
    <2>2. PICK f : WalkUpTo(parents, p, f, n - 1)
      BY <2>1
    <2> DEFINE it == [v \in 0..n |-> WalkStep(parents, p, f, v)]
    <2>3. ASSUME NEW v \in 0..n PROVE WalkStep(parents, p, f, v) = WalkStep(parents, p, it, v)
      <3>1. CASE v = 0
        BY <3>1 DEF WalkStep
      <3>2. CASE v # 0
        <4>1. v - 1 \in 0..(n - 1) /\ v - 1 \in 0..n
          BY <1>2, <3>2
        <4>2. f[v - 1] = WalkStep(parents, p, f, v - 1)
          BY <2>2, <4>1 DEF WalkUpTo
        <4>3. it[v - 1] = f[v - 1]
          BY <4>1, <4>2
        <4> HIDE DEF it
        <4> QED
          BY <3>2, <4>3 DEF WalkStep
      <3> QED
        BY <3>1, <3>2
    <2>4. it = [v \in 0..n |-> WalkStep(parents, p, it, v)]
      <3>1. it = [v \in 0..n |-> it[v]] /\ \A v \in 0..n : it[v] = WalkStep(parents, p, f, v)
        OBVIOUS
      <3> HIDE DEF it
      <3> QED
        BY <2>3, <3>1
    <2> QED
      BY <1>2, <2>4 DEF WalkUpTo
  <1> QED
    BY <1>3, <1>4

\* The walk of a form, place by place.
LEMMA WalkPlaces ==
  ASSUME NEW parents, NEW p, IsFiniteSet(DOMAIN parents)
  PROVE  LET up == Ancestor(parents, p)
             n == Cardinality(DOMAIN parents)
         IN  /\ n \in Nat /\ up[0] = p
             /\ \A k \in 1..n : up[k] = IF up[k - 1] \in DOMAIN parents THEN parents[up[k - 1]] ELSE Nowhere
  <1> DEFINE n == Cardinality(DOMAIN parents)
             up == CHOOSE it : WalkUpTo(parents, p, it, n)
  <1>1. Ancestor(parents, p) = up
    BY DEF Ancestor, WalkUpTo, WalkStep
  <1>2. n \in Nat
    BY FS_CardinalityType
  <1>3. WalkUpTo(parents, p, up, n)
    BY <1>2, WalksExist
  <1> HIDE DEF n, up
  <1>4. \A k \in 0..n : up[k] = WalkStep(parents, p, up, k)
    BY <1>3 DEF WalkUpTo
  <1>5. up[0] = p /\ \A k \in 1..n : up[k] = IF up[k - 1] \in DOMAIN parents THEN parents[up[k - 1]] ELSE Nowhere
    BY <1>2, <1>4 DEF WalkStep
  <1> QED
    BY <1>1, <1>2, <1>5 DEF n

\* What the form accepts closes no cycle in the tree that it shows: from a
\* parent below the unit the walk would come to the unit, and a walk that
\* comes back to another place is a cycle that was there before.
LEMMA AcceptedParent ==
  ASSUME NEW parents, IsFiniteSet(DOMAIN parents), ~ClosesCycle(parents), NEW id \in DOMAIN parents, NEW p,
         ~wouldCreateCycle(parents, id, p)
  PROVE  ~ClosesCycle(Upon(OneRow(id, p), parents))
  <1> DEFINE moved == Upon(OneRow(id, p), parents)
  <1>1. SUFFICES ASSUME ClosesCycle(moved) PROVE FALSE
    OBVIOUS
  <1>2. DOMAIN moved = DOMAIN parents /\ moved[id] = p /\ \A u \in DOMAIN parents \ {id} : moved[u] = parents[u]
    BY DEF Upon, OneRow
  <1> HIDE DEF moved
  <1>3. PICK loop \in SUBSET DOMAIN parents : loop # {} /\ \A u \in loop : moved[u] \in loop
    BY <1>1, <1>2 DEF ClosesCycle
  <1>4. id \in loop
    <2> SUFFICES ASSUME id \notin loop PROVE FALSE
      OBVIOUS
    <2>1. \A u \in loop : parents[u] \in loop
      BY <1>2, <1>3
    <2> QED
      BY <1>3, <2>1 DEF ClosesCycle
  <1>5. PICK up, n : up = Ancestor(parents, p) /\ n = Cardinality(DOMAIN parents)
    OBVIOUS
  <1>6. /\ n \in Nat /\ up[0] = p
        /\ \A k \in 1..n : up[k] = IF up[k - 1] \in DOMAIN parents THEN parents[up[k - 1]] ELSE Nowhere
        /\ \A k \in 0..n : up[k] # id
    BY <1>5, WalkPlaces DEF wouldCreateCycle
  <1>7. \A k \in 0..n : up[k] \in loop
    <2> DEFINE B == {k \in 0..n : up[k] \notin loop}
    <2>1. SUFFICES ASSUME B # {} PROVE FALSE
      OBVIOUS
    <2>2. PICK k \in B : \A m \in B : k <= m
      <3>1. B \in SUBSET Nat
        BY <1>6
      <3> HIDE DEF B
      <3> QED
        BY <2>1, <3>1, LeastIn
    <2>3. k # 0
      BY <1>2, <1>3, <1>4, <1>6, <2>2
    <2>4. k \in 1..n /\ k - 1 \in 0..n /\ k - 1 \notin B
      BY <1>6, <2>2, <2>3
    <2>5. up[k - 1] \in loop \ {id}
      BY <1>6, <2>4
    <2>6. up[k] = parents[up[k - 1]]
      BY <1>3, <1>6, <2>4, <2>5
    <2> QED
      BY <1>2, <1>3, <2>2, <2>5, <2>6
  <1>8. \A k \in 1..n : up[k] = parents[up[k - 1]]
    BY <1>3, <1>6, <1>7
  <1>9. PICK i, j \in 0..n : i < j /\ up[i] = up[j]
    <2> DEFINE at == [k \in 0..n |-> up[k]]
    <2>1. at \in [0..n -> DOMAIN parents]
      BY <1>3, <1>7
    <2>2. IsFiniteSet(0..n) /\ Cardinality(0..n) = n + 1
      BY <1>6, FS_Interval
    <2>3. Cardinality(DOMAIN parents) < Cardinality(0..n)
      BY <1>5, <1>6, <2>2
    <2>4. \A k \in 0..n : at[k] = up[k]
      OBVIOUS
    <2> HIDE DEF at
    <2>5. PICK x, y \in 0..n : x # y /\ at[x] = at[y]
      BY <2>1, <2>2, <2>3, FS_PigeonHole
    <2> QED
      BY <1>6, <2>4, <2>5
  <1> DEFINE back == {up[k] : k \in i..(j - 1)}
  <1>10. back # {} /\ back \subseteq DOMAIN parents
    <2>1. i \in i..(j - 1) /\ i..(j - 1) \subseteq 0..n
      BY <1>6, <1>9
    <2> QED
      BY <1>3, <1>7, <2>1
  <1>11. ASSUME NEW u \in back PROVE parents[u] \in back
    <2>1. PICK k \in i..(j - 1) : u = up[k]
      OBVIOUS
    <2>2. k + 1 \in 1..n /\ (k + 1) - 1 = k /\ (k + 1 \in i..(j - 1) \/ k + 1 = j) /\ i \in i..(j - 1)
      BY <1>6, <1>9, <2>1
    <2>3. parents[u] = up[k + 1]
      BY <1>8, <2>1, <2>2
    <2>4. CASE k + 1 = j
      BY <1>9, <2>2, <2>3, <2>4
    <2> QED
      BY <2>2, <2>3, <2>4
  <1> QED
    BY <1>10, <1>11 DEF ClosesCycle

\* A new unit below one that is there is a leaf.
LEMMA NewLeaf ==
  ASSUME NEW parents, ~ClosesCycle(parents), NEW r, r \notin DOMAIN parents,
         \A u \in DOMAIN parents : parents[u] # r, NEW p, p # r
  PROVE  ~ClosesCycle(Upon(OneRow(r, p), parents))
  <1> DEFINE grown == Upon(OneRow(r, p), parents)
  <1>1. SUFFICES ASSUME ClosesCycle(grown) PROVE FALSE
    OBVIOUS
  <1>2. DOMAIN grown = DOMAIN parents \cup {r} /\ grown[r] = p /\ \A u \in DOMAIN parents : grown[u] = parents[u]
    BY DEF Upon, OneRow
  <1> HIDE DEF grown
  <1>3. PICK loop \in SUBSET (DOMAIN parents \cup {r}) : loop # {} /\ \A u \in loop : grown[u] \in loop
    BY <1>1, <1>2 DEF ClosesCycle
  <1>4. PICK rest : rest = loop \ {r}
    OBVIOUS
  <1>5. rest \subseteq DOMAIN parents /\ rest # {}
    BY <1>2, <1>3, <1>4
  <1>6. \A u \in rest : parents[u] \in rest
    BY <1>2, <1>3, <1>4
  <1> QED
    BY <1>5, <1>6 DEF ClosesCycle

LEMMA GrownForest ==
  ASSUME NEW parents, IsForest(parents), NEW r, r \notin DOMAIN parents, r # Nowhere, NEW p \in DOMAIN parents \cup {Nowhere}
  PROVE  IsForest(Upon(OneRow(r, p), parents))
  <1>1. ~ClosesCycle(Upon(OneRow(r, p), parents))
    BY NewLeaf DEF IsForest
  <1>2. \A u \in DOMAIN Upon(OneRow(r, p), parents) :
           Upon(OneRow(r, p), parents)[u] \in DOMAIN Upon(OneRow(r, p), parents) \cup {Nowhere}
    BY DEF Upon, OneRow, IsForest
  <1> QED
    BY <1>1, <1>2 DEF IsForest

LEMMA MovedForest ==
  ASSUME NEW parents, IsForest(parents), NEW r \in DOMAIN parents, NEW p \in DOMAIN parents \cup {Nowhere},
         ~ClosesCycle(Upon(OneRow(r, p), parents))
  PROVE  IsForest(Upon(OneRow(r, p), parents))
  <1>1. \A u \in DOMAIN Upon(OneRow(r, p), parents) :
           Upon(OneRow(r, p), parents)[u] \in DOMAIN Upon(OneRow(r, p), parents) \cup {Nowhere}
    BY DEF Upon, OneRow, IsForest
  <1> QED
    BY <1>1 DEF IsForest

\* A move that fits a tree fits it with one more leaf.
LEMMA MovedWithLeaf ==
  ASSUME NEW parents, IsForest(parents), NEW id \in DOMAIN parents, NEW p \in DOMAIN parents \cup {Nowhere},
         ~ClosesCycle(Upon(OneRow(id, p), parents)),
         NEW r, r \notin DOMAIN parents, r # Nowhere, NEW v \in DOMAIN parents \cup {Nowhere}
  PROVE  ~ClosesCycle(Upon(OneRow(id, p), Upon(OneRow(r, v), parents)))
  <1>1. Upon(OneRow(id, p), Upon(OneRow(r, v), parents)) = Upon(OneRow(r, v), Upon(OneRow(id, p), parents))
    <2> DEFINE D == DOMAIN parents \cup {r}
               F == [u \in D |-> IF u = id THEN p ELSE IF u = r THEN v ELSE parents[u]]
    <2>1. Upon(OneRow(id, p), Upon(OneRow(r, v), parents)) = F
      BY DEF Upon, OneRow
    <2>2. Upon(OneRow(r, v), Upon(OneRow(id, p), parents)) = F
      BY DEF Upon, OneRow
    <2> QED
      BY <2>1, <2>2
  <1>2. DOMAIN Upon(OneRow(id, p), parents) = DOMAIN parents
        /\ \A u \in DOMAIN parents : Upon(OneRow(id, p), parents)[u] # r
    BY DEF Upon, OneRow, IsForest
  <1>3. ~ClosesCycle(Upon(OneRow(r, v), Upon(OneRow(id, p), parents)))
    BY <1>2, NewLeaf
  <1> QED
    BY <1>1, <1>3

(* The tree of units, its forms and its requests *)

OfUnits == Kind = "units"

LEMMA UnitSteps ==
  ASSUME FormsOK, OfUnits, FormsNext
  PROVE  \/ \E r \in Rows \cup {Cell} : StartEdit(r)
         \/ CancelEdit \/ Type \/ Save \/ handleCreateUnit \/ Retry
         \/ \E i \in DOMAIN frmRequest : \/ FormHandled(i) \/ FormLost(i) \/ RequestFails(i)
                                         \/ LoadAnswer(i) \/ SaveAnswer(i) \/ UnitCreated(i)
         \/ SomebodyEdits
  <1>1. \A i \in DOMAIN frmRequest : frmRequest[i].live /\ frmRequest[i].what # "rates"
    BY DEF OfUnits, FormsOK, FormsInv, FormsShape, IsRequest, UnitsInv, TreeAwaits
  <1> QED
    BY <1>1 DEF OfUnits, Rows, FormsNext, Chooses, ChooseEmployee, GoWeek, ChooseUnit, ChooseScope, Today, DismissResult, RosterArrives,
         deleteShift, generate, submitRate, AnswerDropped, Answered, ScheduleLoaded, FormSaved, ShiftSaved, Solved, Reloaded,
         RateSaved, RatesEnd, WeekAnswer

\* What the screen has to show of a step is that an editor is closed by its
\* own answer; what the backend refuses does not fit its tree, which then is
\* not the one shown.
LEMMA UnitProperties ==
  ASSUME FormsOK, OfUnits, Kind' = Kind, ClosesItsOwn
  PROVE  HoldTogether
  <1>1. ASSUME NEW i \in DOMAIN frmRequest, frmRequest[i].at = "sent", Outcome(frmRequest[i]) = {}, frmServer = frmShown
        PROVE  FALSE
    <2>1. PICK q : q = frmRequest[i]
      OBVIOUS
    <2>2. TreeAwaits(q) /\ q.at = "sent" /\ Outcome(q) = {} /\ Kind = "units"
      BY <1>1, <2>1 DEF FormsOK, FormsInv, UnitsInv, OfUnits
    <2>3. CASE q.what = "load"
      BY <2>2, <2>3 DEF Outcome, Reads
    <2>4. CASE q.what = "create"
      <3>1. PICK r : r \in frmCase.more \ DOMAIN frmServer
        BY <2>2, <2>4 DEF TreeAwaits
      <3>2. [rows |-> Upon(OneRow(r, q.body), frmServer), answer |-> OneRow(r, q.body)] \in Outcome(q)
        BY <2>4, <3>1 DEF Outcome, Reads
      <3> QED
        BY <2>2, <3>2
    <2>5. CASE q.what = "save"
      <3>1. q.of \in DOMAIN frmServer /\ ~ClosesCycle(Upon(OneRow(q.of, q.body), frmServer))
        BY <1>1, <2>2, <2>5 DEF TreeAwaits
      <3>2. PICK o : o = [rows |-> Upon(OneRow(q.of, q.body), frmServer), answer |-> OneRow(q.of, q.body)]
        OBVIOUS
      <3>3. ~ClosesCycle(o.rows)
        BY <3>1, <3>2
      <3>4. o \in Outcome(q)
        BY <2>2, <2>5, <3>1, <3>2, <3>3 DEF Outcome, Reads
      <3> QED
        BY <2>2, <3>4
    <2> QED
      BY <2>2, <2>3, <2>4, <2>5 DEF TreeAwaits
  <1>2. ParentsAccepted
    BY <1>1 DEF ParentsAccepted
  <1> QED
    BY <1>2 DEF OfUnits, HoldTogether, ShowsTheChosen, SaidSaved, UntouchedKept

\* What is known before a step.
LEMMA UnitFacts ==
  ASSUME FormsOK, OfUnits
  PROVE  /\ IsForest(frmServer) /\ IsForest(frmShown) /\ IsFiniteSet(DOMAIN frmShown)
         /\ DOMAIN frmShown \subseteq DOMAIN frmServer
         /\ DOMAIN frmServer \subseteq Rows /\ Nowhere \notin Rows /\ Cell \notin Rows /\ frmCase.more \subseteq Rows
         /\ ~frmEditor.new
         /\ frmEditor.on # Nowhere =>
              Loaded /\ frmEditor.on \in DOMAIN frmShown /\ frmEditor.form \in DOMAIN frmShown \cup {Nowhere}
         /\ \A i \in DOMAIN frmRequest : TreeAwaits(frmRequest[i]) /\ frmRequest[i].live
         /\ OneOfEach /\ FormsShape /\ FormsTypeOK
  <1>1. /\ FormsTypeOK /\ FormsShape /\ UnitsInv /\ Kind = "units"
    BY DEF FormsOK, FormsInv, OfUnits
  <1>2. IsFiniteSet(Rows) /\ DOMAIN frmShown \subseteq Rows /\ DOMAIN frmServer \subseteq Rows
        /\ Nowhere \notin Rows /\ Cell \notin Rows /\ frmCase.more \subseteq Rows
    BY <1>1 DEF FormsTypeOK, FormsShape, IsFormCase, Rows
  <1>3. IsFiniteSet(DOMAIN frmShown)
    BY <1>2, FS_Subset
  <1> QED
    BY <1>1, <1>2, <1>3 DEF UnitsInv, FormsShape, IsRequest

\* A click without a request.
LEMMA UnitStays ==
  ASSUME FormsOK, OfUnits, Kind' = Kind, frmCase'.more = frmCase.more,
         UNCHANGED <<frmServer, frmShown, frmLoading, frmRequest>>,
         "loadError" \in frmTold' <=> "loadError" \in frmTold, ~frmEditor'.new,
         frmEditor'.on # Nowhere =>
            Loaded /\ frmEditor'.on \in DOMAIN frmShown /\ frmEditor'.form \in DOMAIN frmShown \cup {Nowhere},
         \/ ~Saving
         \/ "editor" \in frmCrossed'
         \/ frmEditor'.on \in {Nowhere, frmEditor.on} /\ ("editor" \in frmCrossed => "editor" \in frmCrossed')
  PROVE  UnitsInv' /\ HoldTogether
  <1>1. Loaded' = Loaded
    BY DEF Loaded
  <1>2. ASSUME NEW j \in DOMAIN frmRequest PROVE TreeAwaits(frmRequest[j])'
    <2>1. PICK q : q = frmRequest[j]
      OBVIOUS
    <2>2. TreeAwaits(q) /\ q.live
      BY <2>1, UnitFacts
    <2>3. q.what = "save" => Saving
      BY <2>1, <2>2 DEF Saving
    <2>4. frmRequest'[j] = q
      BY <2>1
    <2> QED
      BY <1>1, <2>2, <2>3, <2>4 DEF TreeAwaits
  <1>3. UnitsInv'
    BY <1>1, <1>2, UnitFacts DEF UnitsInv, OneOfEach
  <1> QED
    BY <1>3, UnitProperties DEF ClosesItsOwn

\* A click with one.
LEMMA UnitAsks ==
  ASSUME FormsOK, OfUnits, Kind' = Kind, frmCase'.more = frmCase.more, UNCHANGED <<frmServer, frmShown, frmEditor>>,
         MaySend, NEW q, Sends(q), \A i \in DOMAIN frmRequest : frmRequest[i].what # q.what,
         TreeAwaits(q)', frmEditor.on # Nowhere => Loaded',
         \A i \in DOMAIN frmRequest : frmRequest'[i] = frmRequest[i] => TreeAwaits(frmRequest[i])'
  PROVE  UnitsInv' /\ HoldTogether
  <1>1. OneOfEach'
    BY UnitFacts, OneMore
  <1>2. PICK u : u = UnusedId
    OBVIOUS
  <1>3. DOMAIN frmRequest' = DOMAIN frmRequest \cup {u} /\ frmRequest'[u] = q /\ OthersStay(u)
    BY <1>2, SendsOne
  <1>4. ASSUME NEW j \in DOMAIN frmRequest' PROVE TreeAwaits(frmRequest[j])'
    <2>1. CASE j = u
      BY <1>3, <2>1 DEF TreeAwaits
    <2>2. CASE j # u
      BY <1>3, <2>2 DEF OthersStay
    <2> QED
      BY <2>1, <2>2
  <1>5. UnitsInv'
    BY <1>1, <1>4, UnitFacts DEF UnitsInv
  <1> QED
    BY <1>5, UnitProperties DEF ClosesItsOwn

LEMMA UnitClicks ==
  ASSUME FormsOK, OfUnits, \/ \E r \in Rows \cup {Cell} : StartEdit(r)
                           \/ CancelEdit \/ Type \/ Save \/ handleCreateUnit \/ Retry
  PROVE  UnitsInv' /\ HoldTogether
  <1>1. Kind' = Kind /\ frmCase'.more = frmCase.more /\ UNCHANGED <<frmServer, frmShown>>
    BY ClickSpent DEF FormsOK, FormsInv, SameCase, Kind, StartEdit, CancelEdit, Type, Save, handleCreateUnit, Retry
  <1>2. ASSUME NEW r, StartEdit(r) PROVE UnitsInv' /\ HoldTogether
    <2>1. /\ r \in DOMAIN frmShown /\ ~frmLoading /\ "loadError" \notin frmTold
          /\ frmEditor' = [on |-> r, new |-> r = Cell, form |-> IF r = Cell THEN 0 ELSE frmShown[r]]
          /\ frmTold' = frmTold \ {"error", "saved"} /\ UNCHANGED <<frmLoading, frmRequest>>
      BY <1>2 DEF StartEdit, Openable, OfUnits
    <2>2. r # Cell
      BY <2>1, UnitFacts
    <2>3. frmEditor'.on = r /\ frmEditor'.form = frmShown[r] /\ ~frmEditor'.new
      BY <2>1, <2>2
    <2>4. frmShown[r] \in DOMAIN frmShown \cup {Nowhere} /\ Loaded
      BY <2>1, UnitFacts DEF IsForest, Loaded
    <2>5. ~Saving \/ "editor" \in frmCrossed'
      BY <1>2 DEF StartEdit, Crossed
    <2>6. "loadError" \in frmTold' <=> "loadError" \in frmTold
      BY <2>1
    <2> QED
      BY <1>1, <2>1, <2>3, <2>4, <2>5, <2>6, UnitStays
  <1>3. CASE CancelEdit
    <2>1. frmEditor'.on = Nowhere /\ ~frmEditor'.new /\ ~Saving /\ UNCHANGED <<frmLoading, frmRequest>>
          /\ ("loadError" \in frmTold' <=> "loadError" \in frmTold)
      BY <1>3 DEF CancelEdit, NoEditor, OfUnits
    <2> QED
      BY <1>1, <2>1, UnitStays
  <1>4. CASE Type
    <2>1. PICK v \in parentOptions(frmEditor.on) : frmEditor' = [frmEditor EXCEPT !.form = v]
      BY <1>4 DEF Type, OfUnits
    <2>2. frmEditor'.on = frmEditor.on /\ frmEditor'.form = v /\ ~frmEditor'.new
      BY <2>1, UnitFacts DEF FormsShape
    <2>3. v \in DOMAIN frmShown \cup {Nowhere}
      BY <2>1 DEF parentOptions
    <2>4. frmTold' = frmTold /\ UNCHANGED <<frmLoading, frmRequest>>
          /\ ("editor" \in frmCrossed => "editor" \in frmCrossed')
      BY <1>4 DEF Type, OfUnits, Crossed
    <2> QED
      BY <1>1, <2>2, <2>3, <2>4, UnitFacts, UnitStays
  <1>5. CASE Save
    <2>1. frmEditor.on # Nowhere /\ ~Saving /\ MaySend /\ UNCHANGED <<frmEditor, frmLoading>>
      BY <1>5 DEF Save
    <2>2. CASE wouldCreateCycle(frmShown, frmEditor.on, frmEditor.form)
      <3>1. frmTold' = frmTold \cup {"error"} /\ UNCHANGED <<frmRequest, frmCrossed>>
        BY <1>5, <2>2 DEF Save, OfUnits
      <3>2. "loadError" \in frmTold' <=> "loadError" \in frmTold
        BY <3>1
      <3> QED
        BY <1>1, <2>1, <3>1, <3>2, UnitFacts, UnitStays
    <2>3. CASE ~wouldCreateCycle(frmShown, frmEditor.on, frmEditor.form)
      <3>1. PICK q : q = FormRequest("save", frmEditor.on, frmEditor.form)
        OBVIOUS
      <3>2. q.what = "save" /\ q.after = "" /\ q.at = "sent" /\ q.of = frmEditor.on /\ q.body = frmEditor.form
        BY <3>1 DEF FormRequest
      <3>3. /\ Sends(q) /\ frmTold' = frmTold \ {"error", "saved"} /\ "editor" \notin frmCrossed'
        BY <1>5, <2>3, <3>1, UnitFacts DEF Save, Body, OfUnits, Crossed
      <3>4. \A i \in DOMAIN frmRequest : frmRequest[i].what # "save"
        BY <2>1, UnitFacts DEF Saving
      <3>5. ~ClosesCycle(Upon(OneRow(q.of, q.body), frmShown))
        BY <2>1, <2>3, <3>2, UnitFacts, AcceptedParent DEF IsForest
      <3>6. Loaded /\ Loaded'
        BY <2>1, <3>3, UnitFacts DEF Loaded
      <3>7. TreeAwaits(q)'
        BY <1>1, <2>1, <3>2, <3>5, <3>6, UnitFacts DEF TreeAwaits
      <3>8. ASSUME NEW i \in DOMAIN frmRequest, frmRequest'[i] = frmRequest[i] PROVE TreeAwaits(frmRequest[i])'
        <4>1. TreeAwaits(frmRequest[i]) /\ frmRequest[i].what # "save"
          BY <3>4, UnitFacts
        <4>2. frmLoading' = frmLoading /\ ("loadError" \in frmTold' <=> "loadError" \in frmTold)
          BY <2>1, <3>3
        <4> QED
          BY <1>1, <3>6, <3>8, <4>1, <4>2 DEF TreeAwaits
      <3> QED
        BY <1>1, <2>1, <3>2, <3>3, <3>4, <3>6, <3>7, <3>8, UnitAsks
    <2> QED
      BY <2>2, <2>3
  <1>6. CASE handleCreateUnit
    <2>1. PICK p \in {Nowhere} \cup DOMAIN frmShown : Sends(FormRequest("create", Nowhere, p))
      BY <1>6 DEF handleCreateUnit
    <2>2. PICK q : q = FormRequest("create", Nowhere, p)
      OBVIOUS
    <2>3. q.what = "create" /\ q.after = "" /\ q.at = "sent" /\ q.body = p
      BY <2>2 DEF FormRequest
    <2>4. /\ Loaded /\ MaySend /\ frmCase.more \ DOMAIN frmServer # {} /\ frmTold' = frmTold \ {"createError"}
          /\ UNCHANGED <<frmEditor, frmLoading, frmCrossed>> /\ ~FormAwaited({"create"})
      BY <1>6 DEF handleCreateUnit, Loaded
    <2>5. \A i \in DOMAIN frmRequest : frmRequest[i].what # "create"
      BY <2>4, UnitFacts DEF FormAwaited
    <2>6. Loaded' /\ ("loadError" \in frmTold' <=> "loadError" \in frmTold)
      BY <2>4 DEF Loaded
    <2>7. TreeAwaits(q)'
      BY <1>1, <2>3, <2>4, <2>6 DEF TreeAwaits
    <2>8. ASSUME NEW i \in DOMAIN frmRequest, frmRequest'[i] = frmRequest[i] PROVE TreeAwaits(frmRequest[i])'
      <3>1. TreeAwaits(frmRequest[i]) /\ frmRequest[i].what # "create"
        BY <2>5, UnitFacts
      <3> QED
        BY <1>1, <2>4, <2>6, <2>8, <3>1 DEF TreeAwaits
    <2> QED
      BY <1>1, <2>1, <2>2, <2>3, <2>4, <2>5, <2>6, <2>7, <2>8, UnitAsks
  <1>7. CASE Retry
    <2>1. /\ "loadError" \in frmTold /\ ~frmLoading /\ MaySend
          /\ Sends(FormRequest("load", frmChosen, Nowhere)) /\ frmLoading' /\ frmTold' = frmTold \ {"loadError"}
          /\ UNCHANGED <<frmEditor, frmCrossed>>
      BY <1>7 DEF Retry
    <2>2. PICK q : q = FormRequest("load", frmChosen, Nowhere)
      OBVIOUS
    <2>3. q.what = "load" /\ q.after = "" /\ q.at = "sent"
      BY <2>2 DEF FormRequest
    <2>4. DOMAIN frmRequest = {} /\ frmEditor.on = Nowhere
      BY <2>1, UnitFacts DEF TreeAwaits, Loaded
    <2>5. TreeAwaits(q)'
      BY <2>1, <2>3 DEF TreeAwaits
    <2> QED
      BY <1>1, <2>1, <2>2, <2>4, <2>5, UnitAsks
  <1> QED
    BY <1>2, <1>3, <1>4, <1>5, <1>6, <1>7

\* The backend has handled a request, or it is lost.
LEMMA UnitHandled ==
  ASSUME FormsOK, OfUnits, Kind' = Kind, frmCase'.more = frmCase.more,
         UNCHANGED <<frmShown, frmEditor, frmTold, frmLoading, frmCrossed>>,
         NEW i \in DOMAIN frmRequest, NEW at \in {"answered", "failed"}, NEW answer, Becomes(i, at, answer),
         IsForest(frmServer'), DOMAIN frmServer \subseteq DOMAIN frmServer',
         frmRequest[i].what # "create" => DOMAIN frmServer' = DOMAIN frmServer,
         at = "answered" =>
            LET q == frmRequest[i]
            IN  CASE q.what = "load" -> IsForest(answer) /\ DOMAIN answer \subseteq DOMAIN frmServer'
                  [] q.what = "save" -> answer = OneRow(q.of, q.body)
                  [] q.what = "create" -> \E r \in DOMAIN frmServer' \ DOMAIN frmShown : answer = OneRow(r, q.body)
  PROVE  UnitsInv' /\ HoldTogether
  <1>1. OneOfEach' /\ Loaded' = Loaded
    BY UnitFacts, OneChanged DEF Loaded
  <1>2. PICK q : q = frmRequest[i]
    OBVIOUS
  <1>3. TreeAwaits(q) /\ q.what \in {"load", "save", "create"}
    BY <1>2, UnitFacts DEF TreeAwaits
  <1>4. PICK p : p = frmRequest'[i]
    OBVIOUS
  <1>5. /\ p.what = q.what /\ p.of = q.of /\ p.body = q.body /\ p.after = q.after /\ p.at = at /\ p.answer = answer
        /\ DOMAIN frmRequest' = DOMAIN frmRequest
        /\ \A j \in DOMAIN frmRequest \ {i} : frmRequest'[j] = frmRequest[j]
    BY <1>2, <1>4 DEF Becomes, OthersStay
  <1>6. TreeAwaits(frmRequest[i])'
    <2>1. CASE q.what = "load"
      BY <1>1, <1>2, <1>3, <1>4, <1>5, <2>1 DEF TreeAwaits
    <2>2. CASE q.what = "save"
      BY <1>1, <1>2, <1>3, <1>4, <1>5, <2>2 DEF TreeAwaits
    <2>3. CASE q.what = "create"
      BY <1>1, <1>2, <1>3, <1>4, <1>5, <2>3 DEF TreeAwaits
    <2> QED
      BY <1>3, <2>1, <2>2, <2>3
  <1>7. ASSUME NEW j \in DOMAIN frmRequest, j # i PROVE TreeAwaits(frmRequest[j])'
    <2>1. PICK r : r = frmRequest[j]
      OBVIOUS
    <2>2. TreeAwaits(r) /\ frmRequest'[j] = r /\ r.what # q.what
      BY <1>2, <1>5, <1>7, <2>1, UnitFacts DEF OneOfEach
    <2>3. CASE r.what = "load"
      BY <1>1, <2>2, <2>3 DEF TreeAwaits
    <2>4. CASE r.what = "save"
      BY <1>1, <2>2, <2>4 DEF TreeAwaits
    <2>5. CASE r.what = "create"
      BY <1>1, <1>2, <2>2, <2>5 DEF TreeAwaits
    <2> QED
      BY <2>2, <2>3, <2>4, <2>5 DEF TreeAwaits
  <1>8. UnitsInv'
    BY <1>1, <1>5, <1>6, <1>7, UnitFacts DEF UnitsInv
  <1> QED
    BY <1>8, UnitProperties DEF ClosesItsOwn

\* An answer has come, or has not.
LEMMA UnitEnds ==
  ASSUME FormsOK, OfUnits, UNCHANGED <<frmCase, frmServer, frmCrossed>>, NEW i \in DOMAIN frmRequest, RequestEnds(i),
         IsForest(frmShown'), DOMAIN frmShown' \subseteq DOMAIN frmServer, ~frmEditor'.new,
         frmEditor'.on # Nowhere =>
           Loaded' /\ frmEditor'.on \in DOMAIN frmShown' /\ frmEditor'.form \in DOMAIN frmShown' \cup {Nowhere},
         \A j \in DOMAIN frmRequest :
            frmRequest[j].what # frmRequest[i].what /\ frmRequest'[j] = frmRequest[j] => TreeAwaits(frmRequest[j])',
         frmEditor'.on = frmEditor.on \/ frmEditor.on = frmRequest[i].of \/ "editor" \in frmCrossed
  PROVE  UnitsInv' /\ HoldTogether
  <1>1. /\ OneOfEach' /\ Kind' = Kind
        /\ \A j \in DOMAIN frmRequest' : /\ j \in DOMAIN frmRequest /\ frmRequest'[j] = frmRequest[j]
                                         /\ frmRequest[j].what # frmRequest[i].what
    BY UnitFacts, OneLess DEF Kind
  <1>2. UnitsInv'
    BY <1>1, UnitFacts DEF UnitsInv
  <1>3. ClosesItsOwn
    BY EndsOne DEF ClosesItsOwn
  <1> QED
    BY <1>1, <1>2, <1>3, UnitProperties

LEMMA UnitAnswers ==
  ASSUME FormsOK, OfUnits, NEW i \in DOMAIN frmRequest,
         FormHandled(i) \/ FormLost(i) \/ RequestFails(i) \/ LoadAnswer(i) \/ SaveAnswer(i) \/ UnitCreated(i)
  PROVE  UnitsInv' /\ HoldTogether
  <1>1. PICK q : q = frmRequest[i]
    OBVIOUS
  <1>2. TreeAwaits(q) /\ FormsShape /\ Kind = "units" /\ q.what \in {"load", "save", "create"}
    BY <1>1, UnitFacts DEF OfUnits, TreeAwaits
  <1>3. CASE FormHandled(i)
    <2>1. /\ q.at = "sent" /\ Kind' = Kind /\ frmCase'.more = frmCase.more
          /\ UNCHANGED <<frmShown, frmEditor, frmTold, frmLoading, frmCrossed>>
      BY <1>1, <1>3 DEF FormHandled, Kind
    <2>2. ASSUME UNCHANGED frmServer, Becomes(i, "failed", q.answer) PROVE UnitsInv' /\ HoldTogether
      BY <1>1, <2>1, <2>2, UnitFacts, UnitHandled
    <2>3. ASSUME NEW o \in Outcome(q), frmServer' = o.rows, Becomes(i, "answered", o.answer) PROVE UnitsInv' /\ HoldTogether
      <3>1. CASE q.what = "load"
        <4>1. o = [rows |-> frmServer, answer |-> frmServer]
          BY <3>1 DEF Outcome, Reads
        <4>2. frmServer' = frmServer /\ o.answer = frmServer
          BY <2>3, <4>1
        <4> QED
          BY <1>1, <2>1, <2>3, <3>1, <4>2, UnitFacts, UnitHandled
      <3>2. CASE q.what = "save"
        <4>1. PICK r \in DOMAIN frmServer \cap {q.of} :
                 /\ o = [rows |-> Upon(OneRow(r, q.body), frmServer), answer |-> OneRow(r, q.body)]
                 /\ ~ClosesCycle(o.rows)
          BY <1>2, <3>2 DEF Outcome, Reads
        <4>2. frmServer' = Upon(OneRow(q.of, q.body), frmServer) /\ o.answer = OneRow(q.of, q.body)
              /\ q.of \in DOMAIN frmServer /\ ~ClosesCycle(Upon(OneRow(q.of, q.body), frmServer))
          BY <2>3, <4>1
        <4>3. q.body \in DOMAIN frmServer \cup {Nowhere}
          BY <1>2, <3>2, UnitFacts DEF TreeAwaits
        <4>4. IsForest(frmServer')
          BY <4>2, <4>3, UnitFacts, MovedForest
        <4>5. DOMAIN frmServer' = DOMAIN frmServer
          BY <4>2 DEF Upon, OneRow
        <4> QED
          BY <1>1, <2>1, <2>3, <3>2, <4>2, <4>4, <4>5, UnitHandled
      <3>3. CASE q.what = "create"
        <4>1. PICK r \in frmCase.more \ DOMAIN frmServer :
                 o = [rows |-> Upon(OneRow(r, q.body), frmServer), answer |-> OneRow(r, q.body)]
          BY <3>3 DEF Outcome, Reads
        <4>2. frmServer' = Upon(OneRow(r, q.body), frmServer) /\ o.answer = OneRow(r, q.body)
          BY <2>3, <4>1
        <4>3. q.body \in DOMAIN frmServer \cup {Nowhere} /\ r # Nowhere
          BY <1>2, <3>3, <4>1, UnitFacts DEF TreeAwaits
        <4>4. IsForest(frmServer')
          BY <4>1, <4>2, <4>3, UnitFacts, GrownForest
        <4>5. DOMAIN frmServer' = DOMAIN frmServer \cup {r} /\ r \in DOMAIN frmServer' \ DOMAIN frmShown
          BY <4>1, <4>2, UnitFacts DEF Upon, OneRow
        <4> QED
          BY <1>1, <2>1, <2>3, <3>3, <4>2, <4>4, <4>5, UnitHandled
      <3> QED
        BY <1>2, <3>1, <3>2, <3>3
    <2> QED
      BY <1>1, <1>2, <1>3, <2>2, <2>3, HandledBecomes
  <1>4. CASE FormLost(i)
    <2>1. /\ UNCHANGED <<frmServer, frmShown, frmEditor, frmTold, frmLoading, frmCrossed>>
          /\ Kind' = Kind /\ frmCase'.more = frmCase.more /\ Becomes(i, "failed", frmRequest[i].answer)
      BY <1>2, <1>4, LostBecomes DEF SameCase, Kind
    <2> QED
      BY <2>1, UnitFacts, UnitHandled
  <1>5. CASE RequestFails(i)
    <2>1. /\ RequestEnds(i) /\ UNCHANGED <<frmCase, frmServer, frmShown, frmEditor, frmCrossed>>
          /\ frmTold' = frmTold \cup {IF q.what = "load" THEN "loadError" ELSE IF q.what = "create" THEN "createError" ELSE "error"}
          /\ frmLoading' = (frmLoading /\ q.what # "load")
      BY <1>1, <1>2, <1>5 DEF RequestFails, TreeAwaits
    <2>2. CASE q.what = "load"
      <3>1. frmEditor.on = Nowhere
        BY <1>2, <2>2, UnitFacts DEF TreeAwaits, Loaded
      <3>2. \A j \in DOMAIN frmRequest : frmRequest[j].what = q.what
        BY <1>2, <2>2, UnitFacts DEF TreeAwaits, Loaded
      <3> QED
        BY <1>1, <2>1, <3>1, <3>2, UnitFacts, UnitEnds
    <2>3. CASE q.what # "load"
      <3>1. frmLoading' = frmLoading /\ ("loadError" \in frmTold' <=> "loadError" \in frmTold) /\ Loaded' = Loaded
        BY <1>2, <2>1, <2>3, UnitFacts DEF Loaded, FormsTypeOK
      <3>2. ASSUME NEW j \in DOMAIN frmRequest, frmRequest'[j] = frmRequest[j] PROVE TreeAwaits(frmRequest[j])'
        <4>1. TreeAwaits(frmRequest[j])
          BY UnitFacts
        <4> QED
          BY <2>1, <3>1, <3>2, <4>1 DEF TreeAwaits
      <3> QED
        BY <1>1, <2>1, <3>1, <3>2, UnitFacts, UnitEnds
    <2> QED
      BY <2>2, <2>3
  <1>6. CASE LoadAnswer(i)
    <2>1. /\ RequestEnds(i) /\ UNCHANGED <<frmCase, frmServer, frmTold, frmCrossed, frmEditor>> /\ ~frmLoading'
          /\ q.what = "load" /\ q.at = "answered" /\ frmShown' = q.answer
      BY <1>1, <1>2, <1>6 DEF LoadAnswer, Answered
    <2>2. frmEditor.on = Nowhere /\ IsForest(q.answer) /\ DOMAIN q.answer \subseteq DOMAIN frmServer
      BY <1>2, <2>1, UnitFacts DEF TreeAwaits, Loaded
    <2>3. \A j \in DOMAIN frmRequest : frmRequest[j].what = q.what
      BY <1>2, <2>1, UnitFacts DEF TreeAwaits, Loaded
    <2> QED
      BY <1>1, <2>1, <2>2, <2>3, UnitFacts, UnitEnds
  <1>7. CASE SaveAnswer(i)
    <2>1. /\ RequestEnds(i) /\ UNCHANGED <<frmCase, frmServer, frmTold, frmCrossed, frmLoading>>
          /\ q.what = "save" /\ q.at = "answered" /\ frmShown' = Upon(q.answer, frmShown) /\ frmEditor' = NoEditor
      BY <1>1, <1>2, <1>7 DEF SaveAnswer, Answered
    <2>2. /\ q.answer = OneRow(q.of, q.body) /\ q.of \in DOMAIN frmShown /\ q.body \in DOMAIN frmShown \cup {Nowhere}
          /\ ~ClosesCycle(Upon(OneRow(q.of, q.body), frmShown)) /\ Loaded
          /\ frmEditor.on \in {Nowhere, q.of} \/ "editor" \in frmCrossed
      BY <1>2, <2>1 DEF TreeAwaits
    <2>3. IsForest(frmShown') /\ DOMAIN frmShown' = DOMAIN frmShown
      <3>1. IsForest(frmShown')
        BY <2>1, <2>2, UnitFacts, MovedForest
      <3>2. DOMAIN frmShown' = DOMAIN frmShown
        BY <2>1, <2>2 DEF Upon, OneRow
      <3> QED
        BY <3>1, <3>2
    <2>4. frmEditor'.on = Nowhere /\ ~frmEditor'.new /\ Loaded' = Loaded
      BY <2>1 DEF NoEditor, Loaded
    <2>5. ASSUME NEW j \in DOMAIN frmRequest, frmRequest[j].what # q.what, frmRequest'[j] = frmRequest[j]
          PROVE  TreeAwaits(frmRequest[j])'
      <3>1. PICK r : r = frmRequest[j]
        OBVIOUS
      <3>2. TreeAwaits(r) /\ r.what # "save" /\ frmRequest'[j] = r
        BY <2>1, <2>5, <3>1, UnitFacts
      <3> QED
        BY <2>1, <2>3, <2>4, <3>2 DEF TreeAwaits
    <2> QED
      BY <1>1, <2>1, <2>2, <2>3, <2>4, <2>5, UnitFacts, UnitEnds
  <1>8. CASE UnitCreated(i)
    <2>1. /\ RequestEnds(i) /\ UNCHANGED <<frmCase, frmServer, frmEditor, frmTold, frmCrossed, frmLoading>>
          /\ q.what = "create" /\ q.at = "answered" /\ frmShown' = Upon(q.answer, frmShown)
      BY <1>1, <1>2, <1>8 DEF UnitCreated, Answered
    <2>2. q.body \in DOMAIN frmShown \cup {Nowhere} /\ Loaded
      BY <1>2, <2>1 DEF TreeAwaits
    <2>3. PICK r \in DOMAIN frmServer \ DOMAIN frmShown : q.answer = OneRow(r, q.body)
      BY <1>2, <2>1 DEF TreeAwaits
    <2>4. r # Nowhere /\ IsForest(frmShown)
      BY UnitFacts
    <2>5. IsForest(frmShown')
      BY <2>1, <2>2, <2>3, <2>4, GrownForest
    <2>6. DOMAIN frmShown' = DOMAIN frmShown \cup {r} /\ Loaded' = Loaded
      BY <2>1, <2>3 DEF Upon, OneRow, Loaded
    <2>7. ASSUME NEW j \in DOMAIN frmRequest, frmRequest[j].what # q.what, frmRequest'[j] = frmRequest[j]
          PROVE  TreeAwaits(frmRequest[j])'
      <3>1. PICK s : s = frmRequest[j]
        OBVIOUS
      <3>2. TreeAwaits(s) /\ s.what # "create" /\ frmRequest'[j] = s
        BY <2>1, <2>7, <3>1, UnitFacts
      <3>3. CASE s.what = "save"
        <4>1. /\ s.of \in DOMAIN frmShown /\ s.body \in DOMAIN frmShown \cup {Nowhere}
              /\ ~ClosesCycle(Upon(OneRow(s.of, s.body), frmShown))
          BY <3>2, <3>3 DEF TreeAwaits
        <4>2. ~ClosesCycle(Upon(OneRow(s.of, s.body), Upon(OneRow(r, q.body), frmShown)))
          BY <2>2, <2>3, <2>4, <4>1, MovedWithLeaf
        <4>3. ~ClosesCycle(Upon(OneRow(s.of, s.body), frmShown'))
          BY <2>1, <2>3, <4>2
        <4> QED
          BY <2>1, <2>6, <3>2, <3>3, <4>3 DEF TreeAwaits
      <3>4. CASE s.what = "load"
        BY <2>1, <2>6, <3>2, <3>4 DEF TreeAwaits
      <3> QED
        BY <3>2, <3>3, <3>4 DEF TreeAwaits
    <2> QED
      BY <1>1, <2>1, <2>3, <2>5, <2>6, <2>7, UnitFacts, UnitEnds
  <1> QED
    BY <1>3, <1>4, <1>5, <1>6, <1>7, <1>8

LEMMA UnitEdited == ASSUME FormsOK, OfUnits, SomebodyEdits PROVE UnitsInv' /\ HoldTogether
  <1>1. /\ Kind' = Kind /\ frmCase'.more = frmCase.more
        /\ UNCHANGED <<frmShown, frmChosen, frmResult, frmEditor, frmTold, frmLoading, frmRequest, frmCrossed>>
    BY LimitsSpent DEF SomebodyEdits, SameCase, Kind, FormsOK, FormsInv
  <1>2. PICK r \in DOMAIN frmServer, p \in DOMAIN frmServer :
           frmServer' = [frmServer EXCEPT ![r] = p] /\ ~ClosesCycle(frmServer')
    BY DEF SomebodyEdits, OfUnits
  <1>3. DOMAIN frmServer' = DOMAIN frmServer /\ IsForest(frmServer')
    BY <1>2, UnitFacts DEF IsForest
  <1>4. Loaded' = Loaded
    BY <1>1 DEF Loaded
  <1>5. ASSUME NEW j \in DOMAIN frmRequest PROVE TreeAwaits(frmRequest[j])'
    <2>1. TreeAwaits(frmRequest[j])
      BY UnitFacts
    <2> QED
      BY <1>1, <1>3, <1>4, <2>1 DEF TreeAwaits
  <1>6. UnitsInv'
    BY <1>1, <1>3, <1>4, <1>5, UnitFacts DEF UnitsInv, OneOfEach
  <1> QED
    BY <1>1, <1>6, UnitProperties DEF ClosesItsOwn

LEMMA UnitNext == ASSUME FormsOK, OfUnits, FormsNext PROVE UnitsInv' /\ HoldTogether
  BY UnitSteps, UnitClicks, UnitAnswers, UnitEdited

(* All of them *)

LEMMA FormsStart == ASSUME FormsInit PROVE FormsOK
  <1>1. IsFormCase(frmCase) /\ frmCase.kind \in FormKinds
    BY FormsAssumption DEF FormsInit, IsFormCase
  <1>2. /\ frmShown = <<>> /\ frmChosen = frmCase.first /\ frmResult = Nowhere /\ frmEditor = NoEditor /\ frmTold = {}
        /\ frmLoading = TRUE /\ frmCrossed = {} /\ DOMAIN frmServer = frmCase.rows /\ DOMAIN frmShown = {}
    BY DEF FormsInit
  <1>3. frmEditor.on = Nowhere /\ ~frmEditor.new
        /\ frmEditor = [on |-> frmEditor.on, new |-> frmEditor.new, form |-> frmEditor.form]
    BY <1>2 DEF NoEditor
  <1>4. PICK q : q = FormRequest(IF Kind = "costs" THEN "week" ELSE "load", frmChosen, Nowhere)
    OBVIOUS
  <1>5. /\ q.what = (IF Kind = "costs" THEN "week" ELSE "load") /\ q.of = frmChosen /\ q.at = "sent" /\ q.after = ""
        /\ q.chosen = frmChosen /\ q.live
        /\ DOMAIN q = {"what", "of", "body", "at", "answer", "chosen", "after", "live"} /\ q.live = TRUE
    BY <1>4 DEF FormRequest
  <1>6. /\ Kind = "costs" /\ ~frmCase.global => DOMAIN frmRequest = {}
        /\ ~(Kind = "costs" /\ ~frmCase.global) => DOMAIN frmRequest = {1} /\ frmRequest[1] = q
    BY <1>4 DEF FormsInit, OneRow
  <1>7. \A i \in DOMAIN frmRequest : i = 1 /\ frmRequest[i] = q
    BY <1>6
  <1>8. IsRequest(q)
    BY <1>2, <1>5 DEF IsRequest, Reads, Choosable
  <1>9. FormsTypeOK
    BY <1>2, <1>3, <1>7, FormsAssumption DEF FormsTypeOK
  <1>10. FormsShape
    BY <1>1, <1>3, <1>7, <1>8 DEF FormsShape
  <1>11. ProfileInv
    <2>1. Kind = "profile" => \A r \in DOMAIN frmServer : DOMAIN frmServer[r] = Fields
      BY DEF FormsInit, Kind
    <2>2. Kind = "profile" => CardAwaits(q)
      BY <1>2, <1>5 DEF CardAwaits
    <2> QED
      BY <1>2, <1>3, <1>5, <1>7, <2>1, <2>2 DEF ProfileInv
  <1>12. ASSUME Kind = "units" PROVE UnitsInv
    <2>1. frmServer \in [frmCase.rows -> {Nowhere}]
      BY <1>12 DEF FormsInit
    <2>2. Nowhere \notin frmCase.rows
      BY <1>1 DEF IsFormCase
    <2>3. IsForest(frmServer)
      BY <2>1, <2>2 DEF IsForest, ClosesCycle
    <2>4. IsForest(frmShown)
      BY <1>2 DEF IsForest, ClosesCycle
    <2>5. TreeAwaits(q)
      BY <1>2, <1>5, <1>12 DEF TreeAwaits
    <2> QED
      BY <1>2, <1>3, <1>7, <2>3, <2>4, <2>5 DEF UnitsInv, OneOfEach
  <1>13. PageInv
    <2>1. Kind \in {"company", "policy"} => PageAwaits(q)
      BY <1>2, <1>5 DEF PageAwaits
    <2> QED
      BY <1>2, <1>3, <1>7, <2>1 DEF PageInv, OneOfEach
  <1>14. ScheduleInv
    <2>1. Kind = "schedule" => WeekAwaits(q)
      BY <1>2, <1>5 DEF WeekAwaits
    <2> QED
      BY <1>2, <1>7, <2>1 DEF ScheduleInv
  <1>15. CostFormInv
    <2>1. Kind = "costs" => CostAwaits(q)
      BY <1>2, <1>5 DEF CostAwaits
    <2> QED
      BY <1>2, <1>3, <1>6, <1>7, <2>1 DEF CostFormInv
  <1>16. UnitsInv
    BY <1>12 DEF UnitsInv
  <1> QED
    BY <1>9, <1>10, <1>11, <1>13, <1>14, <1>15, <1>16 DEF FormsOK, FormsInv

LEMMA FormsStep == ASSUME FormsOK, FormsNext PROVE FormsOK' /\ HoldTogether
  <1>1. FormsTypeOK' /\ FormsShape'
    BY NextShape DEF FormsOK, FormsInv
  <1>2. Kind \in FormKinds /\ Kind' = Kind
    <2>1. SameCase
      <3>1. FormsShape
        BY DEF FormsOK, FormsInv
      <3>2. ASSUME Chooses \/ Today \/ DismissResult \/ RosterArrives PROVE SameCase
        BY <3>1, <3>2, ClickSpent, LimitsSpent
        DEF Chooses, ChooseEmployee, GoWeek, ChooseUnit, ChooseScope, Today, DismissResult, RosterArrives
      <3>3. ASSUME NEW r, \/ StartEdit(r) \/ submitRate(r) \/ CancelEdit \/ Type \/ Save
                         \/ deleteShift \/ handleCreateUnit \/ generate \/ Retry
            PROVE  SameCase
        BY <3>1, <3>3, ClickSpent
        DEF StartEdit, submitRate, CancelEdit, Type, Save, deleteShift, handleCreateUnit, generate, Retry
      <3>4. ASSUME NEW i \in DOMAIN frmRequest,
                   \/ FormHandled(i) \/ FormLost(i) \/ AnswerDropped(i) \/ RequestFails(i)
                   \/ LoadAnswer(i) \/ ScheduleLoaded(i) \/ SaveAnswer(i) \/ FormSaved(i) \/ UnitCreated(i)
            PROVE  SameCase
        BY <3>1, <3>4, StillCase, LostBecomes, LimitsSpent
        DEF FormHandled, AnswerDropped, RequestFails, LoadAnswer, ScheduleLoaded, SaveAnswer, FormSaved, UnitCreated
      <3>5. ASSUME NEW i \in DOMAIN frmRequest,
                   \/ ShiftSaved(i) \/ Solved(i) \/ Reloaded(i) \/ RateSaved(i) \/ RatesEnd(i) \/ WeekAnswer(i)
            PROVE  SameCase
        BY <3>1, <3>5, StillCase DEF ShiftSaved, Solved, Reloaded, RateSaved, RatesEnd, WeekAnswer
      <3>6. ASSUME SomebodyEdits PROVE SameCase
        BY <3>1, <3>6, LimitsSpent DEF SomebodyEdits
      <3> QED
        BY <3>2, <3>3, <3>4, <3>5, <3>6 DEF FormsNext
    <2> QED
      BY <2>1 DEF SameCase, Kind, FormsOK, FormsInv, FormsShape, IsFormCase
  <1>3. CASE Kind = "profile"
    BY <1>1, <1>2, <1>3, CardNext DEF FormsOK, FormsInv, UnitsInv, PageInv, ScheduleInv, CostFormInv
  <1>4. CASE OnPage
    BY <1>1, <1>2, <1>4, PageNext DEF OnPage, FormsOK, FormsInv, ProfileInv, UnitsInv, ScheduleInv, CostFormInv
  <1>5. CASE InWeek
    BY <1>1, <1>2, <1>5, WeekNext DEF InWeek, FormsOK, FormsInv, ProfileInv, UnitsInv, PageInv, CostFormInv
  <1>6. CASE OfCosts
    BY <1>1, <1>2, <1>6, CostNext DEF OfCosts, FormsOK, FormsInv, ProfileInv, UnitsInv, PageInv, ScheduleInv
  <1>7. CASE OfUnits
    BY <1>1, <1>2, <1>7, UnitNext DEF OfUnits, FormsOK, FormsInv, ProfileInv, PageInv, ScheduleInv, CostFormInv
  <1> QED
    BY <1>2, <1>3, <1>4, <1>5, <1>6, <1>7 DEF FormKinds, OnPage, InWeek, OfCosts, OfUnits

LEMMA FormsStutter == ASSUME FormsOK, UNCHANGED formVars PROVE FormsOK'
  <1>1. Kind' = Kind /\ Rows' = Rows /\ Choosable' = Choosable /\ Loaded' = Loaded
    BY DEF formVars, Kind, Rows, Choosable, Loaded
  <1>2. FormsTypeOK'
    BY DEF formVars, FormsOK, FormsTypeOK
  <1>3. FormsShape'
    BY <1>1 DEF formVars, FormsOK, FormsInv, FormsShape, IsRequest
  <1>4. ProfileInv'
    BY <1>1 DEF formVars, FormsOK, FormsInv, ProfileInv, CardAwaits
  <1>5. UnitsInv'
    <2>1. \A j \in DOMAIN frmRequest : TreeAwaits(frmRequest[j]) => TreeAwaits(frmRequest[j])'
      BY <1>1 DEF formVars, TreeAwaits
    <2> QED
      BY <1>1, <2>1 DEF formVars, FormsOK, FormsInv, UnitsInv, OneOfEach
  <1>6. PageInv'
    BY <1>1 DEF formVars, FormsOK, FormsInv, PageInv, PageAwaits, OneOfEach
  <1>7. ScheduleInv' /\ CostFormInv'
    BY <1>1 DEF formVars, FormsOK, FormsInv, ScheduleInv, WeekAwaits, SolveFits, CostFormInv, CostAwaits
  <1> QED
    BY <1>2, <1>3, <1>4, <1>5, <1>6, <1>7 DEF FormsOK, FormsInv

\* The form screens keep their types and, screen by screen, what FormsInv
\* says of what is open, awaited and shown.
THEOREM FormsCorrect == FormsSpec => [](FormsTypeOK /\ FormsInv)
  <1>1. FormsInit => FormsOK
    BY FormsStart
  <1>2. FormsOK /\ [FormsNext]_formVars => FormsOK'
    BY FormsStep, FormsStutter
  <1> QED
    BY <1>1, <1>2, PTL DEF FormsSpec, FormsOK

\* A card, a cost or a solve on the screen is the chosen one's, "saved" is
\* said of what was saved, an answer closes the editor it is about, a save
\* changes what was edited, and no parent is refused but for a tree that has
\* changed: docs/design/web-kit/components, in any number of steps.
THEOREM FormsHoldTogether == FormsSpec => FormsAgree
  <1>1. FormsSpec => []FormsOK
    BY FormsCorrect, PTL DEF FormsOK
  <1>2. FormsOK /\ [FormsNext]_formVars
          => [ShowsTheChosen' /\ SaidSaved /\ ClosesItsOwn /\ UntouchedKept /\ ParentsAccepted]_formVars
    BY FormsStep DEF HoldTogether
  <1> QED
    BY <1>1, <1>2, PTL DEF FormsSpec, FormsAgree
=============================================================================
