-------------------------- MODULE TalkDetailProofs --------------------------
(***************************************************************************)
(* Proofs about TalkDetail, for any texts and dates.                       *)
(***************************************************************************)
EXTENDS TalkDetail, TLAPS

\* The screen opens with a well-formed date section.
LEMMA InitDetailInv == Init => DetailInv
<1> SUFFICES ASSUME Init PROVE DetailInv
    OBVIOUS
<1>1. CASE talk.dueDate = None
  <2>1. rows = <<Switch(FALSE)>>
    BY <1>1 DEF Init, configureView
  <2>2. rows \in Seq(Row) /\ DateSectionWellformed
    BY <2>1 DEF Switch, Row, DateSectionWellformed
  <2> QED
    BY <2>2 DEF Init, DetailInv, TypeOK, CrashOnlyWhenGone, NothingUnsent
<1>2. CASE talk.dueDate # None
  <2>1. rows = <<Switch(TRUE), DateRow(talk.dueDate)>>
    BY <1>2 DEF Init, configureView
  <2>2. talk.dueDate \in Dates
    BY <1>2 DEF Init, TalkFields
  <2>3. rows \in Seq(Row) /\ DateSectionWellformed
    BY <2>1, <2>2 DEF Switch, DateRow, Row, DateSectionWellformed
  <2> QED
    BY <2>3 DEF Init, DetailInv, TypeOK, CrashOnlyWhenGone, NothingUnsent
<1> QED
    BY <1>1, <1>2

\* A crash over a talk that is gone breaks nothing.
LEMMA CrashDetailInv ==
    ASSUME DetailInv, Crash, accessor # "attached"
    PROVE  DetailInv'
    BY DEF DetailInv, TypeOK, DateSectionWellformed, CrashOnlyWhenGone, NothingUnsent, Crash

\* A step that leaves the date section alone keeps what is said of it.
LEMMA SameRows ==
    ASSUME DetailInv, UNCHANGED <<rows, tableRows>>, TypeOK', CrashOnlyWhenGone', NothingUnsent'
    PROVE  DetailInv'
    BY DEF DetailInv, DateSectionWellformed

-----------------------------------------------------------------------------
(* The rows of the date section.                                           *)

\* A row that is appended comes last and leaves the others alone.
LEMMA AppendRow ==
    ASSUME NEW s \in Seq(Row), NEW e \in Row, NEW t, t = Append(s, e)
    PROVE  /\ t \in Seq(Row)
           /\ Len(t) = Len(s) + 1
           /\ \A i \in 1..Len(s) : t[i] = s[i]
           /\ t[Len(s) + 1] = e
    OBVIOUS

\* A date row after the switch, which is on from now.
LEMMA SwitchOnDetailInv ==
    ASSUME NEW now \in Dates, DetailInv, switchOn(now)
    PROVE  DetailInv'
<1> DEFINE date == IF talk.dueDate = None THEN now ELSE talk.dueDate
<1>1. date \in Dates
    BY DEF DetailInv, TypeOK, TalkFields
<1>2. rows \in Seq(Row) /\ Len(rows) = 1
    BY DEF DetailInv, TypeOK, DateSectionWellformed, switchOn
<1>3. CASE accessor = "attached"
  <2>1. rows' = Append([rows EXCEPT ![1] = Switch(TRUE)], DateRow(date))
    BY <1>3 DEF switchOn, Access
  <2>2. Switch(TRUE) \in Row /\ DateRow(date) \in Row
    BY <1>1 DEF Switch, DateRow, Row
  <2>3. /\ rows' \in Seq(Row) /\ Len(rows') = 2
        /\ rows'[1] = Switch(TRUE) /\ rows'[2] = DateRow(date)
    <3> HIDE DEF date
    <3>1. PICK on, last : on = Switch(TRUE) /\ last = DateRow(date)
      OBVIOUS
    <3>2. PICK s : s = [rows EXCEPT ![1] = on]
      OBVIOUS
    <3>3. on \in Row /\ last \in Row /\ rows' = Append(s, last)
      BY <2>1, <2>2, <3>1, <3>2, Zenon
    <3>4. s \in Seq(Row) /\ Len(s) = 1 /\ s[1] = on
      BY <1>2, <3>2, <3>3
    <3>5. /\ rows' \in Seq(Row) /\ Len(rows') = Len(s) + 1
          /\ \A i \in 1..Len(s) : rows'[i] = s[i]
          /\ rows'[Len(s) + 1] = last
      BY <3>3, <3>4, AppendRow
    <3>6. rows' \in Seq(Row) /\ Len(rows') = 2 /\ rows'[1] = on /\ rows'[2] = last
      BY <3>4, <3>5
    <3> QED
      BY <3>1, <3>6, Zenon
  <2>4. DateSectionWellformed'
    BY <2>3 DEF DateSectionWellformed, Switch, DateRow
  <2> QED
    BY <1>3, <2>3, <2>4
    DEF switchOn, Access, DetailInv, TypeOK, CrashOnlyWhenGone, NothingUnsent
<1>4. CASE accessor # "attached"
    BY <1>4, CrashDetailInv DEF switchOn, Access
<1> QED
    BY <1>3, <1>4

\* Nothing after the switch, which is off from now.
LEMMA SwitchOffDetailInv ==
    ASSUME DetailInv, switchOff
    PROVE  DetailInv'
<1>1. CASE accessor = "attached"
  <2>1. rows' = <<Switch(FALSE)>>
    BY <1>1 DEF switchOff, Access
  <2>2. rows' \in Seq(Row) /\ Len(rows') = 1
    BY <2>1 DEF Switch, Row
  <2>3. DateSectionWellformed'
    BY <2>1 DEF DateSectionWellformed, Switch
  <2>4. talk' \in TalkFields
    BY <1>1 DEF switchOff, Access, DetailInv, TypeOK, TalkFields
  <2> QED
    BY <1>1, <2>2, <2>3, <2>4
    DEF switchOff, Access, sendUpdate, DetailInv, TypeOK, CrashOnlyWhenGone, NothingUnsent
<1>2. CASE accessor # "attached"
    BY <1>2, CrashDetailInv DEF switchOff, Access
<1> QED
    BY <1>1, <1>2

\* The picker, the third of three rows, is taken away.
LEMMA CloseDatePickerDetailInv ==
    ASSUME DetailInv, closeDatePicker
    PROVE  DetailInv'
<1>1. rows \in Seq(Row) /\ Len(rows) = 3
    BY DEF DetailInv, TypeOK, DateSectionWellformed, closeDatePicker
<1>2. rows' = SubSeq(rows, 1, 2)
    BY <1>1 DEF closeDatePicker
<1>3. rows' \in Seq(Row) /\ Len(rows') = 2 /\ rows'[1] = rows[1] /\ rows'[2] = rows[2]
    BY <1>1, <1>2
<1>4. tableRows' = 2 /\ screen' = "shown"
    BY <1>1, <1>3 DEF closeDatePicker, endUpdates, DetailInv
<1>5. DateSectionWellformed'
    BY <1>1, <1>3 DEF DetailInv, DateSectionWellformed
<1> QED
    BY <1>3, <1>4, <1>5
    DEF closeDatePicker, DetailInv, TypeOK, CrashOnlyWhenGone, NothingUnsent

\* A picker comes after the date, the second of two rows.
LEMMA OpenDatePickerDetailInv ==
    ASSUME NEW now \in Dates, DetailInv, openDatePicker(now)
    PROVE  DetailInv'
<1> DEFINE date == IF talk.dueDate = None THEN now ELSE talk.dueDate
<1>1. date \in Dates
    BY DEF DetailInv, TypeOK, TalkFields
<1>2. rows \in Seq(Row) /\ Len(rows) = 2
    BY DEF DetailInv, TypeOK, DateSectionWellformed, openDatePicker
<1>3. CASE accessor = "attached"
  <2>1. rows' = Append(rows, DatePicker(date))
    BY <1>3 DEF openDatePicker, Access
  <2>2. DatePicker(date) \in Row
    BY <1>1 DEF DatePicker, Row
  <2>3. /\ rows' \in Seq(Row) /\ Len(rows') = 3
        /\ rows'[1] = rows[1] /\ rows'[2] = rows[2] /\ rows'[3] = DatePicker(date)
    <3> HIDE DEF date
    <3>1. PICK last : last = DatePicker(date)
      OBVIOUS
    <3>2. last \in Row /\ rows' = Append(rows, last)
      BY <2>1, <2>2, <3>1, Zenon
    <3>3. /\ rows' \in Seq(Row) /\ Len(rows') = Len(rows) + 1
          /\ \A i \in 1..Len(rows) : rows'[i] = rows[i]
          /\ rows'[Len(rows) + 1] = last
      BY <1>2, <3>2, AppendRow
    <3>4. /\ rows' \in Seq(Row) /\ Len(rows') = 3
          /\ rows'[1] = rows[1] /\ rows'[2] = rows[2] /\ rows'[3] = last
      BY <1>2, <3>3
    <3> QED
      BY <3>1, <3>4, Zenon
  <2>4. tableRows' = 3 /\ screen' = "shown"
    BY <1>2, <1>3, <2>3 DEF openDatePicker, Access, endUpdates, DetailInv
  <2>5. DateSectionWellformed'
    BY <1>2, <2>3 DEF DetailInv, DateSectionWellformed, DatePicker
  <2> QED
    BY <1>3, <2>3, <2>4, <2>5
    DEF openDatePicker, Access, DetailInv, TypeOK, CrashOnlyWhenGone, NothingUnsent
<1>4. CASE accessor # "attached"
    BY <1>4, CrashDetailInv DEF openDatePicker, Access
<1> QED
    BY <1>3, <1>4

\* The date row, which is there, takes the date of the picker.
LEMMA DatePickerChangedDetailInv ==
    ASSUME NEW date \in Dates, DetailInv, datePickerChanged(date)
    PROVE  DetailInv'
<1>1. rows \in Seq(Row) /\ Len(rows) \in 2..3
    BY DEF DetailInv, TypeOK, DateSectionWellformed, datePickerChanged
<1>2. CASE accessor = "attached"
  <2>1. rows' = [rows EXCEPT ![2] = DateRow(date)]
    BY <1>1, <1>2 DEF datePickerChanged, Access
  <2>2. DateRow(date) \in Row
    BY DEF DateRow, Row
  <2>3. /\ rows' \in Seq(Row) /\ Len(rows') = Len(rows)
        /\ rows'[1] = rows[1] /\ rows'[2] = DateRow(date)
        /\ Len(rows) = 3 => rows'[3] = rows[3]
    BY <1>1, <2>1, <2>2
  <2>4. DateSectionWellformed'
    BY <1>1, <2>3 DEF DetailInv, DateSectionWellformed, DateRow
  <2>5. /\ talk' = [talk EXCEPT !.dueDate = date] /\ known' = talk'
        /\ UNCHANGED <<accessor, tableRows, editing, screen, collapsed>>
    <3>1. ~ (Len(rows) < 2)
      BY <1>1
    <3> QED
      BY <1>2, <3>1, Zenon DEF datePickerChanged, Access, sendUpdate
  <2>6. talk' \in TalkFields
    BY <2>5 DEF DetailInv, TypeOK, TalkFields
  <2> QED
    BY <2>3, <2>4, <2>5, <2>6 DEF DetailInv, TypeOK, CrashOnlyWhenGone, NothingUnsent
<1>3. CASE accessor # "attached"
    BY <1>1, <1>3, CrashDetailInv DEF datePickerChanged, Access
<1> QED
    BY <1>2, <1>3

-----------------------------------------------------------------------------
(* The invariant.                                                          *)

\* Every step keeps DetailInv.
LEMMA NextDetailInv == DetailInv /\ [Next]_vars => DetailInv'
<1> SUFFICES ASSUME DetailInv, [Next]_vars PROVE DetailInv'
    OBVIOUS
<1> USE EditingAssumption
<1>1. ASSUME NEW field \in Fields, NEW text \in Texts, beginEditing(field, text)
      PROVE  DetailInv'
  <2>1. editing' \in [field : Fields, text : Texts]
    BY <1>1 DEF beginEditing
  <2> QED
    BY <1>1, <2>1, SameRows
    DEF beginEditing, DetailInv, TypeOK, CrashOnlyWhenGone, NothingUnsent
<1>2. ASSUME NEW text \in Texts, editingChanged(text) PROVE DetailInv'
  <2>1. CASE accessor = "attached"
    <3>1. editing \in [field : Fields, text : Texts] /\ editing.field \in TextFields
      BY <1>2 DEF editingChanged, DetailInv, TypeOK
    <3>2. editing' \in [field : Fields, text : Texts]
      BY <1>2, <2>1, <3>1 DEF editingChanged, Access
    <3>3. talk' \in TalkFields
      BY <1>2, <2>1, <3>1 DEF editingChanged, Access, DetailInv, TypeOK, TalkFields, TextFields
    <3> QED
      BY <1>2, <2>1, <3>2, <3>3, SameRows
      DEF editingChanged, Access, DetailInv, TypeOK, CrashOnlyWhenGone, NothingUnsent
  <2> QED
    BY <1>2, <2>1, CrashDetailInv DEF editingChanged, Access
<1>3. ASSUME NEW text \in Texts, notesTyped(text) PROVE DetailInv'
  <2>1. editing' \in [field : Fields, text : Texts]
    BY <1>3 DEF notesTyped, DetailInv, TypeOK
  <2> QED
    BY <1>3, <2>1, SameRows
    DEF notesTyped, DetailInv, TypeOK, CrashOnlyWhenGone, NothingUnsent
<1>4. CASE didEndEditing
  <2>1. CASE accessor = "attached"
    BY <1>4, <2>1, SameRows
    DEF didEndEditing, Access, sendUpdate, DetailInv, TypeOK, CrashOnlyWhenGone, NothingUnsent
  <2> QED
    BY <1>4, <2>1, CrashDetailInv DEF didEndEditing, Access
<1>5. CASE textViewDidEndEditing
  <2>1. CASE accessor = "attached"
    <3>1. talk' \in TalkFields
      BY <1>5, <2>1 DEF textViewDidEndEditing, Access, DetailInv, TypeOK, TalkFields
    <3> QED
      BY <1>5, <2>1, <3>1, SameRows
      DEF textViewDidEndEditing, Access, sendUpdate, DetailInv, TypeOK,
          CrashOnlyWhenGone, NothingUnsent
  <2> QED
    BY <1>5, <2>1, CrashDetailInv DEF textViewDidEndEditing, Access
<1>6. CASE delete
  <2>1. CASE accessor = "released"
    BY <1>6, <2>1, CrashDetailInv DEF delete
  <2> QED
    BY <1>6, <2>1, SameRows DEF delete, DetailInv, TypeOK, CrashOnlyWhenGone, NothingUnsent
<1>7. ASSUME NEW new \in TalkFields, fetched(new) PROVE DetailInv'
    BY <1>7, SameRows DEF fetched, DetailInv, TypeOK, CrashOnlyWhenGone, NothingUnsent
<1>8. CASE removed \/ back \/ collapse \/ separate \/ UNCHANGED vars
    BY <1>8, SameRows
    DEF removed, back, collapse, separate, vars, DetailInv, TypeOK, CrashOnlyWhenGone, NothingUnsent
<1> QED
    BY <1>1, <1>2, <1>3, <1>4, <1>5, <1>6, <1>7, <1>8, SwitchOnDetailInv, SwitchOffDetailInv,
       CloseDatePickerDetailInv, OpenDatePickerDetailInv, DatePickerChangedDetailInv
    DEF Next

\* DetailInv holds in every state of every behaviour of the screen.
THEOREM DetailInvariance == Spec => []DetailInv
    BY InitDetailInv, NextDetailInv, PTL DEF Spec

\* The state of the screen is well typed.
THEOREM DetailTypeCorrect == Spec => []TypeOK
<1>1. DetailInv => TypeOK
    BY DEF DetailInv
<1> QED
    BY <1>1, DetailInvariance, PTL

\* In whatever order the rows are toggled, the date section stays well formed.
THEOREM DateSectionStaysWellformed == Spec => []DateSectionWellformed
<1>1. DetailInv => DateSectionWellformed
    BY DEF DetailInv
<1> QED
    BY <1>1, DetailInvariance, PTL

\* The screen does not crash over a talk that exists.
THEOREM NoCrashOverATalk == Spec => []CrashOnlyWhenGone
<1>1. DetailInv => CrashOnlyWhenGone
    BY DEF DetailInv
<1> QED
    BY <1>1, DetailInvariance, PTL

\* No edit of the screen is left unsent.
THEOREM EveryEditIsSent == Spec => []NothingUnsent
<1>1. DetailInv => NothingUnsent
    BY DEF DetailInv
<1> QED
    BY <1>1, DetailInvariance, PTL
=============================================================================
