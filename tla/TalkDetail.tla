---------------------------- MODULE TalkDetail ----------------------------
(***************************************************************************)
(* The screen that shows and edits one talk (TalkDetailViewController).    *)
(*                                                                         *)
(* Everything here runs on the main thread.  What happens to the talk on   *)
(* other threads or in the list beside it shows when the main thread gets  *)
(* to a newer version of the Realm file: fetched, removed.                 *)
(*                                                                         *)
(* Of the table, only the section of the date has rows that come and go.   *)
(* An exception of Realm or UIKit, or an index out of range, is a crash:   *)
(* try? catches neither.  A commit that fails is left to TalksClient.      *)
(***************************************************************************)
EXTENDS Naturals, Sequences

CONSTANTS
    Texts,  \* what can be typed
    Dates,  \* points in time
    None    \* nil

ASSUME NoneAssumption == None \notin Texts \cup Dates

VARIABLES
    talk,      \* the fields of the talk
    accessor,  \* the object the screen holds: to a row, to a removed row, or nothing
    rows,      \* the rows of the date section (sections)
    tableRows, \* how many rows the table view has in that section
    editing,   \* the field with the keyboard and its text, or None
    known,     \* the talk as last sent to or received from the server
    screen,    \* "shown", "popped" or "crashed"
    collapsed  \* whether the split view is collapsed (iPhone)

vars == <<talk, accessor, rows, tableRows, editing, known, screen, collapsed>>

TextFields == {"name", "speakerName"}
Fields     == TextFields \cup {"notes"}
TalkFields == [name : Texts, speakerName : Texts, notes : Texts, dueDate : Dates \cup {None}]

Switch(isOn)     == [kind |-> "switch", isOn |-> isOn]
DateRow(date)    == [kind |-> "date", date |-> date]
DatePicker(date) == [kind |-> "datePicker", date |-> date]

Row == [kind : {"switch"}, isOn : BOOLEAN] \cup [kind : {"date", "datePicker"}, date : Dates]

ASSUME EditingAssumption == None \notin [field : Fields, text : Texts]

TypeOK ==
    /\ talk \in TalkFields
    /\ accessor \in {"attached", "detached", "released"}
    /\ rows \in Seq(Row)
    /\ tableRows \in Nat
    /\ editing \in [field : Fields, text : Texts] \cup {None}
    /\ known \in TalkFields
    /\ screen \in {"shown", "popped", "crashed"}
    /\ collapsed \in BOOLEAN

\* configureView, for the date section.
configureView(dueDate) ==
    IF dueDate = None THEN <<Switch(FALSE)>> ELSE <<Switch(TRUE), DateRow(dueDate)>>

\* The list opens the screen on one of its talks.
Init ==
    /\ talk \in TalkFields
    /\ known = talk
    /\ accessor = "attached"
    /\ rows = configureView(talk.dueDate)
    /\ tableRows = Len(rows)
    /\ editing = None
    /\ screen = "shown"
    /\ collapsed \in BOOLEAN

Crash ==
    /\ screen' = "crashed"
    /\ UNCHANGED <<talk, accessor, rows, tableRows, editing, known, collapsed>>

\* Every access to a field of a talk whose row is gone raises an exception.
Access(step) == IF accessor = "attached" THEN step ELSE Crash

\* sendUpdate, after the write that sets the talk to new.
sendUpdate(new) == known' = new

-----------------------------------------------------------------------------
(* The fields.                                                             *)

\* A field becomes first responder with the text of its cell.
beginEditing(field, text) ==
    /\ screen = "shown"
    /\ editing = None
    /\ editing' = [field |-> field, text |-> text]
    /\ UNCHANGED <<talk, accessor, rows, tableRows, known, screen, collapsed>>

\* A text field writes every change to the talk, and sends nothing.
editingChanged(text) ==
    /\ screen = "shown"
    /\ editing # None
    /\ editing.field \in TextFields
    /\ Access(/\ talk' = [talk EXCEPT ![editing.field] = text]
              /\ editing' = [editing EXCEPT !.text = text]
              /\ UNCHANGED <<accessor, rows, tableRows, known, screen, collapsed>>)

\* The notes are only typed.
notesTyped(text) ==
    /\ screen = "shown"
    /\ editing # None
    /\ editing.field = "notes"
    /\ editing' = [editing EXCEPT !.text = text]
    /\ UNCHANGED <<talk, accessor, rows, tableRows, known, screen, collapsed>>

\* A didEndEditing that leaves the sending to another handler.
didEndEditingSilent ==
    /\ screen # "crashed"
    /\ editing # None
    /\ editing.field \in TextFields
    /\ editing' = None
    /\ UNCHANGED <<talk, accessor, rows, tableRows, known, screen, collapsed>>

\* didEndEditing sends the talk as it is.  A screen that leaves takes the
\* keyboard away from its field, so this may come after the screen is popped.
didEndEditing ==
    /\ screen # "crashed"
    /\ editing # None
    /\ editing.field \in TextFields
    /\ Access(/\ sendUpdate(talk)
              /\ editing' = None
              /\ UNCHANGED <<talk, accessor, rows, tableRows, screen, collapsed>>)

\* textViewDidEndEditing writes the notes and sends the talk.
textViewDidEndEditing ==
    /\ screen # "crashed"
    /\ editing # None
    /\ editing.field = "notes"
    /\ Access(/\ talk' = [talk EXCEPT !.notes = editing.text]
              /\ sendUpdate(talk')
              /\ editing' = None
              /\ UNCHANGED <<accessor, rows, tableRows, screen, collapsed>>)

-----------------------------------------------------------------------------
(* The date.                                                               *)

\* Switched on: a row for the date of the talk, or for now.  Nothing is
\* written before the picker is moved.
switchOn(now) ==
    /\ screen = "shown"
    /\ ~ rows[1].isOn
    /\ LET date == IF talk.dueDate = None THEN now ELSE talk.dueDate
       IN  Access(/\ rows' = Append([rows EXCEPT ![1] = Switch(TRUE)], DateRow(date))
                  /\ tableRows' = Len(rows')
                  /\ UNCHANGED <<talk, accessor, editing, known, screen, collapsed>>)

\* Switched off: only the last row goes.
switchOffLast ==
    /\ screen = "shown"
    /\ rows[1].isOn
    /\ Access(/\ rows' = <<Switch(FALSE)>> \o SubSeq(rows, 2, Len(rows) - 1)
              /\ tableRows' = Len(rows')
              /\ talk' = [talk EXCEPT !.dueDate = None]
              /\ sendUpdate(talk')
              /\ UNCHANGED <<accessor, editing, screen, collapsed>>)

\* Switched off: every row but the switch goes, and the date of the talk.
switchOff ==
    /\ screen = "shown"
    /\ rows[1].isOn
    /\ Access(/\ rows' = <<Switch(FALSE)>>
              /\ tableRows' = Len(rows')
              /\ talk' = [talk EXCEPT !.dueDate = None]
              /\ sendUpdate(talk')
              /\ UNCHANGED <<accessor, editing, screen, collapsed>>)

\* The table view compares its rows with those of the data source at the end
\* of a batch of updates, and raises if they do not agree.
endUpdates(n) ==
    /\ tableRows' = n
    /\ screen' = IF n = Len(rows') THEN "shown" ELSE "crashed"

\* A picker that is taken out of the sections and not out of the table.
closeDatePickerKeepingRow ==
    /\ screen = "shown"
    /\ Len(rows) > 1
    /\ rows[Len(rows)].kind = "datePicker"
    /\ rows' = SubSeq(rows, 1, Len(rows) - 1)
    /\ endUpdates(tableRows)
    /\ UNCHANGED <<talk, accessor, editing, known, collapsed>>

\* The date row is selected: toggleDatePicker, with a picker in the last row.
closeDatePicker ==
    /\ screen = "shown"
    /\ Len(rows) > 1
    /\ rows[Len(rows)].kind = "datePicker"
    /\ rows' = SubSeq(rows, 1, Len(rows) - 1)
    /\ endUpdates(tableRows - 1)
    /\ UNCHANGED <<talk, accessor, editing, known, collapsed>>

\* A picker opened without a date to fall back on.
openDatePickerNil(now) ==
    /\ screen = "shown"
    /\ Len(rows) > 1
    /\ rows[Len(rows)].kind # "datePicker"
    /\ Access(/\ rows' = Append(rows, DatePicker(talk.dueDate))
              /\ endUpdates(tableRows + 1)
              /\ UNCHANGED <<talk, accessor, editing, known, collapsed>>)

\* ... and without one.
openDatePicker(now) ==
    /\ screen = "shown"
    /\ Len(rows) > 1
    /\ rows[Len(rows)].kind # "datePicker"
    /\ LET date == IF talk.dueDate = None THEN now ELSE talk.dueDate
       IN  Access(/\ rows' = Append(rows, DatePicker(date))
                  /\ endUpdates(tableRows + 1)
                  /\ UNCHANGED <<talk, accessor, editing, known, collapsed>>)

\* The picker is moved: the date row, which must be the second one, shows the
\* date, and it is written and sent.  The handler asks only for a row under the
\* picker.  That a picker sends from its own row and from nowhere else is assumed
\* of UIKit; that the section then has a second row is not, it is part of
\* DateSectionWellformed.
datePickerChanged(date) ==
    /\ screen = "shown"
    /\ \E i \in 1..Len(rows) : rows[i].kind = "datePicker"
    /\ IF Len(rows) < 2
         THEN Crash
         ELSE Access(/\ rows' = [rows EXCEPT ![2] = DateRow(date)]
                     /\ talk' = [talk EXCEPT !.dueDate = date]
                     /\ sendUpdate(talk')
                     /\ UNCHANGED <<accessor, tableRows, editing, screen, collapsed>>)

-----------------------------------------------------------------------------
(* The end of the talk, and what other threads do to it.                   *)

\* The delete row is selected.  Deleting through an object takes its Realm
\* away, and the next deletion through it raises; the screen leaves only if
\* its navigation controller is in another one, as in a collapsed split view.
\* The DELETE that is sent is TalksClient's delete.
delete ==
    /\ screen = "shown"
    /\ IF accessor = "released"
         THEN Crash
         ELSE /\ accessor' = "released"
              /\ screen' = IF collapsed THEN "popped" ELSE "shown"
              /\ UNCHANGED <<talk, rows, tableRows, editing, known, collapsed>>

\* The user goes back to the list of a collapsed split view.
back ==
    /\ screen = "shown"
    /\ collapsed
    /\ screen' = "popped"
    /\ UNCHANGED <<talk, accessor, rows, tableRows, editing, known, collapsed>>

\* A fetch has rewritten the talk; the screen does not look.
fetched(new) ==
    /\ screen = "shown"
    /\ accessor = "attached"
    /\ talk' = new
    /\ known' = new
    /\ UNCHANGED <<accessor, rows, tableRows, editing, screen, collapsed>>

\* A fetch, or the list beside the screen, has removed the talk.
removed ==
    /\ screen = "shown"
    /\ accessor = "attached"
    /\ accessor' = "detached"
    /\ UNCHANGED <<talk, rows, tableRows, editing, known, screen, collapsed>>

\* The split view collapses.  A detail screen with a talk is pushed on the list
\* (one without would be discarded).
collapse ==
    /\ screen = "shown"
    /\ ~ collapsed
    /\ collapsed' = TRUE
    /\ UNCHANGED <<talk, accessor, rows, tableRows, editing, known, screen>>

\* ... and is put beside the list again when there is room for it.
separate ==
    /\ screen = "shown"
    /\ collapsed
    /\ collapsed' = FALSE
    /\ UNCHANGED <<talk, accessor, rows, tableRows, editing, known, screen>>

Next ==
    \/ \E field \in Fields, text \in Texts : beginEditing(field, text)
    \/ \E text \in Texts : editingChanged(text) \/ notesTyped(text)
    \/ didEndEditing
    \/ textViewDidEndEditing
    \/ \E now \in Dates : switchOn(now) \/ openDatePicker(now)
    \/ switchOff
    \/ closeDatePicker
    \/ \E date \in Dates : datePickerChanged(date)
    \/ delete
    \/ back
    \/ \E new \in TalkFields : fetched(new)
    \/ removed
    \/ collapse
    \/ separate

Spec == Init /\ [][Next]_vars

-----------------------------------------------------------------------------
(* Properties.                                                             *)

\* The date section is a switch, followed by a date exactly if it is on, with
\* a picker after the date at most: what the handlers' fixed indices rely on,
\* whatever the order in which rows are toggled.
DateSectionWellformed ==
    /\ Len(rows) \in 1..3
    /\ rows[1].kind = "switch"
    /\ rows[1].isOn <=> Len(rows) > 1
    /\ Len(rows) > 1 => rows[2].kind = "date"
    /\ Len(rows) > 2 => rows[3].kind = "datePicker"

\* The app crashes here only over a talk that was deleted under the screen or
\* by it: no sequence of taps runs out of the rows or upsets the table view.
CrashOnlyWhenGone == screen = "crashed" => accessor # "attached"

\* Once no field is being edited, the server has been sent the talk as it is,
\* or has itself sent it: no edit of a field or of the date stays behind
\* (sendUpdate in every handler).
NothingUnsent == accessor = "attached" /\ editing = None => known = talk

\* What TalkDetailProofs shows to be inductive: with the above, the table view
\* and the data source agree on the rows.
DetailInv ==
    /\ TypeOK
    /\ DateSectionWellformed
    /\ tableRows = Len(rows)
    /\ CrashOnlyWhenGone
    /\ NothingUnsent
=============================================================================
