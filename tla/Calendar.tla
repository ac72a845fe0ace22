------------------------------ MODULE Calendar ------------------------------
(***************************************************************************)
(* The calendars of a page (cloudJs/js/calendar.js).  All fields share one *)
(* panel, but each has an object of its own that remembers whether it is   *)
(* shown, whether the mouse is over the panel, and the days picked so far. *)
(* A field is closed by a blur, by a click anywhere else, by a day or by a *)
(* button of the panel; a range that has only one day then ends, or        *)
(* begins, today.  Days are numbers; months, years and hours are left out. *)
(***************************************************************************)
EXTENDS Naturals, Sequences

CONSTANTS
    Fields,
    LastDay,    \* the days are 1 .. LastDay
    Today,
    Nobody      \* no field

Days == 1 .. LastDay
NoDay == 0
Bad  == LastDay + 1     \* a text that is no date

VARIABLES
    fields,     \* "day", "time" (a day and an hour) or "range" (multiSelect)
    opts,       \* their options startDate and endDate
    cal,        \* the object of each field
    owner,      \* field whose handlers are bound to the panel
    visible,    \* the panel is shown
    overPanel,  \* the mouse is over the panel
    caret       \* field that has the focus

vars == <<fields, opts, cal, owner, visible, overPanel, caret>>

Options == (Days \cup {NoDay}) \X (Days \cup {NoDay})

TypeOK ==
    /\ fields \in [Fields -> {"day", "time", "range"}] /\ opts \in [Fields -> Options]
    /\ cal \in [Fields -> [shown : BOOLEAN, mouseover : BOOLEAN, rangeArr : Seq(Days),
                           val : Seq(Days \cup {Bad}), date : Days \cup {NoDay},
                           startDate : Days \cup {NoDay, Bad}, endDate : Days \cup {NoDay}]]
    /\ owner \in Fields \cup {Nobody} /\ caret \in Fields \cup {Nobody}
    /\ visible \in BOOLEAN /\ overPanel \in BOOLEAN

Sorted(d, e) == IF d <= e THEN <<d, e>> ELSE <<e, d>>
Ranges == {r \in Days \X Days : r[1] <= r[2]}

-----------------------------------------------------------------------------
(* The field and its two hidden fields take a range.                       *)
Whole(c, r) == [c EXCEPT !.rangeArr = r, !.val = r, !.startDate = r[1], !.endDate = r[2]]

(* hide: a range of one day takes today for the other; then a text that    *)
(* was empty, or no date, when hide was called goes.                       *)
Hidden(c, kind) ==
    LET h == IF kind = "range" /\ Len(c.rangeArr) = 1
             THEN Whole(c, Sorted(c.rangeArr[1], Today)) ELSE c
    IN  [h EXCEPT !.shown = FALSE,
                  !.val = IF c.val = <<>> \/ c.val[1] = Bad THEN <<>> ELSE @]

(* The panel goes, and with it the handlers of whoever owns it.            *)
Close == visible' = FALSE /\ owner' = Nobody /\ overPanel' = FALSE
Hide(f, c) == cal' = [cal EXCEPT ![f] = Hidden(c, fields[f])] /\ Close

(* drawTimeBox: the range in the hidden fields is taken over.              *)
DrawTimeBox(c, kind) ==
    LET r == IF c.startDate # NoDay /\ c.rangeArr = <<>> THEN <<c.startDate>> ELSE c.rangeArr
    IN  IF kind # "range" THEN c
        ELSE [c EXCEPT !.rangeArr = IF c.endDate # NoDay /\ Len(r) < 2 THEN Append(r, c.endDate)
                                    ELSE r]

(* init: both days of a range are shown as they are given, a first day     *)
(* stands alone in the text, a last day only in its hidden field.  Another *)
(* field shows its first day.                                              *)
Text(kind, o) == IF kind = "range" /\ NoDay \notin {o[1], o[2]} THEN o
                 ELSE IF o[1] # NoDay THEN <<o[1]>> ELSE <<>>
NewCalendar(kind, o) ==
    [shown |-> FALSE, mouseover |-> FALSE, rangeArr |-> <<>>, val |-> Text(kind, o), date |-> o[1],
     startDate |-> IF kind = "range" THEN o[1] ELSE NoDay,
     endDate |-> IF kind = "range" THEN o[2] ELSE NoDay]

Init ==
    /\ fields \in [Fields -> {"day", "time", "range"}]
    /\ opts \in [Fields -> Options] /\ \A f \in Fields : fields[f] # "range" => opts[f][2] = NoDay
    /\ cal = [f \in Fields |-> NewCalendar(fields[f], opts[f])]
    /\ owner = Nobody /\ visible = FALSE /\ overPanel = FALSE /\ caret = Nobody

-----------------------------------------------------------------------------
(* A click on the field or on its icon, which no other handler hears of.   *)
Show(f, isIcon) ==
    /\ caret = Nobody \/ (caret = f /\ ~isIcon)
    /\ ~overPanel
    /\ caret' = IF isIcon THEN Nobody ELSE f
    /\ cal' = [cal EXCEPT ![f] = [DrawTimeBox(@, fields[f]) EXCEPT !.shown = TRUE]]
    /\ owner' = f /\ visible' = TRUE
    /\ UNCHANGED <<fields, opts, overPanel>>

(* The focus comes by the keyboard, and opens nothing.                     *)
Focus(f) ==
    /\ caret = Nobody /\ caret' = f
    /\ UNCHANGED <<fields, opts, cal, owner, visible, overPanel>>

(* The focus leaves the field: hideCalendar, whoever owns the panel.       *)
Blur ==
    /\ caret # Nobody /\ caret' = Nobody
    /\ IF cal[caret].mouseover THEN UNCHANGED <<cal, owner, visible, overPanel>>
       ELSE Hide(caret, cal[caret])
    /\ UNCHANGED <<fields, opts>>

(* A click elsewhere, or a resize, closes every calendar that is shown.    *)
DocumentHandle ==
    /\ \E f \in Fields : cal[f].shown
    /\ cal' = [f \in Fields |-> IF cal[f].shown THEN Hidden(cal[f], fields[f]) ELSE cal[f]]
    /\ Close
    /\ UNCHANGED <<fields, opts, caret>>

(* Only a calendar whose handlers are bound hears of the mouse.            *)
MousePanel ==
    /\ visible /\ overPanel' = ~overPanel
    /\ cal' = [cal EXCEPT ![owner].mouseover = ~overPanel]
    /\ UNCHANGED <<fields, opts, owner, visible, caret>>

(* Another month, or another year: the panel is drawn again.               *)
FillPanel ==
    /\ visible
    /\ cal' = [cal EXCEPT ![owner] = DrawTimeBox(@, fields[owner])]
    /\ UNCHANGED <<fields, opts, owner, visible, overPanel, caret>>

(* Mutant: the second day is taken for the last.                           *)
PickedAsClicked(c, d) ==
    IF Len(c.rangeArr) = 1 THEN Whole(c, <<c.rangeArr[1], d>>)
    ELSE [c EXCEPT !.rangeArr = <<d>>, !.val = <<d>>, !.startDate = d, !.endDate = NoDay]

(* The days of a range: a third one begins the next range.                 *)
Picked(c, d) ==
    IF Len(c.rangeArr) = 1 THEN Whole(c, Sorted(c.rangeArr[1], d))
    ELSE [c EXCEPT !.rangeArr = <<d>>, !.val = <<d>>, !.startDate = d, !.endDate = NoDay]

ClickDay(d) ==
    /\ visible /\ overPanel
    /\ LET p == IF fields[owner] = "range" THEN Picked(cal[owner], d)
                ELSE [cal[owner] EXCEPT !.val = <<d>>, !.date = d]
       IN  IF fields[owner] = "time" \/ (fields[owner] = "range" /\ Len(p.rangeArr) = 1)
           THEN cal' = [cal EXCEPT ![owner] = p] /\ UNCHANGED <<owner, visible, overPanel>>
           ELSE Hide(owner, p)
    /\ UNCHANGED <<fields, opts, caret>>

(* The buttons: the hour is set on the day in data('date'), or on today;   *)
(* today; and the range that is written in the panel.                      *)
TimeSubmit ==
    /\ visible /\ overPanel /\ fields[owner] = "time"
    /\ Hide(owner, [cal[owner] EXCEPT !.val = <<IF cal[owner].date = NoDay THEN Today
                                                ELSE cal[owner].date>>])
    /\ UNCHANGED <<fields, opts, caret>>

TodaySubmit ==
    /\ visible /\ overPanel /\ fields[owner] # "range"
    /\ Hide(owner, [cal[owner] EXCEPT !.val = <<Today>>])
    /\ UNCHANGED <<fields, opts, caret>>

MultiSubmit ==
    /\ visible /\ overPanel /\ fields[owner] = "range"
    /\ LET c == cal[owner]
           first == IF c.startDate = NoDay THEN Bad ELSE c.startDate    \* "undefined"
       IN  /\ c.startDate \in Days \/ c.endDate # NoDay
           /\ Hide(owner, IF c.endDate = NoDay THEN Whole(c, Sorted(c.rangeArr[1], Today))
                          ELSE [c EXCEPT !.val = <<first, c.endDate>>, !.startDate = first])
    /\ UNCHANGED <<fields, opts, caret>>

(* The user types; the field of a range is read only.                      *)
Type(d) ==
    /\ caret # Nobody /\ fields[caret] # "range"
    /\ cal' = [cal EXCEPT ![caret].val = <<d>>]
    /\ UNCHANGED <<fields, opts, owner, visible, overPanel, caret>>

Next ==
    \/ \E f \in Fields, isIcon \in BOOLEAN : Show(f, isIcon)
    \/ \E f \in Fields : Focus(f)
    \/ Blur \/ DocumentHandle \/ MousePanel \/ FillPanel
    \/ \E d \in Days : ClickDay(d)
    \/ TimeSubmit \/ TodaySubmit \/ MultiSubmit
    \/ \E d \in Days \cup {Bad} : Type(d)

Spec == Init /\ [][Next]_vars

-----------------------------------------------------------------------------
(* What a form posts of a range is what its field shows.  A field whose    *)
(* calendar is closed (shown, however it was closed: hide, multi_submit,   *)
(* calendar_day) is as the options made it, or its hidden fields hold a    *)
(* first and a last day in order, the ones in the text.  The calendar of a *)
(* field that lost the panel to another field, or to the blur of one, is   *)
(* not closed: the next click elsewhere ends its range.  A field that was  *)
(* given a last day and no first is left out: hide empties its text over   *)
(* the range it posts.                                                     *)
EndOnly(o) == o[1] = NoDay /\ o[2] # NoDay
AsGiven(c, o) == c.val = Text("range", o) /\ c.startDate = o[1] /\ c.endDate = o[2]
RangeIsWhole ==
    \A f \in Fields : fields[f] = "range" /\ ~cal[f].shown /\ ~EndOnly(opts[f]) =>
        \/ AsGiven(cal[f], opts[f])
        \/ cal[f].val = <<cal[f].startDate, cal[f].endDate>> /\ cal[f].val \in Ranges

(* What every step keeps.  A range is as it was given, has a first day, or *)
(* both; the one that has a first day is open.                             *)
Given(c, o) == AsGiven(c, o) /\ c.rangeArr \in {<<>>} \cup ({o} \cap (Days \X Days))
Begun(c) == \E d \in Days : /\ c.rangeArr = <<d>> /\ c.val = <<d>>
                            /\ c.startDate = d /\ c.endDate = NoDay
Ranged(c) == \E d, e \in Days : /\ d <= e /\ c.val = <<d, e>> /\ c.rangeArr = <<d, e>>
                                /\ c.startDate = d /\ c.endDate = e
Loose(c) == c.startDate = Bad \/ c.endDate = NoDay => c.rangeArr # <<>>
Drawn(c) == c.startDate # NoDay \/ c.endDate # NoDay => c.rangeArr # <<>>
Fits(c, kind, o) ==
    /\ kind # "range" => c.rangeArr = <<>>
    /\ kind = "range" /\ EndOnly(o) => Loose(c)
    /\ kind = "range" /\ ~EndOnly(o) => Given(c, o) \/ Begun(c) \/ Ranged(c)
Inv ==
    /\ TypeOK /\ RangeIsWhole
    /\ \A f \in Fields : /\ Fits(cal[f], fields[f], opts[f])
                         /\ Len(cal[f].rangeArr) = 1 => cal[f].shown
                         /\ fields[f] = "range" /\ cal[f].shown => Drawn(cal[f])
    /\ visible <=> owner # Nobody
    /\ owner # Nobody => cal[owner].shown
=============================================================================
