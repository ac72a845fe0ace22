---------------------------- MODULE Monthpicker ----------------------------
(***************************************************************************)
(* Fields for a month or a range of months (cloudJs/js/monthpicker.js).    *)
(* All fields of a page share one panel; each believes in its own flags.   *)
(* A month is a number, year * PerYear + month.                            *)
(***************************************************************************)
EXTENDS Integers, Sequences

CONSTANTS
    Fields, Multi,          \* the fields, and those that take a range
    PerYear,                \* months of a year (12)
    BeginYear, EndYear,     \* of the panel
    MinDate, MaxDate,       \* the months that can be taken
    Now,                    \* the current month
    Undef, None             \* "undefined" and "" in a hidden input; None: no field

VARIABLES
    panel,      \* the field that filled the panel last
    visible,    \* the panel is there
    inside,     \* the mouse is in it
    focus,      \* the field that has the focus, or None
    shown, mouseover,   \* a field's flags
    leavers,    \* fields that hear of the mouse leaving the panel
    months,     \* a field's month, whose year the panel shows
    text,       \* value of the field: no, one or two months
    hidden,     \* startMonth and endMonth, as the form would post them
    rangeArr

vars == <<panel, visible, inside, focus, shown, mouseover, leavers, months, text,
          hidden, rangeArr>>
flags == <<panel, visible, inside, focus, shown, mouseover, leavers>>
values == <<text, hidden, rangeArr>>

Month == BeginYear * PerYear .. EndYear * PerYear + PerYear - 1
Stored == Month \cup {Undef, None}

TypeOK ==
    /\ panel \in Fields \cup {None} /\ focus \in Fields \cup {None}
    /\ visible \in BOOLEAN /\ inside \in BOOLEAN
    /\ shown \in [Fields -> BOOLEAN] /\ mouseover \in [Fields -> BOOLEAN]
    /\ leavers \subseteq Fields /\ months \in [Fields -> Nat]
    /\ \A f \in Fields : /\ Len(text[f]) <= 2 /\ \A i \in DOMAIN text[f] : text[f][i] \in Month
                         /\ Len(rangeArr[f]) <= 2
    /\ hidden \in [Fields -> Stored \X Stored]

(* setEnable                                                               *)
Enabled == Month \cap (MinDate .. MaxDate)

(* init: with or without the months a field begins with.  What is not      *)
(* given is "undefined" in its hidden input.                               *)
Init ==
    /\ panel = None /\ visible = FALSE /\ inside = FALSE /\ focus = None /\ leavers = {}
    /\ shown = [f \in Fields |-> FALSE] /\ mouseover = [f \in Fields |-> FALSE]
    /\ hidden \in [Fields -> {Undef, MinDate} \X {Undef, MaxDate}]
    /\ text = [f \in Fields |->
                 IF hidden[f][1] = Undef THEN <<>>
                 ELSE IF f \in Multi /\ hidden[f][2] # Undef THEN hidden[f]
                 ELSE <<hidden[f][1]>>]
    /\ months = [f \in Fields |-> IF Len(text[f]) = 2 THEN text[f][1] ELSE Now]
    /\ rangeArr = [f \in Fields |-> <<>>]

Sorted(r) == IF r[1] <= r[2] THEN r ELSE <<r[2], r[1]>>

Take(f, r) ==
    /\ rangeArr' = [rangeArr EXCEPT ![f] = r]
    /\ text' = [text EXCEPT ![f] = r]
    /\ hidden' = [hidden EXCEPT ![f] = IF Len(r) = 2 THEN r ELSE <<r[1], None>>]

-----------------------------------------------------------------------------
(* fillPanel with draw, drawRangeBox and bindEvent; what the hidden inputs *)
(* hold becomes the range if there is none.                                *)
FillPanel(f) ==
    /\ panel' = f /\ leavers' = leavers \cup {f}
    /\ rangeArr' = IF f \in Multi /\ rangeArr[f] = <<>> /\ hidden[f][2] # None
                   THEN [rangeArr EXCEPT ![f] = hidden[f]] ELSE rangeArr

(* hide: the panel goes, whoever filled it; the mouse is no longer heard.  *)
(* A range that is not whole ends, or begins, with the current month.      *)
Hide(S) ==
    /\ shown' = [f \in Fields |-> shown[f] /\ f \notin S]
    /\ IF S = {} THEN UNCHANGED <<visible, inside, leavers>>
       ELSE visible' = FALSE /\ inside' = FALSE /\ leavers' = {}
    /\ LET half == {f \in S \cap Multi : Len(rangeArr[f]) = 1}
           whole(f) == Sorted(Append(rangeArr[f], Now))
       IN  /\ rangeArr' = [f \in Fields |-> IF f \in half THEN whole(f) ELSE rangeArr[f]]
           /\ text' = [f \in Fields |-> IF f \in half THEN whole(f) ELSE text[f]]
           /\ hidden' = [f \in Fields |-> IF f \in half THEN whole(f) ELSE hidden[f]]

(* hideCalendar: the field loses the focus.                                *)
Blurred == {f \in {focus} \ {None} : ~mouseover[f]}

-----------------------------------------------------------------------------
(* A click into a field that has the focus, or on a field's icon           *)
ShowCalendar(f) ==
    /\ ~inside /\ focus \in {f, None}
    /\ FillPanel(f) /\ visible' = TRUE /\ shown' = [shown EXCEPT ![f] = TRUE]
    /\ focus' \in {f, None}
    /\ UNCHANGED <<inside, mouseover, months, text, hidden>>

(* The focus comes to a field, or goes: by a key, or by the mouse, which   *)
(* then clicks.                                                            *)
Focus(f) ==
    /\ focus # f /\ focus' = f /\ Hide(Blurred)
    /\ UNCHANGED <<panel, mouseover, months>>

(* A click elsewhere in the page, or the window is resized                 *)
DocumentHandle(resized) ==
    /\ ~inside \/ resized
    /\ focus' = IF resized THEN focus ELSE None
    /\ Hide({f \in Fields : shown[f]} \cup IF resized THEN {} ELSE Blurred)
    /\ UNCHANGED <<panel, mouseover, months>>

MouseEnter ==
    /\ visible /\ ~inside /\ inside' = TRUE
    /\ mouseover' = [mouseover EXCEPT ![panel] = TRUE]
    /\ UNCHANGED <<panel, visible, focus, shown, leavers, months, values>>

MouseLeave ==
    /\ inside /\ inside' = FALSE
    /\ mouseover' = [f \in Fields |-> mouseover[f] /\ f \notin leavers]
    /\ UNCHANGED <<panel, visible, focus, shown, leavers, months, values>>

(* A click in the panel takes the focus from the field, with the mouse     *)
(* over the panel of that field.                                           *)
InPanel == visible /\ inside /\ Blurred = {} /\ focus' = None

(* goPrevYear and goNextYear                                               *)
GoPrevYear(f) ==
    /\ months[f] > BeginYear * PerYear
    /\ months' = [months EXCEPT ![f] = @ - PerYear]

GoNextYear(f) ==
    /\ months[f] < EndYear * PerYear + PerYear - 1
    /\ months' = [months EXCEPT ![f] = @ + PerYear]

YearSelect(f) == \E y \in BeginYear .. EndYear : months' = [months EXCEPT ![f] = y * PerYear]

TurnYear ==
    /\ InPanel
    /\ GoPrevYear(panel) \/ GoNextYear(panel) \/ YearSelect(panel)
    /\ FillPanel(panel)
    /\ UNCHANGED <<visible, inside, shown, mouseover, text, hidden>>

(* calendar_mon: a month of the year shown                                 *)
Picked(f) == {m \in Enabled : m \div PerYear = months[f] \div PerYear}

PickFirst ==
    /\ InPanel /\ panel \in Multi /\ Len(rangeArr[panel]) # 1
    /\ \E m \in Picked(panel) : Take(panel, <<m>>)
    /\ UNCHANGED <<panel, visible, inside, shown, mouseover, leavers, months>>

(* The second month, or the month of a field that takes one: the panel     *)
(* hides, and the field does not hear the mouse leave it.                  *)
PickLast ==
    /\ InPanel
    /\ \E m \in Picked(panel) :
          IF panel \in Multi
          THEN Len(rangeArr[panel]) = 1 /\ Take(panel, Sorted(Append(rangeArr[panel], m)))
          ELSE text' = [text EXCEPT ![panel] = <<m>>] /\ UNCHANGED <<hidden, rangeArr>>
    /\ visible' = FALSE /\ inside' = FALSE /\ leavers' = {}
    /\ shown' = [shown EXCEPT ![panel] = FALSE]
    /\ UNCHANGED <<panel, mouseover, months>>

Next ==
    \/ \E f \in Fields : ShowCalendar(f)
    \/ \E f \in Fields \cup {None} : Focus(f)
    \/ \E resized \in BOOLEAN : DocumentHandle(resized)
    \/ MouseEnter \/ MouseLeave \/ TurnYear \/ PickFirst \/ PickLast

Spec == Init /\ [][Next]_vars

-----------------------------------------------------------------------------
(* A field that is not being edited has a whole range: its two months are  *)
(* in order, the form posts what the field shows, and each is a month that *)
(* could be taken or the current one, which a panel closed halfway fills   *)
(* in (calendar_mon, hide, documentHandle, hideCalendar).                  *)
MonthsAreWhole ==
    \A f \in Multi : ~shown[f] /\ rangeArr[f] # <<>> =>
        /\ Len(rangeArr[f]) = 2 /\ hidden[f] = rangeArr[f]
        /\ Undef \notin {rangeArr[f][1], rangeArr[f][2]} =>
              /\ text[f] = rangeArr[f] /\ rangeArr[f][1] <= rangeArr[f][2]
              /\ {rangeArr[f][1], rangeArr[f][2]} \subseteq Enabled \cup {Now}

(* What every step keeps.  A range is as it was given, or has its first    *)
(* month, while the field is edited, or both, and the panel that is there  *)
(* belongs to a field that knows of it.                                    *)
Given(f) == /\ rangeArr[f] = <<>> /\ hidden[f] \in {Undef, MinDate} \X {Undef, MaxDate}
            /\ Undef \notin {hidden[f][1], hidden[f][2]} => text[f] = hidden[f]
Begun(f) == shown[f] /\ \E m \in Enabled : rangeArr[f] = <<m>>
Whole(f) == \E a, b \in Month \cup {Undef} :
               /\ rangeArr[f] = <<a, b>> /\ hidden[f] = <<a, b>>
               /\ Undef \notin {a, b} => /\ text[f] = <<a, b>> /\ a <= b
                                         /\ {a, b} \subseteq Enabled \cup {Now}
Texts == {<<>>} \cup {<<m>> : m \in Month} \cup {<<m, n>> : m, n \in Month}
Inv ==
    /\ TypeOK /\ MonthsAreWhole
    /\ text \in [Fields -> Texts] /\ DOMAIN rangeArr = Fields
    /\ \A f \in Fields : IF f \in Multi THEN Given(f) \/ Begun(f) \/ Whole(f)
                         ELSE rangeArr[f] = <<>>
    /\ visible => panel \in Fields /\ shown[panel]
=============================================================================
