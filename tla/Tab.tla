-------------------------------- MODULE Tab --------------------------------
(***************************************************************************)
(* Tabs that are chosen by a click, by the mouse resting on them, or in    *)
(* turn by a timer: cloudJs/js/tab.js.                                     *)
(***************************************************************************)
EXTENDS Naturals

CONSTANT MaxTabs

VARIABLES
    length,         \* number of tabs
    enableHover, isAuto,
    selectIndex,    \* the tab whose panel is shown
    mouse,          \* "out", "in" the component, or the tab the mouse is on
    hoverTimeout,   \* the tab of the timer that is set, or NoTab
    switchInteval,  \* the timer that takes the tabs in turn is set
    chosen          \* history: the tab that was chosen last by the user

vars == <<length, enableHover, isAuto, selectIndex, mouse, hoverTimeout, switchInteval, chosen>>

NoTab == MaxTabs
In   == MaxTabs + 1
Out  == MaxTabs + 2
Indices == 0 .. length - 1

TypeOK ==
    /\ length \in 1 .. MaxTabs /\ {enableHover, isAuto, switchInteval} \subseteq BOOLEAN
    /\ selectIndex \in Indices /\ mouse \in Indices \cup {In, Out}
    /\ hoverTimeout \in Indices \cup {NoTab} /\ chosen \in Indices \cup {NoTab}

(* _init: a tab that is not there is the first one.                        *)
Init ==
    /\ length \in 1 .. MaxTabs /\ enableHover \in BOOLEAN /\ isAuto \in BOOLEAN
    /\ \E asked \in 0 .. MaxTabs : selectIndex = IF length <= asked THEN 0 ELSE asked
    /\ mouse = Out /\ hoverTimeout = NoTab /\ switchInteval = isAuto /\ chosen = NoTab

options == <<length, enableHover, isAuto>>

(* _swithTo                                                                *)
SwitchTo(index) == selectIndex' = index

(* Mutant: the timer of a tab that the mouse leaves goes on.               *)
TimeoutKept(to) == IF enableHover /\ to \in Indices THEN to ELSE hoverTimeout

(* The timer of the tab the mouse is on                                    *)
TimeoutOn(to) ==
    IF enableHover /\ to \in Indices THEN to
    ELSE IF enableHover /\ mouse \in Indices THEN NoTab ELSE hoverTimeout

(* mouseenter and mouseleave of the component and of its tabs; from one    *)
(* place to another the mouse leaves first.                                *)
Move(to) ==
    /\ to # mouse /\ mouse' = to
    /\ hoverTimeout' = TimeoutOn(to)
    /\ switchInteval' = (isAuto /\ to = Out)
    /\ UNCHANGED <<options, selectIndex, chosen>>

HoverTimer ==
    /\ hoverTimeout # NoTab /\ hoverTimeout' = NoTab
    /\ SwitchTo(hoverTimeout) /\ chosen' = hoverTimeout
    /\ UNCHANGED <<options, mouse, switchInteval>>

Click ==
    /\ mouse \in Indices /\ hoverTimeout' = NoTab
    /\ SwitchTo(mouse) /\ chosen' = mouse
    /\ UNCHANGED <<options, mouse, switchInteval>>

Interval ==
    /\ switchInteval /\ SwitchTo((selectIndex + 1) % length) /\ chosen' = NoTab
    /\ UNCHANGED <<options, mouse, hoverTimeout, switchInteval>>

Next == (\E to \in Indices \cup {In, Out} : Move(to)) \/ HoverTimer \/ Click \/ Interval

Spec == Init /\ [][Next]_vars

-----------------------------------------------------------------------------
(* The tab a user chose stays while the mouse is in the component: no      *)
(* timer takes it away, neither the one in turn nor one set for a tab that *)
(* the mouse has left (_bindEvent, _setSwitchInteval).                     *)
ChosenStays ==
    mouse # Out => /\ chosen # NoTab => selectIndex = chosen
                   /\ hoverTimeout # NoTab => hoverTimeout = mouse
                   /\ ~switchInteval

(* What every step keeps: only the tab under the mouse has a timer, and    *)
(* the mouse stops the other one.                                          *)
Inv ==
    /\ TypeOK /\ ChosenStays
    /\ chosen # NoTab => selectIndex = chosen
    /\ hoverTimeout # NoTab => enableHover /\ hoverTimeout = mouse
    /\ switchInteval => mouse = Out
=============================================================================
