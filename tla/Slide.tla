-------------------------------- MODULE Slide --------------------------------
(***************************************************************************)
(* Pictures that change by themselves (cloudJs/js/slide.js): an interval   *)
(* timer that the mouse stops and starts, arrows, anchors and calls.       *)
(***************************************************************************)
EXTENDS Naturals

CONSTANTS Count     \* pictures, at least one; the first is 1

VARIABLES
    slideOpt,       \* the options
    activeIndex,    \* cObj._activeIndex
    slideInterval,  \* cObj._slideInteval is set
    slideMouse,     \* the mouse is over the pictures
    isMouseEnter,   \* cObj.isMouseEnter
    arrows          \* arrows that are not slide_disable

vars == <<slideOpt, activeIndex, slideInterval, slideMouse, isMouseEnter, arrows>>

Options == [isAuto : BOOLEAN, isCycle : BOOLEAN, isShowArrow : BOOLEAN,
            enableMouseEnter : BOOLEAN, order : {"forward", "reverse"}]

TypeOK ==
    /\ slideOpt \in Options /\ activeIndex \in 1 .. Count
    /\ slideInterval \in BOOLEAN /\ slideMouse \in BOOLEAN /\ isMouseEnter \in BOOLEAN
    /\ arrows \subseteq {"prev", "next"}

(* _setStyle disables at both ends, _toIndex at the first end that fits.   *)
SetStyle(i) == {a \in {"prev", "next"} :
                  slideOpt.isCycle \/ i # IF a = "prev" THEN 1 ELSE Count}
Arrows(i) == CASE slideOpt.isCycle -> arrows
               [] ~slideOpt.isCycle /\ i = 1 -> {"next"}
               [] ~slideOpt.isCycle /\ i # 1 /\ i = Count -> {"prev"}
               [] OTHER -> {"prev", "next"}

Init ==
    /\ slideOpt \in Options /\ activeIndex \in 1 .. Count
    /\ arrows = SetStyle(activeIndex)
    /\ slideMouse = FALSE /\ isMouseEnter = FALSE /\ slideInterval = slideOpt.isAuto

(* Mutant: the timer starts again wherever the mouse is.                   *)
SetIntervalAlways(over) == slideInterval' = (slideOpt.isAuto \/ slideInterval)

(* _setInterval, which follows every step of the user                      *)
SetInterval(over) ==
    slideInterval' = IF slideOpt.isAuto THEN ~over ELSE slideInterval

ToIndex(i, autoFlag) ==
    /\ activeIndex' = i
    /\ arrows' = Arrows(i)
    /\ IF autoFlag THEN UNCHANGED slideInterval ELSE SetInterval(isMouseEnter)
    /\ UNCHANGED <<slideOpt, slideMouse, isMouseEnter>>

(* _toPrev and _toNext end at the ends unless the pictures are a cycle.    *)
ToPrev(autoFlag) == \/ activeIndex > 1 /\ ToIndex(activeIndex - 1, autoFlag)
                    \/ activeIndex = 1 /\ slideOpt.isCycle /\ ToIndex(Count, autoFlag)
ToNext(autoFlag) == \/ activeIndex < Count /\ ToIndex(activeIndex + 1, autoFlag)
                    \/ activeIndex = Count /\ slideOpt.isCycle /\ ToIndex(1, autoFlag)

Tick ==
    /\ slideInterval
    /\ IF slideOpt.order = "forward" THEN ToNext(TRUE) ELSE ToPrev(TRUE)

(* _bindEvent: without arrows the handler bound first throws, and the one  *)
(* that stops the timer is not reached.                                    *)
MouseMove ==
    /\ slideMouse' = ~slideMouse
    /\ IF slideOpt.enableMouseEnter /\ slideOpt.isShowArrow
       THEN /\ isMouseEnter' = slideMouse'
            /\ SetInterval(slideMouse')
       ELSE UNCHANGED <<isMouseEnter, slideInterval>>
    /\ UNCHANGED <<slideOpt, activeIndex, arrows>>

Click ==
    \/ slideMouse /\ slideOpt.isShowArrow /\ "prev" \in arrows /\ ToPrev(FALSE)
    \/ slideMouse /\ slideOpt.isShowArrow /\ "next" \in arrows /\ ToNext(FALSE)

(* slide('toIndex'), slide('toPrev'), slide('toNext'), an anchor           *)
Call == (\E i \in 1 .. Count : ToIndex(i, FALSE)) \/ ToPrev(FALSE) \/ ToNext(FALSE)

Next == Tick \/ MouseMove \/ Click \/ Call

Spec == Init /\ [][Next]_vars

-----------------------------------------------------------------------------
(* The pictures move exactly while the mouse is elsewhere, also after the  *)
(* user has turned them by hand, and a row that is no cycle offers an      *)
(* arrow just where there is a picture (_setInterval, _toIndex).           *)
PlaysWhileAway ==
    /\ slideOpt.isAuto /\ slideOpt.enableMouseEnter /\ slideOpt.isShowArrow =>
          (slideInterval <=> ~slideMouse)
    /\ ~slideOpt.isCycle /\ Count > 1 =>
          arrows = {a \in {"prev", "next"} : activeIndex # IF a = "prev" THEN 1 ELSE Count}

(* What every step keeps: where the mouse stops the timer, the component   *)
(* knows where the mouse is.                                               *)
Inv == /\ TypeOK /\ PlaysWhileAway
       /\ slideOpt.enableMouseEnter /\ slideOpt.isShowArrow => isMouseEnter = slideMouse
=============================================================================
