-------------------------------- MODULE Tips --------------------------------
(***************************************************************************)
(* The texts shown beside elements under the mouse (cloudJs/js/tips.js).   *)
(* All of a page share two variables for timers: cloudjs.tips._timeout1    *)
(* hides, _timeout2 shows.  A timer whose variable is overwritten cannot   *)
(* be stopped any more.                                                    *)
(***************************************************************************)
EXTENDS Naturals, FiniteSets

CONSTANTS
    Eles,       \* elements with a tip
    Nobody      \* no element

VARIABLES
    hoverTips,  \* option hover: a tip stays while the mouse is over it
    tipsMouse,  \* what the mouse is over: <<"ele", e>>, <<"tips", e>> or Nobody
    visible,    \* elements whose tip is shown
    timeout1,   \* the tip that the timer in _timeout1 hides
    strays,     \* tips hidden by timers that _timeout1 no longer names
    timeout2,   \* the tip that the timer in _timeout2 shows
    title,      \* the title attribute of each element: "own" or ""
    forced      \* history: setData showed a tip

vars == <<hoverTips, tipsMouse, visible, timeout1, strays, timeout2, title, forced>>

TypeOK ==
    /\ hoverTips \in BOOLEAN /\ forced \in BOOLEAN
    /\ tipsMouse \in ({"ele", "tips"} \X Eles) \cup {Nobody}
    /\ visible \subseteq Eles /\ strays \subseteq Eles
    /\ timeout1 \in Eles \cup {Nobody} /\ timeout2 \in Eles \cup {Nobody}
    /\ title \in [Eles -> {"own", ""}]

Init ==
    /\ hoverTips \in BOOLEAN /\ forced = FALSE
    /\ tipsMouse = Nobody /\ visible = {} /\ strays = {}
    /\ timeout1 = Nobody /\ timeout2 = Nobody
    /\ title = [e \in Eles |-> "own"]

(* _hideTips                                                               *)
HideTips(e) == /\ timeout1' = e
               /\ strays' = (strays \cup {timeout1}) \ {Nobody}

(* mouseenter of an element: _hideOtherTips, both timers are stopped, the  *)
(* tip is made or filled again and will be shown; _setOwnTitle takes the   *)
(* title away from the browser.                                            *)
MouseEnter(e) ==
    /\ tipsMouse = Nobody /\ tipsMouse' = <<"ele", e>>
    /\ visible' = visible \cap {e}
    /\ timeout1' = Nobody
    /\ timeout2' = IF e \in visible THEN Nobody ELSE e
    /\ title' = [title EXCEPT ![e] = ""]
    /\ UNCHANGED <<hoverTips, strays, forced>>

(* Mutant: the timer that shows the tip is not stopped.                    *)
MouseLeaveLate(e) ==
    /\ tipsMouse = <<"ele", e>> /\ tipsMouse' = Nobody
    /\ HideTips(e)
    /\ title' = [title EXCEPT ![e] = "own"]
    /\ UNCHANGED <<hoverTips, visible, timeout2, forced>>

MouseLeave(e) ==
    /\ tipsMouse = <<"ele", e>> /\ tipsMouse' = Nobody
    /\ timeout2' = Nobody
    /\ HideTips(e)
    /\ title' = [title EXCEPT ![e] = "own"]
    /\ UNCHANGED <<hoverTips, visible, forced>>

(* _bindTipsEvent                                                          *)
TipsEnter(e) ==
    /\ tipsMouse = Nobody /\ e \in visible /\ tipsMouse' = <<"tips", e>>
    /\ timeout1' = IF hoverTips THEN Nobody ELSE timeout1
    /\ UNCHANGED <<hoverTips, visible, strays, timeout2, title, forced>>
TipsLeave(e) ==
    /\ tipsMouse = <<"tips", e>> /\ tipsMouse' = Nobody
    /\ IF hoverTips /\ e \in visible THEN HideTips(e) ELSE UNCHANGED <<timeout1, strays>>
    /\ UNCHANGED <<hoverTips, visible, timeout2, title, forced>>

ShowTimer ==
    /\ timeout2 # Nobody /\ timeout2' = Nobody
    /\ visible' = visible \cup {timeout2}
    /\ UNCHANGED <<hoverTips, tipsMouse, timeout1, strays, title, forced>>

HideTimer ==
    /\ \E e \in strays \cup ({timeout1} \ {Nobody}) :
          /\ visible' = visible \ {e}
          /\ \/ e \in strays /\ strays' = strays \ {e} /\ UNCHANGED timeout1
             \/ e = timeout1 /\ timeout1' = Nobody /\ UNCHANGED strays
    /\ UNCHANGED <<hoverTips, tipsMouse, timeout2, title, forced>>

(* mousedown anywhere but on a tip                                         *)
Mousedown ==
    /\ \A e \in Eles : tipsMouse # <<"tips", e>>
    /\ visible' = {} /\ timeout2' = Nobody
    /\ UNCHANGED <<hoverTips, tipsMouse, timeout1, strays, title, forced>>

(* tips('setData') with forceShow: _showTips shows a hidden tip at once    *)
(* and has it hidden later.                                                *)
SetData(e) ==
    /\ e \notin visible
    /\ visible' = visible \cup {e} /\ forced' = TRUE
    /\ HideTips(e)
    /\ UNCHANGED <<hoverTips, tipsMouse, timeout2, title>>

(* tips('destroy'), and tips() again, which destroys first; the timers of  *)
(* the removed tip have nothing left to do.                                *)
DestroyTips(e) ==
    /\ visible' = visible \ {e}
    /\ title' = [title EXCEPT ![e] = "own"]
    /\ timeout2' = IF timeout2 = e THEN Nobody ELSE timeout2
    /\ tipsMouse' = IF tipsMouse \in {<<"ele", e>>, <<"tips", e>>} THEN Nobody ELSE tipsMouse
    /\ timeout1' = IF timeout1 = e THEN Nobody ELSE timeout1
    /\ strays' = strays \ {e}
    /\ UNCHANGED <<hoverTips, forced>>

Next ==
    \/ ShowTimer \/ HideTimer \/ Mousedown
    \/ \E e \in Eles : \/ MouseEnter(e) \/ MouseLeave(e) \/ TipsEnter(e) \/ TipsLeave(e)
                       \/ SetData(e) \/ DestroyTips(e)

Spec == Init /\ [][Next]_vars

-----------------------------------------------------------------------------
(* One tip at a time, and none that stays behind: a tip is shown while the *)
(* mouse is over its element or itself, or a timer is going to hide it;    *)
(* elsewhere the titles are back.  Only setData breaks the first two.      *)
NoTipStaysBehind ==
    /\ ~forced => /\ Cardinality(visible) <= 1
                  /\ \A e \in visible : \/ tipsMouse \in {<<"ele", e>>, <<"tips", e>>}
                                        \/ timeout1 = e
    /\ \A e \in Eles : tipsMouse # <<"ele", e>> => title[e] = "own"

(* What every step keeps.  Without setData there is at most one tip, that  *)
(* of the element the mouse is on if it is on one, or a timer to show it;  *)
(* a tip the mouse is on hides unless it stays.                            *)
Inv ==
    /\ TypeOK /\ NoTipStaysBehind
    /\ ~forced => /\ \A d, e \in visible : d = e
                  /\ \A e \in Eles : tipsMouse = <<"ele", e>> => visible \subseteq {e}
                  /\ \A e \in Eles : timeout2 = e => tipsMouse = <<"ele", e>> /\ visible = {}
                  /\ \A e \in visible : ~hoverTips /\ tipsMouse = <<"tips", e>> => timeout1 = e
=============================================================================
