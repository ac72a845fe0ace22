------------------------------- MODULE Dialog -------------------------------
(***************************************************************************)
(* The windows of the website (cloudJs/js/dialog.js): dialogs that are     *)
(* opened, closed, reopened, given other options, destroyed, raised and    *)
(* switched to full screen while animations of 300 ms run.  Three things   *)
(* are shared by all dialogs of a page: the counter that stacks them       *)
(* (cloudjs.zIndex), the flag that makes every call of the component       *)
(* return at once (_animating) and the body's overflow, which a full       *)
(* screen dialog hides.                                                    *)
(***************************************************************************)
EXTENDS Naturals, Sequences

CONSTANTS
    Dialogs,    \* elements of the page that are made dialogs of
    Large,      \* those that may exceed the window when they open
    MaxZ        \* bound on the counter of z-indexes (counted from 0)

VARIABLES
    zTop,       \* the counter behind cloudjs.zIndex()
    animating,  \* cloudjs.dialog._animating
    over,       \* overflow of the body: "auto" or "hidden"
    dlg,        \* the object of each dialog
    fx,         \* animations of each dialog, the one that runs first
    lost,       \* animations of elements that were removed meanwhile
    cut         \* history: a dialog was closed, reopened, destroyed or made
                \* in the middle of a switch to or from the full screen

vars == <<zTop, animating, over, dlg, fx, lost, cut>>

NoDialog == [made |-> FALSE, vis |-> FALSE, full |-> FALSE, z |-> 0,
             layer |-> "none", layerZ |-> 0, saved |-> "auto",
             modal |-> FALSE,   \* defaults.modal
             due |-> FALSE,     \* open() has started a timer of 0 ms that will do something
             alone |-> FALSE]   \* history: its options were set while it was closed, and
                                \* showed its layer

TypeOK ==
    /\ zTop \in 0 .. MaxZ
    /\ animating \in BOOLEAN /\ cut \in BOOLEAN /\ lost \in Nat
    /\ over \in {"auto", "hidden"}
    /\ dlg \in [Dialogs -> [made : BOOLEAN, vis : BOOLEAN, full : BOOLEAN,
                            z : 0 .. MaxZ, layer : {"none", "hidden", "shown"},
                            layerZ : 0 .. MaxZ, saved : {"auto", "hidden"},
                            modal : BOOLEAN, due : BOOLEAN, alone : BOOLEAN]]
    /\ fx \in [Dialogs -> Seq({"open", "full", "back"})]

Init ==
    /\ zTop = 0 /\ animating = FALSE /\ over = "auto" /\ lost = 0 /\ cut = FALSE
    /\ dlg = [d \in Dialogs |-> NoDialog]
    /\ fx = [d \in Dialogs |-> <<>>]

-----------------------------------------------------------------------------
(* Switches of the screen that have begun and not ended.                   *)
Switching(d) == \E i \in DOMAIN fx[d] : fx[d][i] # "open"

(* The user reaches a dialog unless the layer of another one lies over it. *)
Reachable(d) ==
    dlg[d].vis /\ \A e \in Dialogs : dlg[e].layer = "shown" => dlg[e].layerZ < dlg[d].z

(* _getDialogObj remembers the overflow the body has at that moment.       *)
GetDialogObj == [NoDialog EXCEPT !.made = TRUE, !.saved = over]

(* _showLayer makes the layer under the dialog the first time and only     *)
(* shows it again afterwards; _hideLayer.                                  *)
SetModal(o, modal) ==
    CASE modal /\ o.layer = "none"  -> [o EXCEPT !.layer = "shown", !.layerZ = o.z - 1]
      [] modal /\ o.layer # "none"  -> [o EXCEPT !.layer = "shown"]
      [] OTHER -> [o EXCEPT !.layer = IF @ = "none" THEN @ ELSE "hidden"]

Unfixed(d) == IF dlg[d].full THEN dlg[d].saved ELSE over

(* Every call of the component takes a new z-index, two above the last.    *)
Called == ~animating /\ zTop + 2 <= MaxZ /\ zTop' = zTop + 2

Animate(d, kind) == animating' = TRUE /\ fx' = [fx EXCEPT ![d] = Append(@, kind)]

-----------------------------------------------------------------------------
(* dialog({...}), dialog('open'): _init and dialogObj.open.                *)
Open(d, modal, animate) ==
    /\ Called
    /\ LET o == IF dlg[d].made THEN [dlg[d] EXCEPT !.full = FALSE] ELSE GetDialogObj
       IN  dlg' = [dlg EXCEPT ![d] = SetModal([o EXCEPT !.vis = TRUE, !.z = zTop + 2, !.modal = modal,
                                                        !.due = (d \in Large /\ ~animate), !.alone = FALSE], modal)]
    /\ over' = Unfixed(d)
    /\ IF animate THEN Animate(d, "open") ELSE UNCHANGED <<animating, fx>>
    /\ cut' = (cut \/ Switching(d) \/ (~dlg[d].made /\ over = "hidden"))
    /\ UNCHANGED lost

(* dialog('setOption'): _init does all it does for a dialog that opens, but *)
(* the dialog is not shown; its layer is, if it is modal.                  *)
GivenOptions(d, o, modal) ==
    /\ Called
    /\ dlg' = [dlg EXCEPT ![d] = SetModal([o EXCEPT !.full = FALSE, !.z = zTop + 2, !.modal = modal,
                                                    !.alone = modal /\ ~o.vis], modal)]
    /\ over' = Unfixed(d)
    /\ cut' = (cut \/ Switching(d))
    /\ UNCHANGED <<animating, fx, lost>>

SetOption(d) == dlg[d].made /\ \E modal \in BOOLEAN : GivenOptions(d, dlg[d], modal)

(* The timer of open(): a dialog that is larger than the window is given   *)
(* another size, closed by now or not, and then fits.  A timer that comes  *)
(* to nothing has no step: of a dialog that fits, or while something is    *)
(* animated, as its own opening may be.  That of a destroyed dialog throws. *)
OpenTimer(d) ==
    dlg[d].due /\ GivenOptions(d, [dlg[d] EXCEPT !.due = FALSE], dlg[d].modal)

(* Mutant: the layer stays.                                                *)
HiddenAlone(d) == [dlg[d] EXCEPT !.vis = FALSE, !.full = FALSE]

Hidden(d) == [dlg[d] EXCEPT !.vis = FALSE, !.full = FALSE,
                            !.layer = IF @ = "none" THEN @ ELSE "hidden"]

Shut(d) ==
    IF dlg[d].vis
    THEN /\ over' = Unfixed(d)
         /\ dlg' = [dlg EXCEPT ![d] = Hidden(d)]
         /\ cut' = (cut \/ Switching(d))
    ELSE UNCHANGED <<over, dlg, cut>>

(* dialog('close')                                                         *)
Close(d) == Called /\ dlg[d].made /\ Shut(d) /\ UNCHANGED <<animating, fx, lost>>

(* The button in the corner calls close() itself, animation or not.        *)
CloseButton(d) == Reachable(d) /\ Shut(d) /\ UNCHANGED <<zTop, animating, fx, lost>>

(* dialog('destroy') removes the element; what still runs on it ends later.*)
Destroy(d) ==
    /\ Called /\ dlg[d].made
    /\ over' = Unfixed(d)
    /\ dlg' = [dlg EXCEPT ![d] = NoDialog]
    /\ fx' = [fx EXCEPT ![d] = <<>>]
    /\ lost' = IF fx[d] = <<>> THEN lost ELSE lost + 1
    /\ cut' = (cut \/ Switching(d))
    /\ UNCHANGED animating

(* mousedown on a dialog                                                   *)
Raise(d) ==
    /\ Reachable(d) /\ zTop < MaxZ
    /\ zTop' = zTop + 1
    /\ dlg' = [dlg EXCEPT ![d].z = zTop + 1]
    /\ UNCHANGED <<animating, over, fx, lost, cut>>

Fullscreen(d) ==
    /\ Reachable(d) /\ ~dlg[d].full /\ Len(fx[d]) < 2
    /\ dlg' = [dlg EXCEPT ![d].full = TRUE]
    /\ Animate(d, "full")
    /\ UNCHANGED <<zTop, over, lost, cut>>

Backscreen(d) ==
    /\ Reachable(d) /\ dlg[d].full /\ Len(fx[d]) < 2
    /\ dlg' = [dlg EXCEPT ![d].full = FALSE]
    /\ over' = dlg[d].saved
    /\ Animate(d, "back")
    /\ UNCHANGED <<zTop, lost, cut>>

(* ESC reaches every full screen dialog, whatever lies over it; the last   *)
(* handler leaves its overflow.                                            *)
Escape ==
    LET full == {d \in Dialogs : dlg[d].full} IN
    /\ full # {} /\ \A d \in full : Len(fx[d]) < 2
    /\ dlg' = [d \in Dialogs |-> [dlg[d] EXCEPT !.full = FALSE]]
    /\ \E d \in full : over' = dlg[d].saved
    /\ fx' = [d \in Dialogs |-> IF d \in full THEN Append(fx[d], "back") ELSE fx[d]]
    /\ animating' = TRUE
    /\ cut' = (cut \/ full \notin {{d} : d \in Dialogs})
    /\ UNCHANGED <<zTop, lost>>

(* Mutant: the end of a closed dialog's animation is not heard.            *)
AnimationEndInSight(d) ==
    /\ fx[d] # <<>>
    /\ animating' = (animating /\ ~dlg[d].vis)
    /\ over' = CASE Head(fx[d]) = "full" -> "hidden"
                 [] Head(fx[d]) = "back" -> dlg[d].saved
                 [] OTHER -> over
    /\ fx' = [fx EXCEPT ![d] = Tail(@)]
    /\ UNCHANGED <<zTop, dlg, lost, cut>>

(* The end of an animation: _fixed or _unfixed, even of a closed dialog.   *)
AnimationEnd(d) ==
    /\ fx[d] # <<>>
    /\ animating' = FALSE
    /\ over' = CASE Head(fx[d]) = "full" -> "hidden"
                 [] Head(fx[d]) = "back" -> dlg[d].saved
                 [] OTHER -> over
    /\ fx' = [fx EXCEPT ![d] = Tail(@)]
    /\ UNCHANGED <<zTop, dlg, lost, cut>>

(* Of a removed element only the first statement of the end is reached.    *)
LostEnd ==
    /\ lost > 0 /\ lost' = lost - 1
    /\ animating' = FALSE
    /\ UNCHANGED <<zTop, over, dlg, fx, cut>>

Next ==
    \/ \E d \in Dialogs, modal, animate \in BOOLEAN : Open(d, modal, animate)
    \/ \E d \in Dialogs : \/ SetOption(d) \/ OpenTimer(d)
                          \/ Close(d) \/ CloseButton(d) \/ Destroy(d) \/ Raise(d)
                          \/ Fullscreen(d) \/ Backscreen(d) \/ AnimationEnd(d)
    \/ Escape
    \/ LostEnd

(* Timers of the browser: an animation that has begun ends.                *)
Fairness == (\A d \in Dialogs : WF_vars(AnimationEnd(d))) /\ WF_vars(LostEnd)

Spec == Init /\ [][Next]_vars /\ Fairness

-----------------------------------------------------------------------------
(* No layer covers the page alone but that of a dialog whose options were  *)
(* set after it was closed, as its own timer does: while another one is    *)
(* shown there is a dialog above all such layers (_showLayer, _hideLayer,  *)
(* close, destroy, setOption against the z-indexes of cloudjs.zIndex).     *)
LayersHaveDialogs ==
    LET layers == {d \in Dialogs : dlg[d].layer = "shown" /\ ~dlg[d].alone}
    IN  layers # {} => \E d \in Dialogs :
                            dlg[d].vis /\ \A e \in layers : dlg[e].layerZ < dlg[d].z

(* No dialog is in full screen or on its way.                              *)
Quiet == \A d \in Dialogs : ~dlg[d].full /\ ~Switching(d)

(* Left alone, the switches between window and full screen of one or more  *)
(* dialogs give the page its scroll bars back (_fixed, _unfixed).          *)
PageScrollsUnlessCut == Quiet /\ ~cut => over = "auto"

(* The component always becomes callable again: _animating, which makes it *)
(* ignore calls, is never left set by an animation that was cut short.     *)
DialogsAnswerAgain == []<>(~animating)
=============================================================================
