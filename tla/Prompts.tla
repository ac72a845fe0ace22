------------------------------ MODULE Prompts ------------------------------
(***************************************************************************)
(* Alerts, questions and prompts (cloudJs/js/dialog.js, js/util.js).  Each *)
(* kind has one element in the page, whose text, buttons and callbacks are *)
(* replaced when it is used again.  While a dialog is animated a call of   *)
(* the component returns at once, but the text was replaced before.        *)
(***************************************************************************)
EXTENDS Naturals, FiniteSets

CONSTANT MaxAsked   \* bound on alerts, questions and prompts

VARIABLES
    box,        \* the dialog of each kind
    _animating, \* cloudjs.dialog._animating
    asked,      \* number of things asked so far
    swallowed,  \* those asked while a dialog was animated
    heard       \* callbacks that ran: whose, how, and what the user saw

vars == <<box, _animating, asked, swallowed, heard>>

Kinds == {"alert", "confirm", "prompt"}
Asked == 1 .. MaxAsked
NoneYet == 0

TypeOK ==
    /\ box \in [Kinds -> [made : BOOLEAN, vis : BOOLEAN, text : Asked \cup {NoneYet},
                          empty : BOOLEAN, typed : BOOLEAN, ok : Asked \cup {NoneYet},
                          cross : SUBSET Asked]]
    /\ _animating \in BOOLEAN /\ asked \in 0 .. MaxAsked /\ swallowed \subseteq Asked
    /\ \A h \in heard : h.whose \in Asked /\ h.how \in {"button", "cancel", "cross"}

Init ==
    /\ box = [k \in Kinds |-> [made |-> FALSE, vis |-> FALSE, text |-> NoneYet, empty |-> FALSE,
                               typed |-> FALSE, ok |-> NoneYet, cross |-> {}]]
    /\ _animating = FALSE /\ asked = 0 /\ swallowed = {} /\ heard = {}

-----------------------------------------------------------------------------
(* The text of the element: it is replaced whatever happens next.          *)
Content(k, empty) ==
    [box[k] EXCEPT !.text = asked + 1, !.empty = empty, !.typed = FALSE]

(* Mutant: a dialog that is there keeps its buttons.                       *)
OpenKept(k, b) ==
    IF _animating
    THEN box' = [box EXCEPT ![k] = b] /\ swallowed' = swallowed \cup {asked + 1}
    ELSE /\ box' = [box EXCEPT ![k] = [b EXCEPT !.made = TRUE, !.vis = TRUE,
                                               !.ok = IF b.made THEN @ ELSE asked + 1]]
         /\ UNCHANGED swallowed

(* dialog(): a dialog that is there is opened again with other buttons.    *)
Open(k, b) ==
    IF _animating
    THEN box' = [box EXCEPT ![k] = b] /\ swallowed' = swallowed \cup {asked + 1}
    ELSE /\ box' = [box EXCEPT ![k] = [b EXCEPT !.made = TRUE, !.vis = TRUE, !.ok = asked + 1]]
         /\ UNCHANGED swallowed

Ask == asked < MaxAsked /\ asked' = asked + 1 /\ UNCHANGED <<_animating, heard>>

Alert == Ask /\ Open("alert", Content("alert", FALSE))

(* _confirm: the cross of the dialog gets one more handler.                *)
Confirm ==
    /\ Ask
    /\ LET b == Content("confirm", FALSE)
       IN  Open("confirm", IF _animating THEN b ELSE [b EXCEPT !.cross = @ \cup {asked + 1}])

Prompt == Ask /\ \E empty \in BOOLEAN : Open("prompt", Content("prompt", empty))

-----------------------------------------------------------------------------
Hear(k, whose, how) ==
    heard' = heard \cup {[whose |-> q, how |-> how, saw |-> box[k].text,
                          blank |-> box[k].empty /\ ~box[k].typed] : q \in whose}

Shut(k) == box[k].vis /\ box' = [box EXCEPT ![k].vis = FALSE]

(* The button: that of a prompt that must be filled in wants a text.       *)
ClickOk(k) ==
    /\ ~(box[k].empty /\ ~box[k].typed)
    /\ Shut(k) /\ Hear(k, {box[k].ok}, "button")
    /\ UNCHANGED <<_animating, asked, swallowed>>

ClickCancel ==
    /\ Shut("confirm") /\ Hear("confirm", {box["confirm"].ok}, "cancel")
    /\ UNCHANGED <<_animating, asked, swallowed>>

(* The cross: an alert's callback hears of every close, a question's       *)
(* handlers of the click.                                                  *)
ClickCross(k) ==
    /\ Shut(k)
    /\ Hear(k, CASE k = "alert" -> {box[k].ok} [] k = "confirm" -> box[k].cross
                 [] k = "prompt" -> {}, "cross")
    /\ UNCHANGED <<_animating, asked, swallowed>>

Type ==
    /\ box["prompt"].vis /\ box' = [box EXCEPT !["prompt"].typed = TRUE]
    /\ UNCHANGED <<_animating, asked, swallowed, heard>>

(* Another dialog begins or ends an animation (Dialog).                    *)
Animate == _animating' = ~_animating /\ UNCHANGED <<box, asked, swallowed, heard>>

Next ==
    \/ Alert \/ Confirm \/ Prompt \/ ClickCancel \/ Type \/ Animate
    \/ \E k \in Kinds : ClickOk(k) \/ ClickCross(k)

Spec == Init /\ [][Next]_vars

-----------------------------------------------------------------------------
(* A button answers what the user read: the callback of OK or Cancel is    *)
(* the one of the text that was shown, though one element is used for all, *)
(* unless that text came while a dialog was animated; and a prompt that    *)
(* must be filled in is never answered with nothing (_alert, _confirm,     *)
(* _prompt).                                                               *)
AnswersWhatWasRead ==
    \A h \in heard : h.how # "cross" =>
        /\ h.whose = h.saw \/ h.saw \in swallowed
        /\ ~h.blank

(* The doc of _confirm: no is called at "点击取消或右上角关闭按钮", at     *)
(* Cancel or at the cross of the question -- its own, not that of another. *)
CrossAnswersOnce == \A h \in heard : h.how = "cross" => h.whose = h.saw \/ h.saw \in swallowed

(* What every step keeps: a dialog that is open has the callback of its    *)
(* text, unless that text came while a dialog was animated.                *)
Inv ==
    /\ TypeOK /\ AnswersWhatWasRead
    /\ \A k \in Kinds : box[k].vis => /\ box[k].ok \in Asked
                                      /\ box[k].ok = box[k].text \/ box[k].text \in swallowed
    /\ ~box["confirm"].empty
=============================================================================
