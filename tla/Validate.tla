------------------------------ MODULE Validate ------------------------------
(***************************************************************************)
(* Checks of form fields and their error messages (cloudJs/js/validate.js).*)
(* A message is a node of the page; its field remembers it (errmsgObj) to  *)
(* remove it on focus or before the next check.  One timer, shared by all  *)
(* forms of the page, removes the messages of a context by their class.    *)
(***************************************************************************)
EXTENDS Naturals, FiniteSets

CONSTANTS
    Forms,      \* sets of fields that are validated together; they may overlap
    NoTimer     \* no timer runs

FormFields == UNION Forms

VARIABLES
    valid,      \* fields whose text satisfies their rules
    marked,     \* fields with a message on the page
    failed,     \* fields that failed their last check
    bound,      \* fields with a handler of focus (focus-binded)
    timer,      \* cloudjs.validate._timeout1: the fields of the check that set it
    focused,    \* the field with the focus, in a set
    delayed,    \* fields whose message was promised to go after a delay
    orphaned,   \* history: those whose timer another form's check stopped
    inside,     \* history: marked while they had the focus, and not entered since
    filled      \* history: marked, and written in by a script since

vars == <<valid, marked, failed, bound, timer, focused, delayed, orphaned, inside, filled>>
messages == <<marked, delayed, orphaned, inside, filled>>

TypeOK ==
    /\ valid \subseteq FormFields /\ marked \subseteq FormFields /\ failed \subseteq FormFields
    /\ bound \subseteq FormFields /\ delayed \subseteq FormFields
    /\ timer # NoTimer => timer \subseteq FormFields
    /\ focused \subseteq FormFields /\ \A f, g \in focused : f = g

Init ==
    /\ valid \in SUBSET FormFields
    /\ marked = {} /\ failed = {} /\ bound = {} /\ delayed = {}
    /\ timer = NoTimer /\ focused = {}
    /\ orphaned = {} /\ inside = {} /\ filled = {}

(* Mutant: a timer that runs is left to run.                               *)
TimerKept(shown, delay) ==
    IF timer # NoTimer THEN timer ELSE IF delay /\ shown # {} THEN shown ELSE NoTimer

(* The timer after a check: any other one is stopped.                      *)
TimerOf(shown, delay) == IF delay /\ shown # {} THEN shown ELSE NoTimer

(* The messages of some fields go.                                         *)
Without(fields) ==
    /\ marked' = marked \ fields /\ delayed' = delayed \ fields
    /\ orphaned' = orphaned \ fields /\ inside' = inside \ fields
    /\ filled' = filled \ fields

(* _init: the messages of the form go, every field is checked, each that   *)
(* fails gets one message and, once, a handler.  The focus is where it was.*)
Validate(form, warn, delay) ==
    LET errors == form \ valid
        shown  == IF warn THEN errors ELSE {}
    IN  /\ failed' = (failed \ form) \cup errors
        /\ marked' = (marked \ form) \cup shown
        /\ bound' = bound \cup shown
        /\ delayed' = (delayed \ form) \cup (IF delay THEN shown ELSE {})
        /\ timer' = TimerOf(shown, delay)
        /\ orphaned' = (orphaned \cup (IF timer = NoTimer THEN {} ELSE delayed \cap timer)) \ form
        /\ inside' = (inside \ form) \cup (shown \cap focused)
        /\ filled' = filled \ form
        /\ UNCHANGED <<valid, focused>>

(* The timer: _removeErrmsgs finds the messages of all forms, and so does  *)
(* validate('removeErrmsg') without elements.                              *)
Timeout ==
    /\ timer # NoTimer /\ timer' = NoTimer
    /\ Without(FormFields)
    /\ UNCHANGED <<valid, failed, bound, focused>>
RemoveErrmsgs ==
    /\ Without(FormFields)
    /\ UNCHANGED <<valid, failed, bound, timer, focused>>

(* validate('removeErrmsg') on elements                                    *)
RemoveErrmsg(form) ==
    /\ Without(form)
    /\ UNCHANGED <<valid, failed, bound, timer, focused>>

(* focus, which a field that has it does not get, and blur                 *)
Focus(f) ==
    /\ f \notin focused /\ focused' = {f}
    /\ Without({f} \cap bound)
    /\ UNCHANGED <<valid, failed, bound, timer>>
Blur ==
    /\ focused # {} /\ focused' = {}
    /\ UNCHANGED <<valid, failed, bound, timer>> /\ UNCHANGED messages

(* The text of a field becomes another one: the user writes in the field   *)
(* with the focus, or a script of the page fills in any.                   *)
Rewritten(f) ==
    /\ valid' = (valid \ {f}) \cup ({f} \ valid)
    /\ UNCHANGED <<failed, bound, timer, focused>>
Edit(f) ==
    /\ f \in focused /\ Rewritten(f)
    /\ UNCHANGED messages
Fill(f) ==
    /\ Rewritten(f)
    /\ filled' = filled \cup ({f} \cap marked)
    /\ UNCHANGED <<marked, delayed, orphaned, inside>>

Next ==
    \/ \E form \in Forms : \/ RemoveErrmsg(form)
                           \/ \E warn, delay \in BOOLEAN : Validate(form, warn, delay)
    \/ \E f \in FormFields : Focus(f) \/ Edit(f) \/ Fill(f)
    \/ Blur \/ Timeout \/ RemoveErrmsgs

Spec == Init /\ [][Next]_vars

-----------------------------------------------------------------------------
(* A message is beside a field that failed its last check, and the user    *)
(* can get rid of it.  It stands beside a text that is right only if a     *)
(* script wrote it or if the field was checked while it had the focus and  *)
(* has not lost it and got it back since (a message goes with the event of *)
(* focus, not with what is written).  A message that was to go after a     *)
(* delay has a timer, unless a check of another form stopped it.           *)
MessagesAreTrue ==
    /\ marked \subseteq failed \cap bound
    /\ marked \cap valid \subseteq inside \cup filled
    /\ delayed \ orphaned # {} => timer # NoTimer /\ delayed \ orphaned \subseteq timer

(* What every step keeps.                                                  *)
Inv == /\ TypeOK /\ MessagesAreTrue
       /\ inside \cup filled \subseteq marked /\ focused \cap marked \subseteq inside
=============================================================================
