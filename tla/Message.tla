------------------------------ MODULE Message ------------------------------
(***************************************************************************)
(* Messages at the top of the page: cloudJs/js/message.js, and showMsg of  *)
(* js/util.js.  Every message has its timer and its handlers; one that is  *)
(* closed fades before it is removed, and its timer may run all the same.  *)
(***************************************************************************)
EXTENDS Naturals, FiniteSets

CONSTANTS
    Ids, NoId,      \* option id
    MaxMessages     \* bound on messages

VARIABLES
    message,    \* the messages made so far: number -> what became of it
    timers,     \* messages whose timer is set
    triggers,   \* messages that a click elsewhere in the page closes
    resizes,    \* messages that hear of a resized window
    shows       \* history: messages made by Util.showMsg

vars == <<message, timers, triggers, resizes, shows>>

Made == DOMAIN message
Boxes == {m \in Made : message[m].at # "gone"}

TypeOK ==
    /\ Made = 1 .. Cardinality(Made) /\ Cardinality(Made) <= MaxMessages
    /\ \A m \in Made :
          message[m] \in [at : {"shown", "fading", "gone"}, id : Ids \cup {NoId},
                          lasts : BOOLEAN, icon : BOOLEAN, _msgBox : BOOLEAN]
    /\ timers \subseteq Made /\ triggers \subseteq Made /\ resizes \subseteq Made
    /\ shows \subseteq Made

Init == message = <<>> /\ timers = {} /\ triggers = {} /\ resizes = {} /\ shows = {}

-----------------------------------------------------------------------------
(* _doHide: those of S that are in the page fade; one that fades already   *)
(* begins to fade anew.                                                    *)
DoHide(S) == [m \in Made |-> IF m \in S \cap Boxes THEN [message[m] EXCEPT !.at = "fading"]
                             ELSE message[m]]

(* _addBox and _show, in a page with the messages of before                *)
Show(before, id, lasts, icon, trigger) ==
    LET n == Cardinality(Made) + 1
    IN  /\ n <= MaxMessages
        /\ message' = [m \in 1 .. n |->
              IF m < n THEN before[m]
              ELSE [at |-> "shown", id |-> id, lasts |-> lasts, icon |-> icon, _msgBox |-> TRUE]]
        /\ timers' = IF lasts THEN timers ELSE timers \cup {n}
        /\ triggers' = IF trigger THEN triggers \cup {n} ELSE triggers
        /\ resizes' = resizes \cup {n}

(* cloudjs.message; one with no duration lasts.                            *)
Message(id, lasts, icon, trigger) ==
    Show(message, id, lasts, icon, trigger) /\ UNCHANGED shows

(* Util.showMsg: close all, then the new one                               *)
ShowMsg(lasts, icon) ==
    /\ Show(DoHide(Made), NoId, lasts, icon, FALSE)
    /\ shows' = shows \cup {Cardinality(Made) + 1}

(* cloudjs.message('close'): the timers of the messages stay as they are.  *)
Close(S) ==
    /\ S \cap Boxes # {} /\ message' = DoHide(S)
    /\ UNCHANGED <<timers, triggers, resizes, shows>>

CloseAll == Close(Made)
CloseId(id) == Close({m \in Made : message[m].id = id})

(* _hide without an id: a message closes itself.                           *)
HideSelf(m) ==
    /\ message' = IF message[m]._msgBox THEN DoHide({m}) ELSE message
    /\ timers' = timers \ {m}

ClickIcon(m) ==
    /\ message[m].icon /\ HideSelf(m) /\ UNCHANGED <<triggers, resizes, shows>>

Timeout(m) == m \in timers /\ HideSelf(m) /\ UNCHANGED <<triggers, resizes, shows>>

(* A click that none of these messages is under: each that is still in the *)
(* page hides, forgets its box and hears no more.                          *)
ClickElsewhere(m) ==
    /\ triggers # {}
    /\ LET hide == (triggers \ {m}) \cap Boxes IN
       /\ message' = [n \in Made |-> IF n \in hide THEN [DoHide(hide)[n] EXCEPT !._msgBox = FALSE]
                                     ELSE message[n]]
       /\ timers' = timers \ hide /\ triggers' = triggers \ hide
    /\ UNCHANGED <<resizes, shows>>

(* The end of the fading                                                   *)
Removed(m) ==
    /\ message[m].at = "fading" /\ message' = [message EXCEPT ![m].at = "gone"]
    /\ UNCHANGED <<timers, triggers, resizes, shows>>

(* A message that is gone hears of a resize once, and then no more.        *)
Resize ==
    /\ resizes' = resizes \cap {m \in Boxes : message[m]._msgBox}
    /\ UNCHANGED <<message, timers, triggers, shows>>

Next ==
    \/ \E id \in Ids \cup {NoId}, lasts, icon, trigger \in BOOLEAN : Message(id, lasts, icon, trigger)
    \/ \E lasts, icon \in BOOLEAN : ShowMsg(lasts, icon)
    \/ CloseAll \/ Resize \/ \E id \in Ids : CloseId(id)
    \/ \E m \in Boxes : ClickIcon(m)
    \/ \E m \in Made : Timeout(m) \/ Removed(m)
    \/ \E m \in Boxes \cup {0} : ClickElsewhere(m)

(* What the browser does: it runs timers and animations.                   *)
Goes(m) == m \in Made /\ (Timeout(m) \/ Removed(m))
Fairness == \A m \in 1 .. MaxMessages : WF_vars(Goes(m))
Spec == Init /\ [][Next]_vars
FairSpec == Spec /\ Fairness

-----------------------------------------------------------------------------
(* Of the messages that the pages show (Util.showMsg) at most one has not  *)
(* begun to go.                                                            *)
OneMessage == Cardinality({m \in shows : message[m].at = "shown"}) <= 1

(* A message that was to be shown for a while goes, however often others   *)
(* are shown and closed; of those that last only a close takes them away.  *)
MessagesGo == \A m \in 1 .. MaxMessages :
                  (m \in Made /\ ~message[m].lasts) ~> (m \in Made /\ message[m].at = "gone")
=============================================================================
