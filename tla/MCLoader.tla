------------------------------ MODULE MCLoader ------------------------------
(***************************************************************************)
(* What the pages of the administration stand on, for TLC: the loader of   *)
(* scripts (OdflLoader), cloudjs, which asks it for components and calls   *)
(* them (CloudComponents), and what covers the page and has to go again    *)
(* (Dialog, Message).  CloudComponents has its own view of what files do;  *)
(* the four share no variable.  A behaviour runs one of them, which Begin  *)
(* chooses; the others rest in their initial states.                       *)
(***************************************************************************)
EXTENDS Integers

CONSTANTS
    Scripts, Styles, Comps, MaxRequests, Absent,
    Components, Filed, Null, MaxCalls, MaxTasks,
    Dialogs, Large, MaxZ,
    Ids, NoId, MaxMessages

ASSUME LoaderAssumption == MaxZ \in Nat /\ MaxMessages \in Nat

VARIABLES
    active,     \* the part that runs
    \* of OdflLoader
    handler, asks, loads, agenda, attr, known, comRes, answered, there, lost, thrown,
    \* of CloudComponents
    taskArr, state, queue, made, rt, hasTask, funArr, ran, odd,
    \* of Dialog
    zTop, animating, over, dlg, fx, removed, cut,
    \* of Message
    message, timers, triggers, resizes, shows

Odfl    == INSTANCE OdflLoader
Cloud   == INSTANCE CloudComponents
Dialog  == INSTANCE Dialog WITH lost <- removed
Message == INSTANCE Message

odflVars    == <<handler, asks, loads, agenda, attr, known, comRes, answered, there,
                 lost, thrown>>
cloudVars   == <<taskArr, state, queue, made, rt, hasTask, funArr, ran, odd>>
dialogVars  == <<zTop, animating, over, dlg, fx, removed, cut>>
messageVars == <<message, timers, triggers, resizes, shows>>
all         == <<active, odflVars, cloudVars, dialogVars, messageVars>>

Begin == /\ active \in {"odfl", "cloud", "dialog", "message"}
         /\ Odfl!Init /\ Cloud!Init /\ Dialog!Init /\ Message!Init

(* Part p is the one that runs, and the others stay as they are.           *)
Only(p) ==
    /\ active = p /\ UNCHANGED active
    /\ p # "odfl"    => UNCHANGED odflVars
    /\ p # "cloud"   => UNCHANGED cloudVars
    /\ p # "dialog"  => UNCHANGED dialogVars
    /\ p # "message" => UNCHANGED messageVars

Move == \/ Only("odfl")    /\ Odfl!Next
        \/ Only("cloud")   /\ Cloud!Next
        \/ Only("dialog")  /\ Dialog!Next
        \/ Only("message") /\ Message!Next

(* The fairness of each module, in the behaviours that run it: a file that *)
(* was asked for comes or fails, what was begun goes on, and the browser   *)
(* runs timers and ends animations.                                        *)
Loader ==
    /\ Begin /\ [][Move]_all
    /\ WF_odflVars(active = "odfl" /\ Odfl!Turn)
    /\ WF_odflVars(active = "odfl" /\ (Odfl!Loaded \/ Odfl!Failed))
    /\ WF_cloudVars(active = "cloud" /\ Cloud!Run)
    /\ WF_cloudVars(active = "cloud" /\ Cloud!Tick)
    /\ WF_cloudVars(active = "cloud" /\ Cloud!ScriptCame)
    /\ WF_cloudVars(active = "cloud" /\ Cloud!FileCame)
    /\ \A d \in Dialogs : WF_dialogVars(active = "dialog" /\ Dialog!AnimationEnd(d))
    /\ WF_dialogVars(active = "dialog" /\ Dialog!LostEnd)
    /\ \A m \in 1 .. MaxMessages : WF_messageVars(active = "message" /\ Message!Goes(m))

-----------------------------------------------------------------------------
(* success runs at most once for a call of force, and only when all it     *)
(* names has been loaded; nobody waits for what nobody loads.              *)
SucceedsOnceWithAll ==
    Odfl!TypeOK /\ Odfl!SucceedsOnceWithAll /\ Odfl!SomebodyLoads

(* Every call of force succeeds if nothing it names fails.                 *)
EveryCallSucceeds == active = "odfl" => Odfl!EveryCallSucceeds

(* Calls of one component run once and in the order they were made.        *)
CallsRunInOrder == Cloud!TypeOK /\ Cloud!CallsRunInOrder

(* A function given to cloudjs(fn) runs only after the calls made before.  *)
TasksRunAfterCalls == Cloud!TasksRunAfterCalls

(* A component whose file comes runs its calls, and a function that waits  *)
(* for components runs in the end.                                         *)
EveryCallRuns == active = "cloud" => Cloud!EveryCallRuns /\ Cloud!TasksRun

(* A layer never covers the page without a dialog above it, but that of a  *)
(* dialog whose options were set after it was closed; the page has its     *)
(* scroll bars back when no dialog fills it, and at most one message of    *)
(* the pages is shown.                                                     *)
LayersHaveDialogs ==
    /\ Dialog!TypeOK /\ Dialog!LayersHaveDialogs /\ Dialog!PageScrollsUnlessCut
    /\ Message!TypeOK /\ Message!OneMessage

(* The dialogs always become callable again, and a message that was to be  *)
(* shown for a while goes.                                                 *)
DialogsAnswerAgain ==
    /\ active = "dialog" => Dialog!DialogsAnswerAgain
    /\ active = "message" => Message!MessagesGo
=============================================================================
