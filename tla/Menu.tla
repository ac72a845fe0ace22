-------------------------------- MODULE Menu --------------------------------
(***************************************************************************)
(* Menus: cloudJs/js/menu.js.  A "data" or a "simple" menu shows what is   *)
(* under an item a while after the mouse came, and hides it a while after  *)
(* it went; a "fixed" one has a panel beside its list for every item; a    *)
(* "tree" opens and closes by clicks.                                      *)
(***************************************************************************)
EXTENDS FiniteSets

CONSTANTS
    Items, Parent,  \* the items of two levels: Parent[i] is an item or None
    None

VARIABLES
    kind,
    isHideOther,    \* of a tree
    mouse,          \* the item the mouse is on, or None
    onPanel,        \* of a fixed menu: the mouse is on the item's panel
    mIndex,         \* of a fixed menu: the item entered last
    shown,          \* items whose list or panel is shown
    hover,          \* items with the class hover
    showing, hiding \* _objMap: items whose show_ and hide_ timers are set

vars == <<kind, isHideOther, mouse, onPanel, mIndex, shown, hover, showing, hiding>>

TypeOK ==
    /\ kind \in {"data", "simple", "fixed", "tree"}
    /\ isHideOther \in BOOLEAN /\ onPanel \in BOOLEAN
    /\ mouse \in Items \cup {None} /\ mIndex \in Items \cup {None}
    /\ shown \subseteq Items /\ hover \subseteq Items
    /\ showing \subseteq Items /\ hiding \subseteq Items

Path(i) == {i, IF i = None THEN None ELSE Parent[i]} \ {None}
Siblings(i) == {j \in Items \ {i} : Parent[j] = Parent[i]}
Leaf(i) == \A j \in Items : Parent[j] # i

(* _createHtml: the items of a tree that are open from the start           *)
Init ==
    /\ kind \in {"data", "simple", "fixed", "tree"} /\ isHideOther \in BOOLEAN
    /\ mouse = None /\ onPanel = FALSE /\ mIndex = None /\ showing = {} /\ hiding = {}
    /\ shown \in IF kind = "tree" THEN {{}} \cup {{i} : i \in Items} ELSE {{}}
    /\ hover = shown

-----------------------------------------------------------------------------
(* What of the menu the mouse can get to                                   *)
There(i) == i = None \/ Path(i) \ {i} \subseteq shown
Timed == kind \in {"data", "simple"}

(* mouseleave of the items left, with _hideObj, then mouseenter of those   *)
(* entered, with _showObj                                                  *)
Move(to) ==
    /\ Timed /\ to # mouse /\ There(to)
    /\ kind = "simple" /\ to # None => Parent[to] = None
    /\ mouse' = to
    /\ LET left    == Path(mouse) \ Path(to)
           entered == Path(to) \ Path(mouse)
       IN  /\ showing' = (showing \ left) \cup entered
           /\ hiding' = (hiding \cup left) \ entered
    /\ UNCHANGED <<kind, isHideOther, onPanel, mIndex, shown, hover>>

ShowObj(i) ==
    /\ i \in showing /\ showing' = showing \ {i}
    /\ shown' = shown \cup {i} /\ hover' = hover \cup {i}
    /\ UNCHANGED <<kind, isHideOther, mouse, onPanel, mIndex, hiding>>

HideObj(i) ==
    /\ i \in hiding /\ hiding' = hiding \ {i}
    /\ shown' = shown \ {i} /\ hover' = hover \ {i}
    /\ UNCHANGED <<kind, isHideOther, mouse, onPanel, mIndex, showing>>

(* _bindFixedMouse: from an item the mouse gets to another or to its       *)
(* panel; a panel that is left stays mIndex's until an item is entered.    *)
MoveFixed(to, panel) ==
    /\ kind = "fixed" /\ <<to, panel>> # <<mouse, onPanel>>
    /\ to = None => ~panel
    /\ to # None => Parent[to] = None /\ (panel => to \in shown)
    /\ mouse' = to /\ onPanel' = panel
    /\ mIndex' = IF to # None /\ ~panel THEN to ELSE mIndex
    /\ LET gone  == IF onPanel THEN {mIndex} ELSE {mouse}
           left  == IF onPanel THEN shown \ {mIndex} ELSE IF mouse = None THEN shown ELSE {}
           enter == IF to = None THEN {} ELSE {mIndex'}
       IN  /\ shown' = left \cup enter
           /\ hover' = (hover \ gone) \cup enter
    /\ UNCHANGED <<kind, isHideOther, showing, hiding>>

(* A click on an item of a tree                                            *)
ClickTree(i) ==
    /\ kind = "tree" /\ There(i)
    /\ LET close == IF isHideOther /\ ~Leaf(i) THEN Siblings(i) ELSE {}
       IN  shown' = IF i \in hover THEN shown \ {i} ELSE (shown \cup {i}) \ close
    /\ hover' = shown'
    /\ UNCHANGED <<kind, isHideOther, mouse, onPanel, mIndex, showing, hiding>>

Next ==
    \/ \E i \in Items \cup {None} :
          Move(i) \/ \E panel \in BOOLEAN : MoveFixed(i, panel)
    \/ \E i \in Items : ShowObj(i) \/ HideObj(i) \/ ClickTree(i)

Spec == Init /\ [][Next]_vars

-----------------------------------------------------------------------------
(* When no timer is left to run, a menu shows exactly what is under the    *)
(* mouse, however fast the mouse came and went; and of the items of a tree *)
(* that close each other at most one is open (_showObj, _hideObj,          *)
(* _bindFixedMouse, the click of a tree).                                  *)
MenuFollows ==
    /\ kind # "tree" /\ showing \cup hiding = {} =>
          shown = Path(mouse) /\ hover = shown
    /\ kind = "tree" /\ isHideOther =>
          \A i \in shown : Siblings(i) \cap shown \subseteq {j \in Items : Leaf(i) \/ Leaf(j)}

(* What every step keeps.  Of a timed menu the items around the mouse are  *)
(* shown or going to be, and only those that are shown beside them are     *)
(* going to be hidden; a fixed one is never behind.                        *)
Inv ==
    /\ TypeOK /\ MenuFollows /\ hover = shown
    /\ Timed => /\ showing \subseteq Path(mouse) /\ Path(mouse) \ showing \subseteq shown
                /\ hiding \cap Path(mouse) = {} /\ shown \ hiding \subseteq Path(mouse)
    /\ ~Timed => showing = {} /\ hiding = {}
    /\ kind = "fixed" => /\ shown = Path(mouse)
                         /\ mouse # None => mIndex = mouse /\ Parent[mouse] = None
                         /\ onPanel => mouse # None
=============================================================================
