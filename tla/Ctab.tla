-------------------------------- MODULE Ctab --------------------------------
(***************************************************************************)
(* Closable tabs (cloudJs/js/ctab.js).  A tab exists three times: as an    *)
(* item of cObj.panels, as an element of the head (lis) with its panel,    *)
(* and as a position in cObj.selectedList, which orders the positions by   *)
(* the time of their last selection.  Positions shift when tabs are added, *)
(* removed and dragged.                                                    *)
(***************************************************************************)
EXTENDS Naturals, Sequences, FiniteSets, SequencesExt

CONSTANTS
    Tabs,       \* identities of tabs; one is used again when its tab is gone
    MaxNum,     \* option maxNum
    MaxMoves,   \* bound on drags and late hover timers
    None        \* no tab

VARIABLES
    panels,     \* cObj.panels
    lis,        \* children of the head, with them their panels
    selList,    \* cObj.selectedList, positions counted from 1
    selected,   \* the tab of class ctab_selected
    content,    \* the item whose content the panel of a tab was loaded with
    hover,      \* the tab a hover timer is running for
    recent,     \* history: the tabs by their last selection
    moved       \* history: drags, and hover timers that outlived their tabs

vars == <<panels, lis, selList, selected, content, hover, recent, moved>>

TypeOK ==
    /\ panels \in Seq(Tabs) /\ lis \in Seq(Tabs)
    /\ selList \in Seq(1 .. MaxNum) /\ recent \in Seq(Tabs)
    /\ selected \in Tabs \cup {None} /\ hover \in Tabs \cup {None}
    /\ content \in [Tabs -> Tabs \cup {None}] /\ moved \in 0 .. MaxMoves

Init ==
    /\ panels = <<>> /\ lis = <<>> /\ selList = <<>> /\ recent = <<>>
    /\ selected = None /\ hover = None /\ moved = 0
    /\ content = [t \in Tabs |-> None]

-----------------------------------------------------------------------------
(* The number a position has among those of K, and the sequence without    *)
(* the positions of S.                                                     *)
Rank(K, i) == Cardinality({j \in K : j <= i})
Without(s, S) ==
    LET K == (DOMAIN s) \ S
    IN  [k \in 1 .. Cardinality(K) |-> s[CHOOSE i \in K : Rank(K, i) = k]]

ToFront(s, x) == <<x>> \o Without(s, {k \in DOMAIN s : s[k] = x})

(* _doLoadPanel: the item at a position is loaded into the panel of the    *)
(* tab at that position.                                                   *)
DoLoadPanel(c, ps, ls, i) == [c EXCEPT ![ls[i]] = ps[i]]

(* _doSelectTab at a position of the new head; a panel is loaded when it   *)
(* is shown for the first time (tabloaded).  A position outside changes    *)
(* nothing.                                                                *)
DoSelectTab(ps, ls, sl, rec, c, i) ==
    IF i \in DOMAIN ls
    THEN /\ selList' = ToFront(sl, i)
         /\ recent' = ToFront(rec, ls[i])
         /\ selected' = ls[i]
         /\ content' = IF c[ls[i]] = None THEN DoLoadPanel(c, ps, ls, i) ELSE c
    ELSE selList' = sl /\ recent' = rec /\ content' = c /\ UNCHANGED selected

(* _doAddTab: no more than maxNum tabs.  The new tab to select is counted  *)
(* from the new ones; without one it is the last of all, and to both the   *)
(* old number of tabs is added.                                            *)
DoAddTab(new, isSelected) ==
    LET n     == Len(lis)
        taken == SubSeq(new, 1, IF Len(new) <= MaxNum - n THEN Len(new) ELSE MaxNum - n)
        ls    == lis \o taken
        ps    == panels \o taken
        sl    == selList \o [k \in DOMAIN taken |-> n + k]
        at    == IF isSelected \in DOMAIN taken THEN isSelected + n ELSE Len(ls) + n
    IN  /\ taken # <<>>
        /\ lis' = ls /\ panels' = ps
        /\ DoSelectTab(ps, ls, sl, recent \o taken, content, at)
        /\ UNCHANGED <<hover, moved>>

AddTab ==
    \E t, u \in Tabs \ ToSet(lis) :
        LET new == IF t = u THEN <<t>> ELSE <<t, u>> IN
        \E isSelected \in 0 .. Len(new) : DoAddTab(new, isSelected)

(* mousedown on a tab, or selectTab                                        *)
SelectTab(i) ==
    /\ i \in DOMAIN lis /\ lis[i] # selected
    /\ DoSelectTab(panels, lis, selList, recent, content, i)
    /\ UNCHANGED <<panels, lis, hover, moved>>

(* Mutant: the positions above the removed ones are left as they are.      *)
RenumberedNot(sl, S) == Without(sl, {k \in DOMAIN sl : sl[k] \in S})

(* The positions of a list when those of S are gone.                       *)
Renumbered(sl, S) ==
    LET left == Without(sl, {k \in DOMAIN sl : sl[k] \in S})
    IN  [k \in DOMAIN left |-> left[k] - Cardinality({p \in S : p < left[k]})]

(* _doRemoveTab: the positions above a removed one move down in the list   *)
(* of selections; if the selected tab went, the tab selected last before   *)
(* it follows.                                                             *)
DoRemoveTab(S) ==
    LET ls   == Without(lis, S)
        ps   == Without(panels, S)
        sl   == Renumbered(selList, S)
        gone == {lis[i] : i \in S}
        rec  == Without(recent, {k \in DOMAIN recent : recent[k] \in gone})
        c    == [t \in Tabs |-> IF t \in gone THEN None ELSE content[t]]
    IN  /\ lis' = ls /\ panels' = ps
        /\ CASE selected \notin gone -> /\ selList' = sl /\ recent' = rec /\ content' = c
                                        /\ UNCHANGED selected
             [] selected \in gone /\ sl # <<>> -> DoSelectTab(ps, ls, sl, rec, c, sl[1])
             [] OTHER -> selList' = sl /\ recent' = rec /\ content' = c /\ selected' = None
        /\ UNCHANGED <<hover, moved>>

RemoveTab == \E S \in SUBSET (DOMAIN lis) \ {{}} : DoRemoveTab(S)

(* _closeOtherTabs                                                         *)
CloseOtherTabs ==
    /\ Len(lis) > 1
    /\ DoRemoveTab({i \in DOMAIN lis : lis[i] # selected})

(* refreshTab, and updateTab with something to load again                  *)
DoRefreshTab(i) ==
    /\ i \in DOMAIN lis
    /\ content' = DoLoadPanel(content, panels, lis, i)
    /\ UNCHANGED <<panels, lis, selList, selected, hover, recent, moved>>

(* _doDragTab: tab i is dropped behind tab p (p = 0: in front of all).     *)
(* What was behind the tab moves down before its item is put back.         *)
MovedTo(s, i, at) == InsertAt(RemoveAt(s, i), at, s[i])

DragTab(i, p) ==
    /\ i \in DOMAIN lis /\ p \in 0 .. Len(lis) /\ p # i
    /\ panels' = MovedTo(panels, i, IF p < Len(panels) THEN p + 1 ELSE p)
    /\ lis' = MovedTo(lis, i, IF i < p THEN p ELSE p + 1)
    /\ lis' # lis /\ moved < MaxMoves /\ moved' = moved + 1
    /\ UNCHANGED <<selList, selected, content, hover, recent>>

(* _bindEachEvent: mouseenter starts the timer, mouseleave stops it.       *)
MouseEnter(t) ==
    /\ t \in ToSet(lis) /\ hover' = t
    /\ UNCHANGED <<panels, lis, selList, selected, content, recent, moved>>
MouseLeave ==
    /\ hover \in ToSet(lis) /\ hover' = None
    /\ UNCHANGED <<panels, lis, selList, selected, content, recent, moved>>

(* The timer looks up the position of its tab; of a tab that is gone it is *)
(* -1, which names the last one.                                           *)
HoverTimer ==
    /\ hover # None /\ hover' = None
    /\ UNCHANGED <<panels, lis>>
    /\ IF hover \in ToSet(lis)
       THEN /\ DoSelectTab(panels, lis, selList, recent, content,
                           CHOOSE i \in DOMAIN lis : lis[i] = hover)
            /\ UNCHANGED moved
       ELSE /\ UNCHANGED <<selList, recent>>
            /\ moved < MaxMoves /\ moved' = moved + 1
            /\ IF lis = <<>> THEN UNCHANGED <<selected, content>>
               ELSE /\ selected' = Last(lis)
                    /\ content' = IF content[Last(lis)] = None
                                  THEN [content EXCEPT ![Last(lis)] = Last(panels)] ELSE content

Next ==
    \/ AddTab \/ RemoveTab \/ CloseOtherTabs \/ MouseLeave \/ HoverTimer
    \/ \E i \in 1 .. MaxNum : SelectTab(i) \/ DoRefreshTab(i)
    \/ \E i \in 1 .. MaxNum, p \in 0 .. MaxNum : DragTab(i, p)
    \/ \E t \in Tabs : MouseEnter(t)

Spec == Init /\ [][Next]_vars

-----------------------------------------------------------------------------
(* While there are tabs one of them is selected, whatever was added,       *)
(* removed, dragged or hovered before: _doRemoveTab finds in selectedList  *)
(* a position that still exists.                                           *)
SomeTabIsSelected == lis # <<>> => selected \in ToSet(lis)

(* The positions of selectedList, through all renumbering, name the tabs   *)
(* in the order of their last selection, so that the tab that follows a    *)
(* closed one is the one used before it ("默认选中最近打开的tab").         *)
RecentTabFollows ==
    moved = 0 => /\ Len(selList) = Len(recent)
                 /\ \A k \in DOMAIN recent : selList[k] \in DOMAIN lis /\ lis[selList[k]] = recent[k]

(* A panel shows the content of its own tab: an item and its tab keep the  *)
(* same position in cObj.panels and in the head, unless a tab was dragged  *)
(* (_doDragTab takes an item away before it counts where to put it).       *)
TabShowsItsItem == moved = 0 => \A t \in ToSet(lis) : content[t] \in {t, None}
=============================================================================
